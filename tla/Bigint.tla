------------------------------- MODULE Bigint -------------------------------
(***************************************************************************)
(* bigint.c: multiple precision integers, digit by digit, over digits of   *)
(* `Bits' bits (32 in the code).  Every operator is one function of the    *)
(* file and returns the bigint that its output argument points to          *)
(* afterwards; where the code allows it, the output may be an input.       *)
(* malloc does not fail here.  A digit written behind the allocated ones   *)
(* makes the result ill-formed: its digits then are no longer 0 .. num - 1.*)
(***************************************************************************)
EXTENDS Integers, Sequences, FiniteSetsExt

CONSTANT Bits

ASSUME BitsAssumption == Bits \in Nat \ {0}

Base == 2 ^ Bits

\* bigint: allocated digits, the digits, index of the most significant one.
Bigint(num, digits, msd) == [num |-> num, digits |-> digits, msd |-> msd]

WellFormed(x) ==
  /\ x.msd \in 0 .. x.num - 1
  /\ x.digits \in [0 .. x.num - 1 -> 0 .. Base - 1]

\* What digit i counts, and what the digits of d below n stand for.
Weight(i) == 2 ^ (Bits * i)

NumberOf(d, n) ==
  LET sum[i \in 0 .. n] ==
        IF i = 0 THEN 0 ELSE sum[i - 1] + d[i - 1] * Weight(i - 1)
  IN  sum[n]

\* What a bigint stands for; digits above the MSD are not part of it.
Value(x) == NumberOf(x.digits, x.msd + 1)

\* f, and g where f says nothing.
Over(f, g) ==
  [i \in DOMAIN f \cup DOMAIN g |-> IF i \in DOMAIN f THEN f[i] ELSE g[i]]

-----------------------------------------------------------------------------
(* Storage *)

\* bigint_init
Fresh(num) == Bigint(num, [i \in 0 .. num - 1 |-> 0], 0)

\* Mutant: a bigint one digit short counts as long enough.
ExpandShort(x, num) ==
  IF x.num + 1 >= num
    THEN x
    ELSE Bigint(num, Over(x.digits, Fresh(num).digits), x.msd)

\* bigint_expand
Expand(x, num) ==
  IF x.num >= num
    THEN x
    ELSE Bigint(num, Over(x.digits, Fresh(num).digits), x.msd)

\* Writes the digits of f, then the MSD; digits elsewhere stay what they were.
Store(x, f, msd) == Bigint(x.num, Over(f, x.digits), msd)

\* bigint_set_zero and bigint_from_small_int
SmallInt(x, d) == Store(Fresh(x.num), [i \in {0} |-> d], 0)

\* bigint_copy
Copy(src, dest) ==
  Store(Expand(dest, src.msd + 1), [i \in 0 .. src.msd |-> src.digits[i]],
        src.msd)

\* bigint_clamp
Clamp(x) ==
  [x EXCEPT !.msd = Max({0} \cup {i \in 0 .. x.msd : x.digits[i] # 0})]

\* bigint_left_shift: by one digit, in place.
LeftShift(x) ==
  Store(IF x.num <= x.msd + 1 THEN Expand(x, x.num + 1) ELSE x,
        [i \in 0 .. x.msd + 1 |-> IF i = 0 THEN 0 ELSE x.digits[i - 1]],
        x.msd + 1)

\* bigint_from_bytes, given most significant digit first.
FromBytes(x, ds) ==
  LET shifted[n \in 0 .. Len(ds)] ==   \* after the n-th digit is read
        IF n = 0 THEN SmallInt(x, 0)
        ELSE Store(IF n = 1 THEN shifted[0] ELSE LeftShift(shifted[n - 1]),
                   [i \in {0} |-> ds[n]], n - 1)
  IN  shifted[Len(ds)]

(***************************************************************************)
(* bigint_to_bytes, a digit at a time: most significant first, from the    *)
(* start of the buffer.  ignore_leading_zero changes nothing: the zeros    *)
(* skipped are counted, and count in the index of the bytes after them.    *)
(***************************************************************************)
ToBytes(x, len) ==
  IF x.msd + 1 > len THEN "BIGINT_ERROR_INSUFFICIENT_BUF"
  ELSE [i \in 1 .. len |-> IF i <= x.msd + 1 THEN x.digits[x.msd + 1 - i] ELSE 0]

-----------------------------------------------------------------------------
(* Comparison *)

\* bigint_cmp: the first digit that differs, the shorter operand padded.
Cmp(a, b) ==
  LET digit(x, i) == IF i <= x.msd THEN x.digits[i] ELSE 0
      differ == {i \in 0 .. Max({a.msd, b.msd}) : digit(a, i) # digit(b, i)}
  IN  IF differ = {} THEN 0
      ELSE IF digit(a, Max(differ)) < digit(b, Max(differ)) THEN -1 ELSE 1

\* bigint_cmp_zero
IsZero(x) == \A i \in 0 .. x.msd : x.digits[i] = 0

-----------------------------------------------------------------------------
(* Shifts by bits *)

\* bigint_left_bit_shift and bigint_double
LeftBitShift(a, c) ==
  LET carry(i) == IF i = 0 THEN 0 ELSE a.digits[i - 1] \div (Base \div 2)
      shifted == [i \in 0 .. a.msd |-> (2 * a.digits[i] + carry(i)) % Base]
      room == Expand(c, a.msd + 2)
  IN  IF carry(a.msd + 1) = 0
        THEN Store(room, shifted, a.msd)
        ELSE Store(room, Over(shifted, [i \in {a.msd + 1} |-> 1]), a.msd + 1)

\* bigint_right_bit_shift and bigint_halve: a zero MSD may remain.
RightBitShift(a, c) ==
  LET lsb(i) == IF i = a.msd THEN 0 ELSE a.digits[i + 1] % 2
  IN  Store(Expand(c, a.msd + 1),
            [i \in 0 .. a.msd |-> a.digits[i] \div 2 + lsb(i) * (Base \div 2)],
            a.msd)

\* bigint_left_shift_digits
LeftShiftDigits(x, b) ==
  LET moved[n \in 0 .. b] ==
        IF n = 0 THEN Expand(x, x.msd + 1 + b) ELSE LeftShift(moved[n - 1])
  IN  moved[b]

\* bigint_left_shift_bits, by fewer than `Bits' bits
LeftShiftBits(x, b) ==
  LET carry(i) == IF i = 0 THEN 0 ELSE x.digits[i - 1] \div 2 ^ (Bits - b)
      shifted == [i \in 0 .. x.msd |->
                    (x.digits[i] * 2 ^ b + carry(i)) % Base]
      room == Expand(x, x.msd + 2)
      top == carry(x.msd + 1)
  IN  IF top = 0
        THEN Store(room, shifted, x.msd)
        ELSE Store(room, Over(shifted, [i \in {x.msd + 1} |-> top]), x.msd + 1)

\* bigint_mul_pow_2 of a bigint into itself; a shift by nothing is skipped.
MulPow2(x, b) ==
  LET room == Expand(x, x.msd + 2 + b \div Bits)
      moved == LeftShiftDigits(room, b \div Bits)
  IN  Clamp(IF b % Bits = 0 THEN moved ELSE LeftShiftBits(moved, b % Bits))

-----------------------------------------------------------------------------
(* Addition and subtraction *)

\* The carry out of the digits that both operands have.
CarryOut(a, b) ==
  LET carry[i \in 0 .. Min({a.msd, b.msd}) + 1] ==
        IF i = 0 THEN 0
        ELSE (a.digits[i - 1] + b.digits[i - 1] + carry[i - 1]) \div Base
  IN  carry

\* Mutant: the carry is not added to the digits of the longer operand.
PlusUncarried(longer, a, b, min, carry, c) ==
  LET sum == [i \in 0 .. longer.msd |->
                IF i <= min THEN (a.digits[i] + b.digits[i] + carry[i]) % Base
                            ELSE longer.digits[i]]
  IN  IF longer.msd = min /\ carry[min + 1] = 1
        THEN Store(c, Over(sum, [i \in {min + 1} |-> 1]), min + 1)
        ELSE Store(c, sum, longer.msd)

(***************************************************************************)
(* bigint_add.  Above the shorter operand the sum of digit and carry is    *)
(* taken in the digit's own width: the carry goes one digit up at most.    *)
(***************************************************************************)
Plus(longer, a, b, min, carry, c) ==
  LET kept(i) == IF i = min + 1 THEN carry[i] ELSE 0
      sum == [i \in 0 .. longer.msd |->
                IF i <= min THEN (a.digits[i] + b.digits[i] + carry[i]) % Base
                            ELSE (longer.digits[i] + kept(i)) % Base]
  IN  IF longer.msd = min /\ carry[min + 1] = 1
        THEN Store(c, Over(sum, [i \in {min + 1} |-> 1]), min + 1)
        ELSE Store(c, sum, longer.msd)

Add(a, b, c) ==
  Plus(IF a.msd > b.msd THEN a ELSE b, a, b, Min({a.msd, b.msd}), CarryOut(a, b),
       Expand(c, Max({a.msd, b.msd}) + 2))

\* A carry that leaves the shorter operand and the next digit, too.
DropsCarry(a, b) ==
  LET longer == IF a.msd > b.msd THEN a ELSE b
      min == Min({a.msd, b.msd})
  IN  /\ longer.msd > min
      /\ CarryOut(a, b)[min + 1] = 1
      /\ longer.digits[min + 1] = Base - 1

\* The borrow out of the digits below i, of x less y.
Borrow(x, y, top) ==
  LET borrow[i \in 0 .. top + 1] ==
        IF i = 0 THEN 0
        ELSE IF x.digits[i - 1] - y.digits[i - 1] - borrow[i - 1] < 0 THEN 1
        ELSE 0
  IN  borrow

(***************************************************************************)
(* bigint_sub.  a counts as the bigger operand whenever a # b.  Both are   *)
(* copied to zeroed bigints of their own.  Above the MSD of the smaller    *)
(* one, digit less borrow is taken in the digit's own width, so that the   *)
(* borrow goes one digit up at most; a borrow out of the last digit is     *)
(* taken from whatever stands behind it.                                   *)
(***************************************************************************)
Minus(x, y, borrow, top, c) ==   \* x less y, with the borrows out of y's digits
  LET min == y.msd
      kept(i) == IF i = min + 1 THEN borrow[i] ELSE 0
      diff == [i \in 0 .. top |->
                 IF i <= min THEN (x.digits[i] - y.digits[i] - borrow[i]) % Base
                             ELSE (x.digits[i] - kept(i)) % Base]
      behind == IF top + 1 < c.num THEN c.digits[top + 1] ELSE 0
  IN  Clamp(Store(c, IF top = min /\ borrow[top + 1] = 1
                       THEN Over(diff, [i \in {top + 1} |-> (behind - 1) % Base])
                       ELSE diff, top))

Copies(x, y, c) ==
  Minus(x, y, Borrow(x, y, y.msd), Max({x.msd, y.msd}), Expand(c, x.msd + 1))

Sub(a, b, c) ==
  IF Cmp(a, b) # 0
    THEN Copies(Copy(a, Fresh(a.num)), Copy(b, Fresh(b.num)), c)
    ELSE Copies(Copy(b, Fresh(b.num)), Copy(a, Fresh(a.num)), c)

\* A borrow from a zero digit above the MSD of the smaller operand.
DropsBorrow(a, b) ==
  /\ a.msd > b.msd
  /\ Borrow(a, b, b.msd)[b.msd + 1] = 1
  /\ a.digits[b.msd + 1] = 0

-----------------------------------------------------------------------------
(* Multiplication and division *)

(***************************************************************************)
(* bigint_mul: the schoolbook method, in a bigint of its own, one digit    *)
(* product after the other; `row' is the state after the n-th.             *)
(***************************************************************************)
MulRows(a, b, num) ==
  LET nb == b.msd + 1
      row[n \in 0 .. (a.msd + 1) * nb] ==
        IF n = 0 THEN [res |-> Fresh(num).digits, carry |-> 0]
        ELSE LET i == (n - 1) \div nb
                 j == (n - 1) % nb
                 prev == row[n - 1]
                 t == a.digits[i] * b.digits[j] + prev.res[i + j]
                        + (IF j = 0 THEN 0 ELSE prev.carry)
                 res == [prev.res EXCEPT ![i + j] = t % Base]
             IN  [res |-> IF j = nb - 1
                            THEN [res EXCEPT ![i + nb] = t \div Base] ELSE res,
                  carry |-> t \div Base]
  IN  row[(a.msd + 1) * nb].res

Mul(a, b, c) ==
  LET product(room) ==
        Copy(Clamp(Bigint(room.num, MulRows(a, b, room.num), a.msd + b.msd + 1)), room)
  IN  product(Expand(c, a.msd + b.msd + 2))

\* One bit of the dividend shifted into current.
ShiftIn(current, bit) ==
  [LeftBitShift(current, current) EXCEPT !.digits[0] = @ - (@ % 2) + bit]

\* bigint_sub into tmp_sub and a copy of it, unless current is below mod.
Reduced(s, mod) ==
  LET below == Cmp(s.current, mod) = -1
      difference == Sub(s.current, mod, s.tmp_sub)
  IN  [s EXCEPT !.current = IF below THEN @ ELSE Copy(difference, @),
                !.tmp_sub = IF below THEN @ ELSE difference]

(***************************************************************************)
(* bigint_mod: shift and subtract, one bit of a after the other, from the  *)
(* most significant one; `after' is the state of current and tmp_sub after *)
(* the n-th.                                                               *)
(***************************************************************************)
Mod(a, mod, r) ==
  LET bits == (a.msd + 1) * Bits
      bit(n) == (a.digits[(bits - n) \div Bits]
                   \div 2 ^ ((bits - n) % Bits)) % 2
      after[n \in 0 .. bits] ==
        IF n = 0 THEN [current |-> Fresh(mod.msd + 2), tmp_sub |-> Fresh(mod.msd + 2)]
        ELSE Reduced([after[n - 1] EXCEPT !.current = ShiftIn(@, bit(n))], mod)
  IN  Copy(after[bits].current, r)
=============================================================================
