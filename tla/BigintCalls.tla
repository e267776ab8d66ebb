---------------------------- MODULE BigintCalls ----------------------------
(***************************************************************************)
(* Programs that compute with two bigints, calling bigint.c in any order:  *)
(* results go over an operand or into a new bigint that replaces one.      *)
(* A program makes any number of the usual calls on small numbers, or one  *)
(* call of any function on operands of any shape: longer numbers, leading  *)
(* zeros, old digits above the MSD.  Beside the digits, the state holds    *)
(* what bigint.h promises of the bigints the last call wrote.              *)
(***************************************************************************)
EXTENDS BigintMath

CONSTANTS
  Regs,        \* the program's bigints
  MaxDigits,   \* bound on the digits allocated for a bigint
  MaxMsds,     \* bound on the sum of the MSDs of all bigints
  MaxLoad,     \* bound on the digits read by from_bytes
  MaxPower,    \* bound on the exponents of powers of two, and on shifts
  Operands     \* the operands of single calls

ASSUME CallsAssumption ==
  /\ MaxDigits \in Nat \ {0} /\ MaxLoad \in 0 .. MaxDigits /\ MaxPower \in Nat
  /\ \A x \in Operands : WellFormed(x)

VARIABLES
  reg,       \* [Regs -> bigint]
  promised,  \* [Regs -> what the header says the last call left there]
  excuse,    \* whether the last call is one of those that go wrong
  calls      \* the calls the program makes: "any", "one", or "done"

vars == <<reg, promised, excuse, calls>>

Nothing == -1
Val(r) == Value(reg[r])

-----------------------------------------------------------------------------
\* Where a result goes: over the bigint c, or into a new one.
Outputs(c) == {reg[c], Fresh(1)}

Bounded(regs) ==
  /\ \A r \in Regs : regs[r].num <= MaxDigits
  /\ MapThenSumSet(LAMBDA r : regs[r].msd, Regs) <= MaxMsds

Results(c, x, value) ==
  /\ reg' = [reg EXCEPT ![c] = x]
  /\ promised' = [r \in Regs |-> IF r = c THEN value ELSE Nothing]
  /\ calls = "any" => Bounded(reg')

\* A call that goes wrong when `off' holds.
WritesUnless(off, c, x, value) ==
  /\ Results(c, x, value)
  /\ excuse' = IF off THEN "wrong" ELSE "none"

Writes(c, x, value) == WritesUnless(FALSE, c, x, value)

\* A call that may go wrong when `off' holds.
WritesPerhaps(off, c, x, value) ==
  /\ Results(c, x, value)
  /\ excuse' = IF off THEN "any" ELSE "none"

Distance(n, m) == IF n >= m THEN n - m ELSE m - n

-----------------------------------------------------------------------------
(* The usual calls *)

Load(c) ==
  \E n \in 0 .. MaxLoad : \E ds \in [1 .. n -> 0 .. Base - 1] :
    LET x == FromBytes(reg[c], ds)
    IN  Writes(c, x, Value(x))

Assign(a, c) == \E out \in Outputs(c) : Writes(c, Copy(reg[a], out), Val(a))

AddTo(a, b, c) ==
  \E out \in Outputs(c) :
    WritesUnless(DropsCarry(reg[a], reg[b]),
                 c, Add(reg[a], reg[b], out), Val(a) + Val(b))

\* As the library's own functions call it on what they are given: a >= b, and
\* a with at least the digits of b.
SubTo(a, b, c) ==
  /\ Val(a) >= Val(b) /\ reg[a].msd >= reg[b].msd
  /\ Val(a) = Val(b) => reg[a].msd = reg[b].msd
  /\ \E out \in Outputs(c) :
       WritesUnless(DropsBorrow(reg[a], reg[b]),
                    c, Sub(reg[a], reg[b], out), Val(a) - Val(b))

MulTo(a, b, c) ==
  \E out \in Outputs(c) : Writes(c, Mul(reg[a], reg[b], out), Val(a) * Val(b))

ModTo(a, m, c) ==
  /\ Val(m) # 0
  /\ Writes(c, Mod(reg[a], reg[m], reg[c]), Val(a) % Val(m))

\* Quotient and remainder into new bigints, which then replace q and r, or, as
\* a single call, one of them over the dividend: a quotient over a clears a
\* before it is read.  Never over the divisor, the dividend that is divided by
\* itself included: cleared, or equal to the remainder and subtracted with it,
\* it is 0 in a loop that then doubles 0 for ever.
DivTo(a, b, q, r) ==
  /\ Val(b) # 0 /\ q # r
  /\ \E overA \in IF calls = "any" \/ a = b THEN {{}}
                 ELSE {{}, {q} \cap {a}, {r} \cap {a}} :
       LET out(x) == IF x \in overA THEN reg[x] ELSE Fresh(1)
           res == Div(IF q \in overA THEN SmallInt(reg[a], 0) ELSE reg[a],
                      reg[b], out(q), out(r))
       IN  /\ reg' = [reg EXCEPT ![q] = res.q, ![r] = res.r]
           /\ calls = "any" => Bounded(reg')
           /\ promised' = [x \in Regs |-> IF x = q THEN Val(a) \div Val(b)
                                          ELSE IF x = r THEN Val(a) % Val(b)
                                          ELSE Nothing]
           /\ excuse' = IF q \in overA /\ Val(a) # 0 THEN "wrong" ELSE "none"

\* The divisors common to two numbers, 0 taken as a multiple of all.
Divisors(n, m) ==
  {d \in 1 .. Max({n, m}) : n % d = 0 /\ m % d = 0}

GcdTo(a, b, c) ==
  /\ Val(a) # 0 \/ Val(b) # 0
  /\ Writes(c, Gcd(reg[a], reg[b], reg[c]), Max(Divisors(Val(a), Val(b))))

Double(a, c) ==
  \E out \in Outputs(c) : Writes(c, LeftBitShift(reg[a], out), 2 * Val(a))

Halve(a, c) ==
  \E out \in Outputs(c) : Writes(c, RightBitShift(reg[a], out), Val(a) \div 2)

ShiftUp(c) == Writes(c, LeftShift(reg[c]), Val(c) * Base)

Scale(c) ==
  \E b \in 0 .. MaxPower : Writes(c, MulPow2(reg[c], b), Val(c) * 2 ^ b)

Trim(c) == Writes(c, Clamp(reg[c]), Val(c))

Usual ==
  \/ \E c \in Regs : Load(c) \/ ShiftUp(c) \/ Scale(c) \/ Trim(c)
  \/ \E a, c \in Regs : Assign(a, c) \/ Double(a, c) \/ Halve(a, c)
  \/ \E a, b, c \in Regs :
       AddTo(a, b, c) \/ SubTo(a, b, c) \/ MulTo(a, b, c)
         \/ ModTo(a, b, c) \/ GcdTo(a, b, c)
  \/ \E a, b, q, r \in Regs : DivTo(a, b, q, r)

-----------------------------------------------------------------------------
(* Calls a program makes once *)

\* bigint_sub of any two bigints whose digits can be read: of the smaller less
\* the bigger, or of the bigger that has less digits, it promises nothing.
SubAnyOrder(a, b, c) ==
  /\ IF Val(a) = Val(b) THEN reg[b].num > reg[a].msd ELSE reg[a].num > reg[b].msd
  /\ \E out \in Outputs(c) :
       WritesPerhaps(\/ Val(a) < Val(b) \/ reg[a].msd < reg[b].msd
                     \/ Val(a) = Val(b) /\ reg[a].msd # reg[b].msd
                     \/ DropsBorrow(reg[a], reg[b]),
                     c, Sub(reg[a], reg[b], out), Distance(Val(a), Val(b)))

\* bigint_add_digit, bigint_sub_digit, bigint_mul_digit, of which the last is
\* an error for 0, and bigint_div_digit_helper
DigitTo(a, d, c) ==
  \E out \in Outputs(c) :
    \/ WritesUnless(DropsCarry(reg[a], OneDigit(d)),
                    c, Add(reg[a], OneDigit(d), out), Val(a) + d)
    \/ /\ Val(a) > d
       /\ WritesUnless(DropsBorrow(reg[a], OneDigit(d)),
                       c, Sub(reg[a], OneDigit(d), out), Val(a) - d)
    \/ IF d = 0 THEN Writes(c, out, Value(out))
                ELSE Writes(c, Mul(reg[a], OneDigit(d), out), Val(a) * d)
    \/ d # 0 /\ Writes(c, DivDigit(reg[a], d, Fresh(1)).q, Val(a) \div d)

\* Shifts drop all but the lowest digit when they took more digits than are
\* left, plus one.
CutsShort(x, b) ==
  /\ b <= x.msd /\ b > x.msd - b + 1
  /\ \E i \in b + 1 .. x.msd : x.digits[i] # 0

ShiftDown(c) ==
  \/ WritesUnless(reg[c].msd = 0, c, RightShift(reg[c]), Val(c) \div Base)
  \/ \E b \in 0 .. Bits - 1 :
       Writes(c, RightShiftBits(reg[c], b), Val(c) \div 2 ^ b)
  \/ \E b \in 0 .. MaxPower :
       WritesUnless(CutsShort(reg[c], b),
                    c, RightShiftDigits(reg[c], b), Val(c) \div Base ^ b)

\* bigint_div_base and bigint_div_base_b, bigint_mul_base and bigint_mul_base_b,
\* which copy and shift
ShiftTo(a, b, c) ==
  \E out \in Outputs(c) :
    LET x == Copy(reg[a], out) IN
    \/ WritesUnless(x.msd = 0, c, RightShift(x), Val(a) \div Base)
    \/ WritesUnless(CutsShort(x, b), c, RightShiftDigits(x, b), Val(a) \div Base ^ b)
    \/ Writes(c, LeftShift(x), Val(a) * Base)
    \/ Writes(c, LeftShiftDigits(x, b), Val(a) * Base ^ b)

Pow2To(a, b, c) ==
  \E out \in Outputs(c) :
    \/ WritesUnless(CutsShort(reg[a], b \div Bits),
                    c, DivPow2(reg[a], b, out), Val(a) \div 2 ^ b)
    \/ Writes(c, ModPow2(reg[a], b, out), Val(a) % 2 ^ b)

\* One is added to every digit.
Increment(c) == WritesUnless(reg[c].msd # 0, c, Inc(reg[c]), Val(c) + 1)

Pad(n, c) == Writes(c, PadZero(reg[c], n), Val(c))

\* To read a number the other way round.
Reverse(c) ==
  Writes(c, ReverseDigit(reg[c]),
         MapThenSumSet(LAMBDA i : reg[c].digits[i] * Base ^ (reg[c].msd - i),
                       0 .. reg[c].msd))

\* Nothing is exchanged.
SwapWith(a, b) ==
  /\ reg' = [reg EXCEPT ![a] = Swap(reg[a], reg[b]).a, ![b] = Swap(reg[a], reg[b]).b]
  /\ promised' = [r \in Regs |-> IF r = a THEN Val(b) ELSE IF r = b THEN Val(a) ELSE Nothing]
  /\ excuse' = IF Val(a) # Val(b) THEN "wrong" ELSE "none"

\* Of more than one random digit, only the last remains.
Draw(c) ==
  \E n \in 1 .. MaxLoad : \E ds \in [1 .. n -> 0 .. Base - 1] :
    /\ ds[1] # 0
    /\ WritesUnless(n > 1, c, Random(reg[c], ds),
                    MapThenSumSet(LAMBDA i : ds[i] * Base ^ (n - i), 1 .. n))

\* No single digits, for either.
KaratsubaTo(a, b, c) ==
  \E out \in Outputs(c) :
    WritesPerhaps(Half(reg[a], reg[b]) = 0 \/ KaratsubaDrops(reg[a], reg[b]),
                  c, MulKaratsuba(reg[a], reg[b], out), Val(a) * Val(b))

\* Over an operand, the gcd is that of the product and the other operand, so
\* that the operand itself is the result: wrong unless the other one divides it.
LcmTo(a, b, c) ==
  /\ Val(a) # 0 \/ Val(b) # 0
  /\ LET lcm == (Val(a) * Val(b)) \div Max(Divisors(Val(a), Val(b)))
         over == {name \in {"a", "b"} : c = (IF name = "a" THEN a ELSE b)}
         kept == CASE over = {} -> lcm
                   [] over = {"a"} -> Val(a)
                   [] over = {"b"} -> Val(b)
                   [] OTHER -> 1
         perhaps == Half(reg[a], reg[b]) = 0 \/ KaratsubaDrops(reg[a], reg[b])
     IN  \/ WritesPerhaps(perhaps, c, Lcm(reg[a], reg[b], Fresh(1), {}), lcm)
         \/ LET res == Lcm(reg[a], reg[b], reg[c], over)
            IN  IF perhaps THEN WritesPerhaps(TRUE, c, res, lcm)
                ELSE WritesUnless(lcm # 0 /\ kept # lcm, c, res, lcm)

MulModTo(a, b, m, c) ==
  /\ Val(m) # 0
  /\ Writes(c, MulMod(reg[a], reg[b], reg[m], reg[c]), (Val(a) * Val(b)) % Val(m))

\* The square over the modulus is taken modulo itself.
SquareModTo(a, m, c) ==
  /\ Val(m) # 0
  /\ LET value == (Val(a) * Val(a)) % Val(m)
     IN  \/ WritesUnless(c = m /\ value # 0,
                        c, SquareMod(reg[a], reg[m], reg[c], c = m), value)
         \/ Writes(c, SquareMod(reg[a], reg[m], Fresh(1), FALSE), value)

\* Into a new bigint: r is written before base, exp and mod are read.
ExptModTo(a, e, m, c) ==
  /\ Val(m) # 0
  /\ LET power[n \in 0 .. Val(e)] ==
           IF n = 0 THEN 1 % Val(m)
           ELSE LET half == power[n \div 2]
                IN  (half * half * (IF n % 2 = 1 THEN Val(a) ELSE 1)) % Val(m)
     IN  Writes(c, ExptMod(reg[a], reg[e], reg[m], Fresh(1)), power[Val(e)])

\* Carries and borrows are dropped here, too; and modulo 1, the inverse of 0
\* and 1 is not reduced.  Without an inverse there is an error, and c is what
\* it was.
InverseModTo(a, m, c) ==
  /\ Val(m) # 0
  /\ \E out \in Outputs(c) :
       WritesPerhaps(InverseDrops(reg[a], reg[m]) \/ (Val(m) = 1 /\ Val(a) <= 1),
                     c, InverseMod(reg[a], reg[m], out),
                     IF Max(Divisors(Val(a), Val(m))) # 1 THEN Value(out)
                     ELSE CHOOSE n \in 0 .. Val(m) - 1 :
                            (n * Val(a)) % Val(m) = 1 % Val(m))

\* Leading zeros of the smaller operand reach behind the result.
LogicTo(a, b, c) ==
  \E out \in Outputs(c), junk \in {0, Base - 1} :
    LET bigger == IF Val(a) < Val(b) THEN reg[b] ELSE reg[a]
        off == Max({reg[a].msd, reg[b].msd}) >= Max({out.num, bigger.num})
    IN  \/ WritesUnless(off, c, AndOf(reg[a], reg[b], out, junk), Val(a) & Val(b))
        \/ WritesUnless(off, c, OrOf(reg[a], reg[b], out, junk), Val(a) | Val(b))
        \/ WritesUnless(off, c, XorOf(reg[a], reg[b], out, junk), Val(a) ^^ Val(b))

\* The digit above those written is taken into the result.
NotTo(a, c) ==
  \E out \in Outputs(c) :
    WritesUnless(\/ out.num <= reg[a].msd + 1
                 \/ out.digits[reg[a].msd + 1] # 0,
                 c, Complement(reg[a], out), Base ^ (reg[a].msd + 1) - 1 - Val(a))

Unusual ==
  \/ \E c \in Regs : ShiftDown(c) \/ Increment(c) \/ Reverse(c) \/ Draw(c)
  \/ \E n \in 0 .. MaxDigits, c \in Regs : Pad(n, c)
  \/ \E a, c \in Regs : NotTo(a, c) \/ SwapWith(a, c)
  \/ \E a, c \in Regs, d \in 0 .. Base - 1 : DigitTo(a, d, c)
  \/ \E a, c \in Regs, b \in 0 .. MaxPower : ShiftTo(a, b, c)
  \/ \E a, c \in Regs, b \in 0 .. MaxPower * Bits : Pow2To(a, b, c)
  \/ \E a, b, c \in Regs :
       SubAnyOrder(a, b, c) \/ KaratsubaTo(a, b, c) \/ LcmTo(a, b, c)
         \/ SquareModTo(a, b, c) \/ InverseModTo(a, b, c) \/ LogicTo(a, b, c)
  \/ \E a, b, m, c \in Regs : MulModTo(a, b, m, c) \/ ExptModTo(a, b, m, c)

-----------------------------------------------------------------------------
\* bigint_free, and a new start
Restart ==
  /\ reg' = [r \in Regs |-> Fresh(1)]
  /\ promised' = [r \in Regs |-> 0]
  /\ excuse' = "none"
  /\ calls' = "any"

Init ==
  /\ \/ calls = "any" /\ reg \in [Regs -> {Fresh(n) : n \in 1 .. MaxDigits}]
     \/ calls = "one" /\ reg \in [Regs -> Operands]
  /\ promised = [r \in Regs |-> Nothing]
  /\ excuse = "none"

Next ==
  \/ calls = "any" /\ Usual /\ UNCHANGED calls
  \/ calls = "one" /\ (Usual \/ Unusual) /\ calls' = "done"
  \/ calls = "done" /\ Restart

Spec == Init /\ [][Next]_vars

-----------------------------------------------------------------------------
(***************************************************************************)
(* Properties                                                              *)
(***************************************************************************)

\* No function writes a digit behind those it allocated or leaves an MSD
\* that is not one of them, whatever was computed before; except the calls
\* that are excused from their promise.
TypeOK ==
  /\ excuse \in {"none", "wrong", "any"}
  /\ excuse = "none" => \A r \in Regs : WellFormed(reg[r])
  /\ promised \in [Regs -> Nat \cup {Nothing}]
  /\ calls \in {"any", "one", "done"}

\* Each function computes what bigint.h says, whatever lies above the MSDs,
\* with leading zeros and with results over operands, and goes wrong in the
\* cases named with its action: bigint_add and bigint_sub exactly when a
\* carry or borrow would have to pass the second digit above the shorter
\* operand, which division, reduction, gcd and powers, that are built on them,
\* never meet, and inverses and Karatsuba's method do; bigint_inc, bigint_not,
\* bigint_random and the shifts to the right at their boundaries; the bitwise
\* functions on leading zeros; bigint_div with the quotient over the dividend,
\* bigint_square_mod and bigint_lcm over what they are still to read.  Calls of
\* bigint_div with a result over the divisor never return: DivTo has none.
KeepsPromise ==
  LET kept == \A r \in Regs : promised[r] # Nothing =>
                 WellFormed(reg[r]) /\ Val(r) = promised[r]
  IN  (excuse = "none" => kept) /\ (excuse = "wrong" => ~ kept)

\* The functions that ask about a bigint answer for its value, whatever its
\* shape: the two comparisons agree with <, the one that is not constant-time
\* as long as it reads digits that are there; a bit counts down from the MSD
\* even when that is zero; a bit can be asked for above the MSD only where the
\* old digits are gone; and bytes are written from the left of the buffer, so
\* that they stand for the value only when they fill it.
QueriesAnswer ==
  LET Sign(n, m) == IF n < m THEN -1 ELSE IF n > m THEN 1 ELSE 0
      Length(n) == IF n = 0 THEN 0 ELSE CHOOSE k \in 1 .. n : 2 ^ (k - 1) <= n /\ n < 2 ^ k
      sound == {r \in Regs : WellFormed(reg[r])}
  IN  \A r \in sound :
        LET x == reg[r]
            bytes == ToBytes(x, x.msd + 2)
        IN  /\ IsZero(x) <=> Val(r) = 0
            /\ BitsCount(x) = Max({Length(Val(r)), x.msd * Bits})
            /\ (\A n \in 0 .. x.num * Bits - 1 : BitAt(x, n) = (Val(r) \div 2 ^ n) % 2)
                 <=> \A i \in x.msd + 1 .. x.num - 1 : x.digits[i] = 0
            /\ Val(r) * Base = MapThenSumSet(LAMBDA i : bytes[i] * Base ^ (x.msd + 2 - i),
                                             1 .. x.msd + 2)
            /\ \A s \in sound :
                 /\ Cmp(x, reg[s]) = Sign(Val(r), Val(s))
                 /\ x.msd < reg[s].num => CmpNoCT(x, reg[s], 0) = Cmp(x, reg[s])
=============================================================================
