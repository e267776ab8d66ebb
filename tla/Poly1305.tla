------------------------------ MODULE Poly1305 ------------------------------
(***************************************************************************)
(* poly1305.c over the digits of bigint.c, one step per bigint_add,        *)
(* bigint_mul and bigint_mod of a block.  A byte of the input is a digit   *)
(* here: four digits are a block of 16 bytes, and three or less the last   *)
(* block; the byte 0x01 behind a block is a digit above it.                *)
(***************************************************************************)
EXTENDS Bigint

CONSTANTS
  PolyKeys,    \* [r, s] of four digits each, as the caller gives them
  FullBlocks,  \* blocks of four digits, least significant first
  Tails,       \* last blocks of one to three digits
  MaxBlocks    \* bound on the full blocks of a message

\* The sum of two numbers below 4 * Base^4 and 2 * Base^4 fits five digits.
ASSUME PolyAssumption ==
  /\ Bits >= 3 /\ MaxBlocks \in Nat
  /\ \A k \in PolyKeys : {k.r, k.s} \subseteq [1 .. 4 -> 0 .. Base - 1]
  /\ FullBlocks \subseteq [1 .. 4 -> 0 .. Base - 1]
  /\ \A t \in Tails : Len(t) \in 1 .. 3 /\ t \in [1 .. Len(t) -> 0 .. Base - 1]

VARIABLES
  mackey,  \* the clamped r and s of poly1305_ctx, as bigints
  acc,     \* the bigint a of poly1305_compute_mac
  fed,     \* the numbers of the blocks so far, least significant digit first
  lost,    \* where an addition dropped its carry: "never", "block", "end"
  tag      \* mac, least significant digit first, when it is computed

polyVars == <<mackey, acc, fed, lost, tag>>

NoTag == <<>>

-----------------------------------------------------------------------------
\* Most significant digit first, as from_bytes reads them.
Reversed(ds) == [i \in 1 .. Len(ds) |-> ds[Len(ds) + 1 - i]]

\* poly1305_clamp: the upper bits of every digit, the lower of all but one.
PolyClamp(ds) ==
  [i \in 1 .. 4 |-> IF i = 1 THEN ds[i] % (Base \div 2)
                    ELSE ((ds[i] % (Base \div 2)) \div 2) * 2]

\* 2^130 - 5
Prime == FromBytes(Fresh(5), <<3, Base - 1, Base - 1, Base - 1, Base - 5>>)

\* poly1305_init, and the start of poly1305_compute_mac: an accumulator of 20
\* zero bytes.  A context may be used again.
PolyInit(key) ==
  /\ fed = <<>> \/ tag # NoTag
  /\ mackey' = [r |-> FromBytes(Fresh(4), Reversed(PolyClamp(key.r))),
                s |-> FromBytes(Fresh(4), Reversed(key.s))]
  /\ acc' = FromBytes(Fresh(5), <<0, 0, 0, 0, 0>>)
  /\ fed' = <<>> /\ lost' = "never" /\ tag' = NoTag

Reduce(product) == Mod(product, Prime, product)
Multiplied(sum) == Reduce(Mul(sum, mackey.r, sum))

\* Mutant: the accumulator is not reduced after a block.
AbsorbUnreduced(n) ==
  /\ acc' = Mul(Add(acc, n, acc), mackey.r, Add(acc, n, acc))
  /\ lost' = IF DropsCarry(acc, n) THEN "block" ELSE lost

\* a = (a + n) * r mod p
AbsorbNumber(n) ==
  /\ acc' = Multiplied(Add(acc, n, acc))
  /\ lost' = IF DropsCarry(acc, n) THEN "block" ELSE lost

\* Nothing follows the last block but the end.
Block(ds) ==
  /\ tag = NoTag /\ \A i \in 1 .. Len(fed) : fed[i][5] = 1
  /\ AbsorbNumber(FromBytes(Fresh(5), Reversed(ds)))
  /\ fed' = Append(fed, ds)
  /\ UNCHANGED <<mackey, tag>>

FullBlock(blk) == Len(fed) < MaxBlocks /\ Block(blk \o <<1>>)

\* final_block is zero behind the 0x01.
LastBlock(tail) ==
  Block([i \in 1 .. 5 |-> IF i <= Len(tail) THEN tail[i]
                          ELSE IF i = Len(tail) + 1 THEN 1 ELSE 0])

\* The lower 128 bits, by the MSD
LowDigits(sum) == [sum EXCEPT !.msd = Min({@, 3})]

PolyFinish ==
  /\ tag = NoTag
  /\ acc' = LowDigits(Add(acc, mackey.s, acc))
  /\ tag' = Reversed(ToBytes(acc', 4))
  /\ lost' = IF lost = "never" /\ DropsCarry(acc, mackey.s) THEN "end" ELSE lost
  /\ UNCHANGED <<mackey, fed>>

\* A context initialised with a key of zeros
PolyStart ==
  /\ mackey = [r |-> FromBytes(Fresh(4), <<0, 0, 0, 0>>),
               s |-> FromBytes(Fresh(4), <<0, 0, 0, 0>>)]
  /\ acc = FromBytes(Fresh(5), <<0, 0, 0, 0, 0>>)
  /\ fed = <<>> /\ lost = "never" /\ tag = NoTag

PolyNext ==
  \/ \E key \in PolyKeys : PolyInit(key)
  \/ \E blk \in FullBlocks : FullBlock(blk)
  \/ \E tail \in Tails : LastBlock(tail)
  \/ PolyFinish

-----------------------------------------------------------------------------
(***************************************************************************)
(* RFC 8439, section 2.5                                                   *)
(***************************************************************************)
Number(ds) == NumberOf([i \in 0 .. Len(ds) - 1 |-> ds[i + 1]], Len(ds))

StdAcc(r, ns) ==
  LET after[n \in 0 .. Len(ns)] ==
        IF n = 0 THEN 0
        ELSE ((after[n - 1] + Number(ns[n])) * r) % (4 * Weight(4) - 5)
  IN  after[Len(ns)]

\* The MAC is the RFC's, from an accumulator of any length, reduced after every
\* block, unless an addition of bigint.c dropped a carry.  In the last addition
\* that takes an accumulator of at most three digits; of at most two, the tag
\* is wrong, and of three, what was dropped is cut off anyway.
TagIsPoly1305 ==
  LET sum == StdAcc(Value(mackey.r), fed) + Value(mackey.s)
      right == Number(tag) = sum % Weight(4)
      short(n) == StdAcc(Value(mackey.r), fed) < Weight(n)
  IN  /\ lost = "never" /\ tag = NoTag => Value(acc) = StdAcc(Value(mackey.r), fed)
      /\ lost = "never" /\ tag # NoTag => right
      /\ lost = "end" => short(3) /\ (right <=> ~ short(2))
      /\ WellFormed(acc)
=============================================================================
