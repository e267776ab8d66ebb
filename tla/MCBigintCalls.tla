--------------------------- MODULE MCBigintCalls ---------------------------
(***************************************************************************)
(* The two bigints of BigintCalls as model values that may be exchanged:   *)
(* no action and no property tells them apart.  The operands of single     *)
(* calls have one and two digits of any value, leading zeros and old       *)
(* digits among them, and three to five digits of the values at which      *)
(* carries and borrows begin.                                              *)
(***************************************************************************)
EXTENDS BigintCalls

CONSTANTS left, right

TwoRegs == {left, right}
Symmetry == Permutations(TwoRegs)

\* num digits, `above' those given.
Number(ds, num, above) ==
  Bigint(num, [i \in 0 .. num - 1 |-> IF i < Len(ds) THEN ds[i + 1] ELSE above],
         Len(ds) - 1)

Digits(n, ds) == [1 .. n -> ds]

MCOperands ==
  {Number(ds, 1, 0) : ds \in Digits(1, 0 .. 3)}
    \cup {Number(ds, 2, 3) : ds \in Digits(1, {0, 1, 3}) \cup Digits(2, {0, 1, 3})}
    \cup {Number(ds, 3, 0) : ds \in Digits(3, {0, 3}) \cup {<<1, 0, 1>>, <<2, 1, 3>>}}
    \cup {Number(ds, 5, 2) : ds \in {<<3, 3, 0, 3>>, <<0, 3, 3, 0>>, <<2, 0, 0, 1>>, <<3, 3, 3, 3>>}}
    \cup {Number(ds, 5, 0) : ds \in {<<0, 0, 0, 0, 1>>, <<3, 0, 1, 2, 1>>, <<3, 3, 3, 3, 3>>}}
=============================================================================
