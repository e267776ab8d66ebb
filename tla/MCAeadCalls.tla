---------------------------- MODULE MCAeadCalls ----------------------------
(***************************************************************************)
(* An instance of AeadCalls for TLC: MAC blocks of two bytes, and texts on *)
(* both sides of one and two blocks, among them pairs that differ only in  *)
(* trailing zeros and pairs whose concatenations agree.                    *)
(***************************************************************************)
EXTENDS AeadCalls

MCTexts == {<<>>, <<0>>, <<1, 0>>, <<1, 0, 1>>}

\* Key streams under two nonces.
MCStream == [kn \in Keys \X Nonces |->
               [i \in 1 .. 4 |-> IF kn[2] = "n1" THEN i % 2 ELSE (i \div 2) % 2]]
=============================================================================
