------------------------------- MODULE MCMacs -------------------------------
(***************************************************************************)
(* HMAC with blocks of 16 and 32 bytes.  Keys: none, which zero padding    *)
(* makes equal to a zero byte; a full short block, and one byte more; one  *)
(* byte more than padded_key.  Each text has an odd tail in one block size *)
(* and not in the other.                                                   *)
(*                                                                         *)
(* Poly1305 with digits of three bits: one key multiplies by 2^4 = 2^14 /  *)
(* 2^10, so that small blocks leave short accumulators.                    *)
(*                                                                         *)
(* GHASH in GF(2^16), x^16 = x^5 + x^3 + x^2 + 1, with bytes of four bits: *)
(* texts of nothing, part of a block, a block, and more than that.         *)
(***************************************************************************)
EXTENDS Macs

Ones(n) == [i \in 1 .. n |-> 1]

MCKeys == {<<>>, <<0>>, Ones(16), Ones(17), Ones(33)}
MCTexts == {Ones(7), Ones(18)}
MCDigestLen == [alg \in Algs |->
  CASE alg = "SHA256" -> 6 [] alg = "SHA384" -> 12 [] alg = "SHA512" -> 15]

MCPolyKeys ==
  [r : {<<7, 7, 7, 7>>, <<0, 2, 0, 0>>, <<1, 0, 0, 0>>, <<0, 0, 0, 0>>},
   s : {<<7, 7, 7, 7>>, <<1, 2, 3, 4>>}]
MCFullBlocks == {<<0, 0, 0, 0>>, <<1, 0, 0, 0>>, <<7, 7, 7, 7>>, <<5, 7, 0, 2>>}
MCTails == {<<0>>, <<7, 7>>, <<5, 7, 7>>}

Bits16(ones) == [i \in 0 .. 15 |-> IF i \in ones THEN 1 ELSE 0]

MCHashKeys == {Bits16({}), Bits16({0}), Bits16({15}), Bits16({0, 3, 4, 9, 15}), Bits16(0 .. 15)}
MCAadTexts == {<<>>, <<0>>, <<9, 3>>, <<1, 2, 4, 8>>, <<15, 0, 0, 7, 0>>}
MCCipherTexts == {<<>>, <<0>>, <<8, 0, 1>>, <<7, 14, 2, 5>>, <<0, 0, 0, 0, 6, 1, 13, 0>>}
=============================================================================
