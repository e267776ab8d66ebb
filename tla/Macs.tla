-------------------------------- MODULE Macs --------------------------------
(***************************************************************************)
(* The authentication codes of the library, one of them at work: a caller  *)
(* picks HMAC or Poly1305, or AES-GCM its GHASH, and the others do not     *)
(* move.                                                                   *)
(***************************************************************************)
EXTENDS Hmac, Poly1305, Ghash

VARIABLE family

vars == <<family, hmacVars, polyVars, ghashVars>>

Init ==
  /\ HmacStart /\ PolyStart /\ GhashStart
  /\ \/ family = "HMAC"
     \/ family \in {"Poly1305", "GHASH"} /\ ctx = [i \in Offsets |-> 0]

RunHmac == family = "HMAC" /\ HmacNext /\ UNCHANGED <<family, polyVars, ghashVars>>
RunPoly == family = "Poly1305" /\ PolyNext /\ UNCHANGED <<family, hmacVars, ghashVars>>
RunGhash == family = "GHASH" /\ GhashNext /\ UNCHANGED <<family, hmacVars, polyVars>>

Next == RunHmac \/ RunPoly \/ RunGhash

Spec == Init /\ [][Next]_vars
=============================================================================
