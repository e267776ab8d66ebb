----------------------------- MODULE Primitives -----------------------------
(***************************************************************************)
(* The fixed functions of the library at work, one at a time: a block      *)
(* through AES, DES or 3DES and back, or a call of a hash or of ChaCha20.  *)
(* What does not run does not move.                                        *)
(***************************************************************************)
EXTENDS AesBlock, DesBlock, HostCalls

CONSTANTS
  AesVectors,  \* [job, cipher]: what cipher_test.c expects of a block
  DesVectors

VARIABLE family

vars == <<family, aesVars, desVars, hostVars>>

\* What stands still, somewhere.
AnyAes == job = (CHOOSE a \in AesJobs : TRUE)
AnyDes == task = (CHOOSE t \in DesJobs : TRUE) /\ layout = "apart"
AnyHost == request = (CHOOSE r \in Requests : TRUE) /\ host = "little"

Init ==
  /\ AesInit /\ DesInit /\ HostInit
  /\ \/ family = "AES" /\ AnyDes /\ AnyHost
     \/ family = "DES" /\ AnyAes /\ AnyHost
     \/ family = "host" /\ AnyAes /\ AnyDes

RunAes == family = "AES" /\ AesNext /\ UNCHANGED <<family, desVars, hostVars>>
RunDes == family = "DES" /\ DesNext /\ UNCHANGED <<family, aesVars, hostVars>>
RunHost == family = "host" /\ HostNext /\ UNCHANGED <<family, aesVars, desVars>>

Next == RunAes \/ RunDes \/ RunHost

Spec == Init /\ [][Next]_vars

\* The blocks that cipher_test.c compares: AES with its three key lengths, DES
\* and 3DES, from key expansion to the last round, under every stack layout.
MeetsTestVectors ==
  /\ \A v \in AesVectors :
       (family = "AES" /\ receiving /\ job = v.job) => cipher = v.cipher
  /\ \A v \in DesVectors :
       (family = "DES" /\ phase = "done" /\ task = v.job) =>
         ciphertext = v.cipher
=============================================================================
