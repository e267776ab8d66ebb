---------------------------- MODULE MCStreamHash ----------------------------
(***************************************************************************)
(* Instances of StreamHash for TLC.  The one-shot instance has the real    *)
(* 64-byte block (half the real one of sha512.c); the chunked ones scale   *)
(* the block to 18 bytes, so that messages can be cut in every way.        *)
(***************************************************************************)
EXTENDS StreamHash

\* Lengths around every boundary of a block: none, one byte, the 16-byte and
\* the 8-byte length field just fitting or not, whole blocks.
Lengths64 == 0 .. 1 \cup 46 .. 65 \cup 118 .. 129

AnyChunks == {0, 1, 7, 17, 18}
=============================================================================
