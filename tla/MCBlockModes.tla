---------------------------- MODULE MCBlockModes ----------------------------
(***************************************************************************)
(* Blocks of two bytes of two bits.  Texts of up to two blocks and a byte, *)
(* whose last byte may look like padding, with every size of buffer around *)
(* theirs; ints of four bits, and texts where they overflow or wrap.       *)
(***************************************************************************)
EXTENDS BlockModes, Bitwise

\* An affine permutation of blocks and its inverse.
MCencrypt ==
  [b \in Block |-> <<(b[1] + b[2] + 1) % 4, (b[1] + 2 * b[2] + 3) % 4>>]
MCdecrypt == [c \in Block |-> CHOOSE b \in Block : MCencrypt[b] = c]
MCxor == [p \in Byte \X Byte |-> p[1] ^^ p[2]]
MCIv == <<2, 3>>

Texts ==
  {<<>>} \cup {[k \in 1 .. len |-> IF k = len THEN last ELSE (k + 2) % 4] :
                 len \in 1 .. 5, last \in {0, 1, 2, 3}}

LongTexts ==
  {[k \in 1 .. len |-> k % 4] : len \in {6, 7, 9, 10, 11, 13, 14, 15}}

Request(f, m, p, t, r, i, v) ==
  [family |-> f, mode |-> m, padding |-> p, text |-> t, room |-> r,
   in_place |-> i, valid |-> v]

Families == {"DES", "TDES", "AES"}
Paddings == {"NO_PAD", "PKCS7", "other"}

MCRequests ==
  {Request(f, m, p, t, r, FALSE, TRUE) :
     f \in Families, m \in {"ECB", "CBC"}, p \in Paddings, t \in Texts,
     r \in 0 .. 7}
    \cup {Request(f, m, p, t, r, i, TRUE) :
            f \in Families, m \in {"ECB", "CBC"}, p \in {"NO_PAD", "PKCS7"},
            t \in LongTexts, r \in {0, 7, 10, 15}, i \in BOOLEAN}
    \cup {Request(f, m, p, t, r, TRUE, TRUE) :
            f \in Families, m \in {"ECB", "CBC"}, p \in {"NO_PAD", "PKCS7"},
            t \in Texts, r \in {2, 4, 7}}
    \cup {Request(f, m, "NO_PAD", t, 15, FALSE, v) :
            f \in Families, m \in {"ECB", "CBC", "GCM"}, t \in Texts,
            v \in BOOLEAN}
    \cup {Request(f, "CTR", "NO_PAD", t, 15, FALSE, TRUE) :
            f \in {"DES", "TDES"}, t \in Texts}
=============================================================================
