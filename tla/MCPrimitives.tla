---------------------------- MODULE MCPrimitives ----------------------------
(***************************************************************************)
(* The tables of aes.c and des.c at their full size, and blocks, keys and  *)
(* ciphertexts of cipher_test.c; those of the hashes and of ChaCha20 are   *)
(* in MCHashTables.                                                        *)
(***************************************************************************)
EXTENDS Primitives, MCHashTables, SequencesExt

(* AES *)

Bits(v) == {k \in 0 .. 7 : (v \div 2 ^ k) % 2 = 1}
MCPoly == Bits(\h1B)

\* The last entry of the table has no initialiser.
MCRcon == LET values == <<\h01, \h02, \h04, \h08, \h10, \h20, \h40, \h80,
                          \h1B, \h36, \h00>>
          IN  [n \in 0 .. 10 |-> Bits(values[n + 1])]

Value(b) == SumSet({2 ^ k : k \in b})
FromTable(table) == [b \in SUBSET (0 .. 7) |-> Bits(table[Value(b) + 1])]

MCsbox == FromTable(<<
  \h63, \h7C, \h77, \h7B, \hF2, \h6B, \h6F, \hC5, \h30, \h01, \h67, \h2B, \hFE, \hD7, \hAB, \h76,
  \hCA, \h82, \hC9, \h7D, \hFA, \h59, \h47, \hF0, \hAD, \hD4, \hA2, \hAF, \h9C, \hA4, \h72, \hC0,
  \hB7, \hFD, \h93, \h26, \h36, \h3F, \hF7, \hCC, \h34, \hA5, \hE5, \hF1, \h71, \hD8, \h31, \h15,
  \h04, \hC7, \h23, \hC3, \h18, \h96, \h05, \h9A, \h07, \h12, \h80, \hE2, \hEB, \h27, \hB2, \h75,
  \h09, \h83, \h2C, \h1A, \h1B, \h6E, \h5A, \hA0, \h52, \h3B, \hD6, \hB3, \h29, \hE3, \h2F, \h84,
  \h53, \hD1, \h00, \hED, \h20, \hFC, \hB1, \h5B, \h6A, \hCB, \hBE, \h39, \h4A, \h4C, \h58, \hCF,
  \hD0, \hEF, \hAA, \hFB, \h43, \h4D, \h33, \h85, \h45, \hF9, \h02, \h7F, \h50, \h3C, \h9F, \hA8,
  \h51, \hA3, \h40, \h8F, \h92, \h9D, \h38, \hF5, \hBC, \hB6, \hDA, \h21, \h10, \hFF, \hF3, \hD2,
  \hCD, \h0C, \h13, \hEC, \h5F, \h97, \h44, \h17, \hC4, \hA7, \h7E, \h3D, \h64, \h5D, \h19, \h73,
  \h60, \h81, \h4F, \hDC, \h22, \h2A, \h90, \h88, \h46, \hEE, \hB8, \h14, \hDE, \h5E, \h0B, \hDB,
  \hE0, \h32, \h3A, \h0A, \h49, \h06, \h24, \h5C, \hC2, \hD3, \hAC, \h62, \h91, \h95, \hE4, \h79,
  \hE7, \hC8, \h37, \h6D, \h8D, \hD5, \h4E, \hA9, \h6C, \h56, \hF4, \hEA, \h65, \h7A, \hAE, \h08,
  \hBA, \h78, \h25, \h2E, \h1C, \hA6, \hB4, \hC6, \hE8, \hDD, \h74, \h1F, \h4B, \hBD, \h8B, \h8A,
  \h70, \h3E, \hB5, \h66, \h48, \h03, \hF6, \h0E, \h61, \h35, \h57, \hB9, \h86, \hC1, \h1D, \h9E,
  \hE1, \hF8, \h98, \h11, \h69, \hD9, \h8E, \h94, \h9B, \h1E, \h87, \hE9, \hCE, \h55, \h28, \hDF,
  \h8C, \hA1, \h89, \h0D, \hBF, \hE6, \h42, \h68, \h41, \h99, \h2D, \h0F, \hB0, \h54, \hBB, \h16>>)
MCinv_sbox == FromTable(<<
  \h52, \h09, \h6A, \hD5, \h30, \h36, \hA5, \h38, \hBF, \h40, \hA3, \h9E, \h81, \hF3, \hD7, \hFB,
  \h7C, \hE3, \h39, \h82, \h9B, \h2F, \hFF, \h87, \h34, \h8E, \h43, \h44, \hC4, \hDE, \hE9, \hCB,
  \h54, \h7B, \h94, \h32, \hA6, \hC2, \h23, \h3D, \hEE, \h4C, \h95, \h0B, \h42, \hFA, \hC3, \h4E,
  \h08, \h2E, \hA1, \h66, \h28, \hD9, \h24, \hB2, \h76, \h5B, \hA2, \h49, \h6D, \h8B, \hD1, \h25,
  \h72, \hF8, \hF6, \h64, \h86, \h68, \h98, \h16, \hD4, \hA4, \h5C, \hCC, \h5D, \h65, \hB6, \h92,
  \h6C, \h70, \h48, \h50, \hFD, \hED, \hB9, \hDA, \h5E, \h15, \h46, \h57, \hA7, \h8D, \h9D, \h84,
  \h90, \hD8, \hAB, \h00, \h8C, \hBC, \hD3, \h0A, \hF7, \hE4, \h58, \h05, \hB8, \hB3, \h45, \h06,
  \hD0, \h2C, \h1E, \h8F, \hCA, \h3F, \h0F, \h02, \hC1, \hAF, \hBD, \h03, \h01, \h13, \h8A, \h6B,
  \h3A, \h91, \h11, \h41, \h4F, \h67, \hDC, \hEA, \h97, \hF2, \hCF, \hCE, \hF0, \hB4, \hE6, \h73,
  \h96, \hAC, \h74, \h22, \hE7, \hAD, \h35, \h85, \hE2, \hF9, \h37, \hE8, \h1C, \h75, \hDF, \h6E,
  \h47, \hF1, \h1A, \h71, \h1D, \h29, \hC5, \h89, \h6F, \hB7, \h62, \h0E, \hAA, \h18, \hBE, \h1B,
  \hFC, \h56, \h3E, \h4B, \hC6, \hD2, \h79, \h20, \h9A, \hDB, \hC0, \hFE, \h78, \hCD, \h5A, \hF4,
  \h1F, \hDD, \hA8, \h33, \h88, \h07, \hC7, \h31, \hB1, \h12, \h10, \h59, \h27, \h80, \hEC, \h5F,
  \h60, \h51, \h7F, \hA9, \h19, \hB5, \h4A, \h0D, \h2D, \hE5, \h7A, \h9F, \h93, \hC9, \h9C, \hEF,
  \hA0, \hE0, \h3B, \h4D, \hAE, \h2A, \hF5, \hB0, \hC8, \hEB, \hBB, \h3C, \h83, \h53, \h99, \h61,
  \h17, \h2B, \h04, \h7E, \hBA, \h77, \hD6, \h26, \hE1, \h69, \h14, \h63, \h55, \h21, \h0C, \h7D>>)

Lengths == {"AES_128", "AES_192", "AES_256"}
ByLength(a, b, c) ==
  [n \in Lengths |-> CASE n = "AES_128" -> a
                       [] n = "AES_192" -> b
                       [] n = "AES_256" -> c]
MCKeyWords == ByLength(4, 6, 8)
MCNumRounds == ByLength(10, 12, 14)
MCRevertWords == ByLength(44, 52, 60)

Bytes(s) == [n \in 0 .. Len(s) - 1 |-> Bits(s[n + 1])]
Words(s) ==
  [w \in 0 .. (Len(s) \div 4) - 1 |-> [b \in 0 .. 3 |-> Bits(s[4 * w + b + 1])]]

Counting(len) == [n \in 1 .. len |-> n - 1]
Key1_128 ==
      <<\h2b, \h7e, \h15, \h16, \h28, \hae, \hd2, \ha6,
       \hab, \hf7, \h15, \h88, \h09, \hcf, \h4f, \h3c>>
Text1 ==
      <<\h32, \h43, \hf6, \ha8, \h88, \h5a, \h30, \h8d,
       \h31, \h31, \h98, \ha2, \he0, \h37, \h07, \h34>>
Text2 == [n \in 1 .. 16 |-> 17 * (n - 1)]

AesJob(len, key, t, m) ==
  [key_len |-> len, key |-> Words(key), text |-> Bytes(t), mode |-> m]

MCAesJobs ==
  {AesJob("AES_128", Key1_128, Text1, m) : m \in {"ECB", "CTR"}}
    \cup {AesJob("AES_128", Counting(16), Text2, m) : m \in {"ECB", "CBC"}}
    \cup {AesJob("AES_192", Counting(24), Text2, m) : m \in {"ECB", "GCM"}}
    \cup {AesJob("AES_256", Counting(32), Text2, m) : m \in {"ECB", "CTR"}}

AesVector(len, key, t, c) ==
  [job |-> AesJob(len, key, t, "ECB"), cipher |-> Bytes(c)]

MCAesVectors ==
  {AesVector("AES_128", Key1_128, Text1,
      <<\h39, \h25, \h84, \h1D, \h02, \hDC, \h09, \hFB,
       \hDC, \h11, \h85, \h97, \h19, \h6A, \h0B, \h32>>),
   AesVector("AES_128", Counting(16), Text2,
      <<\h69, \hc4, \he0, \hd8, \h6a, \h7b, \h04, \h30,
       \hd8, \hcd, \hb7, \h80, \h70, \hb4, \hc5, \h5a>>),
   AesVector("AES_192", Counting(24), Text2,
      <<\hdd, \ha9, \h7c, \ha4, \h86, \h4c, \hdf, \he0,
       \h6e, \haf, \h70, \ha0, \hec, \h0d, \h71, \h91>>),
   AesVector("AES_256", Counting(32), Text2,
      <<\h8e, \ha2, \hb7, \hca, \h51, \h67, \h45, \hbf,
       \hea, \hfc, \h49, \h90, \h4b, \h49, \h60, \h89>>)}

(* DES *)

MCIP == [n \in 1 .. 64 |->
           LET row == (n - 1) \div 8
           IN  (IF row < 4 THEN 58 + 2 * row ELSE 57 + 2 * (row - 4))
                 - 8 * ((n - 1) % 8)]
MCIP_1 == [n \in 1 .. 64 |-> CHOOSE k \in 1 .. 64 : MCIP[k] = n]
MCE == [n \in 1 .. 48 |-> ((4 * ((n - 1) \div 6) + ((n - 1) % 6) + 31) % 32) + 1]
MCP == <<
  16,  7, 20, 21, 29, 12, 28, 17,  1, 15, 23, 26,  5, 18, 31, 10,
   2,  8, 24, 14, 32, 27,  3,  9, 19, 13, 30,  6, 22, 11,  4, 25>>
MCPC1 == <<
  57, 49, 41, 33, 25, 17,  9,  1, 58, 50, 42, 34, 26, 18,
  10,  2, 59, 51, 43, 35, 27, 19, 11,  3, 60, 52, 44, 36,
  63, 55, 47, 39, 31, 23, 15,  7, 62, 54, 46, 38, 30, 22,
  14,  6, 61, 53, 45, 37, 29, 21, 13,  5, 28, 20, 12,  4>>
MCPC2 == <<
  14, 17, 11, 24,  1,  5,  3, 28, 15,  6, 21, 10,
  23, 19, 12,  4, 26,  8, 16,  7, 27, 20, 13,  2,
  41, 52, 31, 37, 47, 55, 30, 40, 51, 45, 33, 48,
  44, 49, 39, 56, 34, 53, 46, 42, 50, 36, 29, 32>>

Boxes == <<
  <<<<14, 4, 13, 1, 2, 15, 11, 8, 3, 10, 6, 12, 5, 9, 0, 7>>,
    <<0, 15, 7, 4, 14, 2, 13, 1, 10, 6, 12, 11, 9, 5, 3, 8>>,
    <<4, 1, 14, 8, 13, 6, 2, 11, 15, 12, 9, 7, 3, 10, 5, 0>>,
    <<15, 12, 8, 2, 4, 9, 1, 7, 5, 11, 3, 14, 10, 0, 6, 13>>>>,
  <<<<15, 1, 8, 14, 6, 11, 3, 4, 9, 7, 2, 13, 12, 0, 5, 10>>,
    <<3, 13, 4, 7, 15, 2, 8, 14, 12, 0, 1, 10, 6, 9, 11, 5>>,
    <<0, 14, 7, 11, 10, 4, 13, 1, 5, 8, 12, 6, 9, 3, 2, 15>>,
    <<13, 8, 10, 1, 3, 15, 4, 2, 11, 6, 7, 12, 0, 5, 14, 9>>>>,
  <<<<10, 0, 9, 14, 6, 3, 15, 5, 1, 13, 12, 7, 11, 4, 2, 8>>,
    <<13, 7, 0, 9, 3, 4, 6, 10, 2, 8, 5, 14, 12, 11, 15, 1>>,
    <<13, 6, 4, 9, 8, 15, 3, 0, 11, 1, 2, 12, 5, 10, 14, 7>>,
    <<1, 10, 13, 0, 6, 9, 8, 7, 4, 15, 14, 3, 11, 5, 2, 12>>>>,
  <<<<7, 13, 14, 3, 0, 6, 9, 10, 1, 2, 8, 5, 11, 12, 4, 15>>,
    <<13, 8, 11, 5, 6, 15, 0, 3, 4, 7, 2, 12, 1, 10, 14, 9>>,
    <<10, 6, 9, 0, 12, 11, 7, 13, 15, 1, 3, 14, 5, 2, 8, 4>>,
    <<3, 15, 0, 6, 10, 1, 13, 8, 9, 4, 5, 11, 12, 7, 2, 14>>>>,
  <<<<2, 12, 4, 1, 7, 10, 11, 6, 8, 5, 3, 15, 13, 0, 14, 9>>,
    <<14, 11, 2, 12, 4, 7, 13, 1, 5, 0, 15, 10, 3, 9, 8, 6>>,
    <<4, 2, 1, 11, 10, 13, 7, 8, 15, 9, 12, 5, 6, 3, 0, 14>>,
    <<11, 8, 12, 7, 1, 14, 2, 13, 6, 15, 0, 9, 10, 4, 5, 3>>>>,
  <<<<12, 1, 10, 15, 9, 2, 6, 8, 0, 13, 3, 4, 14, 7, 5, 11>>,
    <<10, 15, 4, 2, 7, 12, 9, 5, 6, 1, 13, 14, 0, 11, 3, 8>>,
    <<9, 14, 15, 5, 2, 8, 12, 3, 7, 0, 4, 10, 1, 13, 11, 6>>,
    <<4, 3, 2, 12, 9, 5, 15, 10, 11, 14, 1, 7, 6, 0, 8, 13>>>>,
  <<<<4, 11, 2, 14, 15, 0, 8, 13, 3, 12, 9, 7, 5, 10, 6, 1>>,
    <<13, 0, 11, 7, 4, 9, 1, 10, 14, 3, 5, 12, 2, 15, 8, 6>>,
    <<1, 4, 11, 13, 12, 3, 7, 14, 10, 15, 6, 8, 0, 5, 9, 2>>,
    <<6, 11, 13, 8, 1, 4, 10, 7, 9, 5, 0, 15, 14, 2, 3, 12>>>>,
  <<<<13, 2, 8, 4, 6, 15, 11, 1, 10, 9, 3, 14, 5, 0, 12, 7>>,
    <<1, 15, 13, 8, 10, 3, 7, 4, 12, 5, 6, 11, 0, 14, 9, 2>>,
    <<7, 11, 4, 1, 9, 12, 14, 2, 0, 6, 10, 13, 15, 3, 5, 8>>,
    <<2, 1, 14, 7, 4, 10, 8, 13, 15, 12, 9, 0, 3, 5, 6, 11>>>>>>
MCS_BOX ==
  [n \in 0 .. 7 |-> [row \in 0 .. 3 |-> [col \in 0 .. 15 |->
     Boxes[n + 1][row + 1][col + 1]]]]
MCshift_amounts == [r \in 0 .. 15 |-> IF r \in {0, 1, 8, 15} THEN 1 ELSE 2]

\* A number from its bytes, the most significant one first.
Number(s) ==
  {n \in 1 .. 64 : 7 - ((n - 1) % 8) \in Bits(s[((n - 1) \div 8) + 1])}
\* What the program loads from eight bytes of memory.
Loaded(s) == SwapBytes(Number(s))

Key1 == Number(<<\h01, \h23, \h45, \h67, \h89, \hAB, \hCD, \hEF>>)
Key2 == Number(<<\h75, \h28, \h78, \h39, \h74, \h93, \hCB, \h70>>)
Key3 == {MCIP[n] : n \in Key1}
Text == Loaded(<<\h4E, \h6F, \h77, \h20, \h69, \h73, \h20, \h74>>)

DesJob(k) == [keys |-> k, text |-> Text]
MCDesJobs ==
  {DesJob(<<Key1>>), DesJob(<<Key1, Key2, Key1>>), DesJob(<<Key1, Key2, Key3>>)}

MCDesVectors ==
  {[job |-> DesJob(<<Key1>>),
    cipher |-> Loaded(<<\h3F, \hA4, \h0E, \h8A, \h98, \h4D, \h48, \h15>>)],
   [job |-> DesJob(<<Key1, Key2, Key1>>),
    cipher |-> Loaded(<<\h31, \h60, \hF1, \h8C, \h37, \h87, \hAA, \hB2>>)]}
=============================================================================
