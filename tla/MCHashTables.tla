----------------------------- MODULE MCHashTables -----------------------------
(***************************************************************************)
(* The tables of md5.c, sha1.c, sha256.c, sha512.c and chacha20.c, and     *)
(* calls with what the standards say of them: vectors of hash_test.c and   *)
(* cipher_test.c, and messages that end around the end of a block.         *)
(***************************************************************************)
EXTENDS Integers, Sequences

Bits16(v) == {k \in 0 .. 15 : (v \div 2 ^ k) % 2 = 1}

\* Words written in groups of 16 bits, the highest first.
Grouped(s, n) ==
  [w \in 1 .. Len(s) \div n |->
     UNION {{16 * (n - k) + b : b \in Bits16(s[n * (w - 1) + k])} : k \in 1 .. n}]
Words32(s) == Grouped(s, 2)
Words64(s) == Grouped(s, 4)

MCmd5_AC == Words32(<<
    \hD76A, \hA478,  \hE8C7, \hB756,  \h2420, \h70DB,  \hC1BD, \hCEEE,
    \hF57C, \h0FAF,  \h4787, \hC62A,  \hA830, \h4613,  \hFD46, \h9501,
    \h6980, \h98D8,  \h8B44, \hF7AF,  \hFFFF, \h5BB1,  \h895C, \hD7BE,
    \h6B90, \h1122,  \hFD98, \h7193,  \hA679, \h438E,  \h49B4, \h0821,
    \hF61E, \h2562,  \hC040, \hB340,  \h265E, \h5A51,  \hE9B6, \hC7AA,
    \hD62F, \h105D,  \h0244, \h1453,  \hD8A1, \hE681,  \hE7D3, \hFBC8,
    \h21E1, \hCDE6,  \hC337, \h07D6,  \hF4D5, \h0D87,  \h455A, \h14ED,
    \hA9E3, \hE905,  \hFCEF, \hA3F8,  \h676F, \h02D9,  \h8D2A, \h4C8A,
    \hFFFA, \h3942,  \h8771, \hF681,  \h6D9D, \h6122,  \hFDE5, \h380C,
    \hA4BE, \hEA44,  \h4BDE, \hCFA9,  \hF6BB, \h4B60,  \hBEBF, \hBC70,
    \h289B, \h7EC6,  \hEAA1, \h27FA,  \hD4EF, \h3085,  \h0488, \h1D05,
    \hD9D4, \hD039,  \hE6DB, \h99E5,  \h1FA2, \h7CF8,  \hC4AC, \h5665,
    \hF429, \h2244,  \h432A, \hFF97,  \hAB94, \h23A7,  \hFC93, \hA039,
    \h655B, \h59C3,  \h8F0C, \hCC92,  \hFFEF, \hF47D,  \h8584, \h5DD1,
    \h6FA8, \h7E4F,  \hFE2C, \hE6E0,  \hA301, \h4314,  \h4E08, \h11A1,
    \hF753, \h7E82,  \hBD3A, \hF235,  \h2AD7, \hD2BB,  \hEB86, \hD391>>)
MCmd5_shifts ==
  <<<<7, 12, 17, 22>>, <<5, 9, 14, 20>>, <<4, 11, 16, 23>>, <<6, 10, 15, 21>>>>
MCsha1_K == Words32(<<
    \h5A82, \h7999,  \h6ED9, \hEBA1,  \h8F1B, \hBCDC,  \hCA62, \hC1D6>>)
MCsha256_K == Words32(<<
    \h428A, \h2F98,  \h7137, \h4491,  \hB5C0, \hFBCF,  \hE9B5, \hDBA5,
    \h3956, \hC25B,  \h59F1, \h11F1,  \h923F, \h82A4,  \hAB1C, \h5ED5,
    \hD807, \hAA98,  \h1283, \h5B01,  \h2431, \h85BE,  \h550C, \h7DC3,
    \h72BE, \h5D74,  \h80DE, \hB1FE,  \h9BDC, \h06A7,  \hC19B, \hF174,
    \hE49B, \h69C1,  \hEFBE, \h4786,  \h0FC1, \h9DC6,  \h240C, \hA1CC,
    \h2DE9, \h2C6F,  \h4A74, \h84AA,  \h5CB0, \hA9DC,  \h76F9, \h88DA,
    \h983E, \h5152,  \hA831, \hC66D,  \hB003, \h27C8,  \hBF59, \h7FC7,
    \hC6E0, \h0BF3,  \hD5A7, \h9147,  \h06CA, \h6351,  \h1429, \h2967,
    \h27B7, \h0A85,  \h2E1B, \h2138,  \h4D2C, \h6DFC,  \h5338, \h0D13,
    \h650A, \h7354,  \h766A, \h0ABB,  \h81C2, \hC92E,  \h9272, \h2C85,
    \hA2BF, \hE8A1,  \hA81A, \h664B,  \hC24B, \h8B70,  \hC76C, \h51A3,
    \hD192, \hE819,  \hD699, \h0624,  \hF40E, \h3585,  \h106A, \hA070,
    \h19A4, \hC116,  \h1E37, \h6C08,  \h2748, \h774C,  \h34B0, \hBCB5,
    \h391C, \h0CB3,  \h4ED8, \hAA4A,  \h5B9C, \hCA4F,  \h682E, \h6FF3,
    \h748F, \h82EE,  \h78A5, \h636F,  \h84C8, \h7814,  \h8CC7, \h0208,
    \h90BE, \hFFFA,  \hA450, \h6CEB,  \hBEF9, \hA3F7,  \hC671, \h78F2>>)
MCsha512_K == Words64(<<
    \h428A, \h2F98, \hD728, \hAE22,  \h7137, \h4491, \h23EF, \h65CD,
    \hB5C0, \hFBCF, \hEC4D, \h3B2F,  \hE9B5, \hDBA5, \h8189, \hDBBC,
    \h3956, \hC25B, \hF348, \hB538,  \h59F1, \h11F1, \hB605, \hD019,
    \h923F, \h82A4, \hAF19, \h4F9B,  \hAB1C, \h5ED5, \hDA6D, \h8118,
    \hD807, \hAA98, \hA303, \h0242,  \h1283, \h5B01, \h4570, \h6FBE,
    \h2431, \h85BE, \h4EE4, \hB28C,  \h550C, \h7DC3, \hD5FF, \hB4E2,
    \h72BE, \h5D74, \hF27B, \h896F,  \h80DE, \hB1FE, \h3B16, \h96B1,
    \h9BDC, \h06A7, \h25C7, \h1235,  \hC19B, \hF174, \hCF69, \h2694,
    \hE49B, \h69C1, \h9EF1, \h4AD2,  \hEFBE, \h4786, \h384F, \h25E3,
    \h0FC1, \h9DC6, \h8B8C, \hD5B5,  \h240C, \hA1CC, \h77AC, \h9C65,
    \h2DE9, \h2C6F, \h592B, \h0275,  \h4A74, \h84AA, \h6EA6, \hE483,
    \h5CB0, \hA9DC, \hBD41, \hFBD4,  \h76F9, \h88DA, \h8311, \h53B5,
    \h983E, \h5152, \hEE66, \hDFAB,  \hA831, \hC66D, \h2DB4, \h3210,
    \hB003, \h27C8, \h98FB, \h213F,  \hBF59, \h7FC7, \hBEEF, \h0EE4,
    \hC6E0, \h0BF3, \h3DA8, \h8FC2,  \hD5A7, \h9147, \h930A, \hA725,
    \h06CA, \h6351, \hE003, \h826F,  \h1429, \h2967, \h0A0E, \h6E70,
    \h27B7, \h0A85, \h46D2, \h2FFC,  \h2E1B, \h2138, \h5C26, \hC926,
    \h4D2C, \h6DFC, \h5AC4, \h2AED,  \h5338, \h0D13, \h9D95, \hB3DF,
    \h650A, \h7354, \h8BAF, \h63DE,  \h766A, \h0ABB, \h3C77, \hB2A8,
    \h81C2, \hC92E, \h47ED, \hAEE6,  \h9272, \h2C85, \h1482, \h353B,
    \hA2BF, \hE8A1, \h4CF1, \h0364,  \hA81A, \h664B, \hBC42, \h3001,
    \hC24B, \h8B70, \hD0F8, \h9791,  \hC76C, \h51A3, \h0654, \hBE30,
    \hD192, \hE819, \hD6EF, \h5218,  \hD699, \h0624, \h5565, \hA910,
    \hF40E, \h3585, \h5771, \h202A,  \h106A, \hA070, \h32BB, \hD1B8,
    \h19A4, \hC116, \hB8D2, \hD0C8,  \h1E37, \h6C08, \h5141, \hAB53,
    \h2748, \h774C, \hDF8E, \hEB99,  \h34B0, \hBCB5, \hE19B, \h48A8,
    \h391C, \h0CB3, \hC5C9, \h5A63,  \h4ED8, \hAA4A, \hE341, \h8ACB,
    \h5B9C, \hCA4F, \h7763, \hE373,  \h682E, \h6FF3, \hD6B2, \hB8A3,
    \h748F, \h82EE, \h5DEF, \hB2FC,  \h78A5, \h636F, \h4317, \h2F60,
    \h84C8, \h7814, \hA1F0, \hAB72,  \h8CC7, \h0208, \h1A64, \h39EC,
    \h90BE, \hFFFA, \h2363, \h1E28,  \hA450, \h6CEB, \hDE82, \hBDE9,
    \hBEF9, \hA3F7, \hB2C6, \h7915,  \hC671, \h78F2, \hE372, \h532B,
    \hCA27, \h3ECE, \hEA26, \h619C,  \hD186, \hB8C7, \h21C0, \hC207,
    \hEADA, \h7DD6, \hCDE0, \hEB1E,  \hF57D, \h4F7F, \hEE6E, \hD178,
    \h06F0, \h67AA, \h7217, \h6FBA,  \h0A63, \h7DC5, \hA2C8, \h98A6,
    \h113F, \h9804, \hBEF9, \h0DAE,  \h1B71, \h0B35, \h131C, \h471B,
    \h28DB, \h77F5, \h2304, \h7D84,  \h32CA, \hAB7B, \h40C7, \h2493,
    \h3C9E, \hBE0A, \h15C9, \hBEBC,  \h431D, \h67C4, \h9C10, \h0D4C,
    \h4CC5, \hD4BE, \hCB3E, \h42B6,  \h597F, \h299C, \hFC65, \h7E2A,
    \h5FCB, \h6FAB, \h3AD6, \hFAEC,  \h6C44, \h198C, \h4A47, \h5817>>)

MCH == [
  MD5 |-> Words32(<<
    \h6745, \h2301,  \hEFCD, \hAB89,  \h98BA, \hDCFE,  \h1032, \h5476>>),
  SHA1 |-> Words32(<<
    \h6745, \h2301,  \hEFCD, \hAB89,  \h98BA, \hDCFE,  \h1032, \h5476,
    \hC3D2, \hE1F0>>),
  SHA224 |-> Words32(<<
    \hC105, \h9ED8,  \h367C, \hD507,  \h3070, \hDD17,  \hF70E, \h5939,
    \hFFC0, \h0B31,  \h6858, \h1511,  \h64F9, \h8FA7,  \hBEFA, \h4FA4>>),
  SHA256 |-> Words32(<<
    \h6A09, \hE667,  \hBB67, \hAE85,  \h3C6E, \hF372,  \hA54F, \hF53A,
    \h510E, \h527F,  \h9B05, \h688C,  \h1F83, \hD9AB,  \h5BE0, \hCD19>>),
  SHA384 |-> Words64(<<
    \hCBBB, \h9D5D, \hC105, \h9ED8,  \h629A, \h292A, \h367C, \hD507,
    \h9159, \h015A, \h3070, \hDD17,  \h152F, \hECD8, \hF70E, \h5939,
    \h6733, \h2667, \hFFC0, \h0B31,  \h8EB4, \h4A87, \h6858, \h1511,
    \hDB0C, \h2E0D, \h64F9, \h8FA7,  \h47B5, \h481D, \hBEFA, \h4FA4>>),
  SHA512 |-> Words64(<<
    \h6A09, \hE667, \hF3BC, \hC908,  \hBB67, \hAE85, \h84CA, \hA73B,
    \h3C6E, \hF372, \hFE94, \hF82B,  \hA54F, \hF53A, \h5F1D, \h36F1,
    \h510E, \h527F, \hADE6, \h82D1,  \h9B05, \h688C, \h2B3E, \h6C1F,
    \h1F83, \hD9AB, \hFB41, \hBD6B,  \h5BE0, \hCD19, \h137E, \h2179>>),
  SHA512_224 |-> Words64(<<
    \h8C3D, \h37C8, \h1954, \h4DA2,  \h73E1, \h9966, \h89DC, \hD4D6,
    \h1DFA, \hB7AE, \h32FF, \h9C82,  \h679D, \hD514, \h582F, \h9FCF,
    \h0F6D, \h2B69, \h7BD4, \h4DA8,  \h77E3, \h6F73, \h04C4, \h8942,
    \h3F9D, \h85A8, \h6A1D, \h36C8,  \h1112, \hE6AD, \h91D6, \h92A1>>),
  SHA512_256 |-> Words64(<<
    \h2231, \h2194, \hFC2B, \hF72C,  \h9F55, \h5FA3, \hC84C, \h64C2,
    \h2393, \hB86B, \h6F53, \hB151,  \h9638, \h7719, \h5940, \hEABD,
    \h9628, \h3EE2, \hA88E, \hFFE3,  \hBE5E, \h1E25, \h5386, \h3992,
    \h2B01, \h99FC, \h2C85, \hB8AA,  \h0EB7, \h2DDC, \h81C5, \h2CA2>>)]

MCsigma == Words32(<<
    \h6170, \h7865,  \h3320, \h646E,  \h7962, \h2D32,  \h6B20, \h6574>>)

-----------------------------------------------------------------------------
(* Calls *)

Octets(s) == [n \in 1 .. Len(s) |-> Bits16(s[n])]

Abc == <<\h61, \h62, \h63>>
\* abcdbcdecdef...
Letters == [n \in 1 .. 56 |-> \h61 + ((n - 1) \div 4) + ((n - 1) % 4)]
\* 12345678901234567890...
Digits == [n \in 1 .. 80 |-> \h30 + (n % 10)]
Repeated(len) == [n \in 1 .. len |-> \h61]

Hashing(fn, alg, text, more, standard) ==
  [fn |-> fn, alg |-> alg, key |-> <<>>, nonce |-> <<>>, counter |-> {},
   text |-> Octets(text), room |-> Len(standard) + more,
   standard |-> Octets(standard)]

Refused(fn, alg, room) ==
  [fn |-> fn, alg |-> alg, key |-> <<>>, nonce |-> <<>>, counter |-> {},
   text |-> <<>>, room |-> room, standard |-> <<>>]

Masking(keyLen, nonceLen, counter, text, room, standard) ==
  [fn |-> "crypt_chacha20", alg |-> "none",
   key |-> Octets([n \in 1 .. keyLen |-> n - 1]),
   nonce |-> Octets([n \in 1 .. nonceLen |-> IF n = 8 THEN \h4A ELSE 0]),
   counter |-> counter, text |-> Octets(text), room |-> room,
   standard |-> Octets(standard)]

Sunscreen ==
  <<\h4C, \h61, \h64, \h69, \h65, \h73, \h20, \h61, \h6E, \h64, \h20, \h47, \h65, \h6E, \h74, \h6C,
    \h65, \h6D, \h65, \h6E, \h20, \h6F, \h66, \h20, \h74, \h68, \h65, \h20, \h63, \h6C, \h61, \h73,
    \h73, \h20, \h6F, \h66, \h20, \h27, \h39, \h39, \h3A, \h20, \h49, \h66, \h20, \h49, \h20, \h63,
    \h6F, \h75, \h6C, \h64, \h20, \h6F, \h66, \h66, \h65, \h72, \h20, \h79, \h6F, \h75, \h20, \h6F,
    \h6E, \h6C, \h79, \h20, \h6F, \h6E, \h65, \h20, \h74, \h69, \h70, \h20, \h66, \h6F, \h72, \h20,
    \h74, \h68, \h65, \h20, \h66, \h75, \h74, \h75, \h72, \h65, \h2C, \h20, \h73, \h75, \h6E, \h73,
    \h63, \h72, \h65, \h65, \h6E, \h20, \h77, \h6F, \h75, \h6C, \h64, \h20, \h62, \h65, \h20, \h69,
    \h74, \h2E>>
Masked ==
  <<\h6E, \h2E, \h35, \h9A, \h25, \h68, \hF9, \h80, \h41, \hBA, \h07, \h28, \hDD, \h0D, \h69, \h81,
    \hE9, \h7E, \h7A, \hEC, \h1D, \h43, \h60, \hC2, \h0A, \h27, \hAF, \hCC, \hFD, \h9F, \hAE, \h0B,
    \hF9, \h1B, \h65, \hC5, \h52, \h47, \h33, \hAB, \h8F, \h59, \h3D, \hAB, \hCD, \h62, \hB3, \h57,
    \h16, \h39, \hD6, \h24, \hE6, \h51, \h52, \hAB, \h8F, \h53, \h0C, \h35, \h9F, \h08, \h61, \hD8,
    \h07, \hCA, \h0D, \hBF, \h50, \h0D, \h6A, \h61, \h56, \hA3, \h8E, \h08, \h8A, \h22, \hB6, \h5E,
    \h52, \hBC, \h51, \h4D, \h16, \hCC, \hF8, \h06, \h81, \h8C, \hE9, \h1A, \hB7, \h79, \h37, \h36,
    \h5A, \hF9, \h0B, \hBF, \h74, \hA3, \h5B, \hE6, \hB4, \h0B, \h8E, \hED, \hF2, \h78, \h5E, \h42,
    \h87, \h4D>>
MaskedOverTheTop ==
  <<\h21, \h48, \hBE, \h32, \hB4, \h19, \h67, \h48, \h7E, \h8C, \hE0, \hFA, \hD1, \h10, \hAB, \hA4,
    \h2C, \hF1, \h57, \h4C, \hEC, \h79, \hEB, \h17, \h55, \h1C, \h1A, \hE2, \hD1, \h7E, \h07, \hAA,
    \h82, \h7C, \hEC, \h5F, \hD1, \h28, \h0C, \h74, \h2C, \hEC, \hD2, \hE8, \h31, \hC7, \h91, \hE1,
    \hD0, \hF0, \hE0, \h81, \h51, \hE0, \hC2, \h81, \h06, \hFB, \hCA, \h37, \hDA, \h7F, \hB4, \h1A,
    \hC1, \h69, \h67, \h60, \hD4, \hCE>>

Highest == 0 .. 31

MCRequests ==
  {Hashing("crypt_md5", "MD5", Abc, 0,
     <<\h90, \h01, \h50, \h98, \h3C, \hD2, \h4F, \hB0, \hD6, \h96, \h3F, \h7D, \h28, \hE1, \h7F, \h72>>),
   Hashing("crypt_md5", "MD5", Digits, 4,
     <<\h57, \hED, \hF4, \hA2, \h2B, \hE3, \hC9, \h55, \hAC, \h49, \hDA, \h2E, \h21, \h07, \hB6, \h7A>>),
   Hashing("crypt_sha1", "SHA1", Abc, 0,
     <<\hA9, \h99, \h3E, \h36, \h47, \h06, \h81, \h6A, \hBA, \h3E, \h25, \h71, \h78, \h50, \hC2, \h6C,
       \h9C, \hD0, \hD8, \h9D>>),
   Hashing("crypt_sha1", "SHA1", Letters, 4,
     <<\h84, \h98, \h3E, \h44, \h1C, \h3B, \hD2, \h6E, \hBA, \hAE, \h4A, \hA1, \hF9, \h51, \h29, \hE5,
       \hE5, \h46, \h70, \hF1>>),
   Hashing("crypt_sha256", "SHA224", Letters, 4,
     <<\h75, \h38, \h8B, \h16, \h51, \h27, \h76, \hCC, \h5D, \hBA, \h5D, \hA1, \hFD, \h89, \h01, \h50,
       \hB0, \hC6, \h45, \h5C, \hB4, \hF5, \h8B, \h19, \h52, \h52, \h25, \h25>>),
   Hashing("crypt_sha256", "SHA256", <<>>, 0,
     <<\hE3, \hB0, \hC4, \h42, \h98, \hFC, \h1C, \h14, \h9A, \hFB, \hF4, \hC8, \h99, \h6F, \hB9, \h24,
       \h27, \hAE, \h41, \hE4, \h64, \h9B, \h93, \h4C, \hA4, \h95, \h99, \h1B, \h78, \h52, \hB8, \h55>>),
   Hashing("crypt_sha512", "SHA384", Abc, 4,
     <<\hCB, \h00, \h75, \h3F, \h45, \hA3, \h5E, \h8B, \hB5, \hA0, \h3D, \h69, \h9A, \hC6, \h50, \h07,
       \h27, \h2C, \h32, \hAB, \h0E, \hDE, \hD1, \h63, \h1A, \h8B, \h60, \h5A, \h43, \hFF, \h5B, \hED,
       \h80, \h86, \h07, \h2B, \hA1, \hE7, \hCC, \h23, \h58, \hBA, \hEC, \hA1, \h34, \hC8, \h25, \hA7>>),
   Hashing("crypt_sha512", "SHA512", Abc, 4,
     <<\hDD, \hAF, \h35, \hA1, \h93, \h61, \h7A, \hBA, \hCC, \h41, \h73, \h49, \hAE, \h20, \h41, \h31,
       \h12, \hE6, \hFA, \h4E, \h89, \hA9, \h7E, \hA2, \h0A, \h9E, \hEE, \hE6, \h4B, \h55, \hD3, \h9A,
       \h21, \h92, \h99, \h2A, \h27, \h4F, \hC1, \hA8, \h36, \hBA, \h3C, \h23, \hA3, \hFE, \hEB, \hBD,
       \h45, \h4D, \h44, \h23, \h64, \h3C, \hE8, \h0E, \h2A, \h9A, \hC9, \h4F, \hA5, \h4C, \hA4, \h9F>>),
   Hashing("crypt_sha512", "SHA512_224", Abc, 4,
     <<\h46, \h34, \h27, \h0F, \h70, \h7B, \h6A, \h54, \hDA, \hAE, \h75, \h30, \h46, \h08, \h42, \hE2,
       \h0E, \h37, \hED, \h26, \h5C, \hEE, \hE9, \hA4, \h3E, \h89, \h24, \hAA>>),
   Hashing("crypt_sha512", "SHA512_256", Abc, 4,
     <<\h53, \h04, \h8E, \h26, \h81, \h94, \h1E, \hF9, \h9B, \h2E, \h29, \hB7, \h6B, \h4C, \h7D, \hAB,
       \hE4, \hC2, \hD0, \hC6, \h34, \hFC, \h6D, \h46, \hE0, \hE2, \hF1, \h31, \h07, \hE7, \hAF, \h23>>),
   Hashing("crypt_sha512", "SHA512", Letters, 0,
     <<\h20, \h4A, \h8F, \hC6, \hDD, \hA8, \h2F, \h0A, \h0C, \hED, \h7B, \hEB, \h8E, \h08, \hA4, \h16,
       \h57, \hC1, \h6E, \hF4, \h68, \hB2, \h28, \hA8, \h27, \h9B, \hE3, \h31, \hA7, \h03, \hC3, \h35,
       \h96, \hFD, \h15, \hC1, \h3B, \h1B, \h07, \hF9, \hAA, \h1D, \h3B, \hEA, \h57, \h78, \h9C, \hA0,
       \h31, \hAD, \h85, \hC7, \hA7, \h1D, \hD7, \h03, \h54, \hEC, \h63, \h12, \h38, \hCA, \h34, \h45>>),
   Hashing("crypt_md5", "MD5", Repeated(55), 0,
     <<\hEF, \h17, \h72, \hB6, \hDF, \hF9, \hA1, \h22, \h35, \h85, \h52, \h95, \h4A, \hD0, \hDF, \h65>>),
   Hashing("crypt_sha1", "SHA1", Repeated(55), 0,
     <<\hC1, \hC8, \hBB, \hDC, \h22, \h79, \h6E, \h28, \hC0, \hE1, \h51, \h63, \hD2, \h08, \h99, \hB6,
       \h56, \h21, \hD6, \h5A>>),
   Hashing("crypt_sha256", "SHA256", Repeated(55), 0,
     <<\h9F, \h43, \h90, \hF8, \hD3, \h0C, \h2D, \hD9, \h2E, \hC9, \hF0, \h95, \hB6, \h5E, \h2B, \h9A,
       \hE9, \hB0, \hA9, \h25, \hA5, \h25, \h8E, \h24, \h1C, \h9F, \h1E, \h91, \h0F, \h73, \h43, \h18>>),
   Hashing("crypt_sha256", "SHA224", Repeated(64), 0,
     <<\hA8, \h8C, \hD5, \hCD, \hE6, \hD6, \hFE, \h91, \h36, \hA4, \hE5, \h8B, \h49, \h16, \h74, \h61,
       \hEA, \h95, \hD3, \h88, \hCA, \h2B, \hDB, \h7A, \hFD, \hC3, \hCB, \hF4>>),
   Hashing("crypt_md5", "MD5", Repeated(54), 0,
     <<\hEC, \hED, \h9E, \h0B, \h81, \hEF, \h2B, \hBA, \h60, \h5C, \hBC, \h5E, \h2E, \h76, \hA1, \hD0>>),
   Hashing("crypt_sha512", "SHA384", Repeated(111), 0,
     <<\h3C, \h37, \h95, \h50, \h51, \hCB, \h5C, \h30, \h26, \hF9, \h4D, \h55, \h1D, \h5B, \h5E, \h2A,
       \hC3, \h8D, \h57, \h2A, \hE4, \hE0, \h71, \h72, \h08, \h5F, \hED, \h81, \hF8, \h46, \h6B, \h8F,
       \h90, \hDC, \h23, \hA8, \hFF, \hCD, \hEA, \h0B, \h8D, \h8E, \h58, \hE8, \hFD, \hAC, \hC8, \h0A>>),
   Hashing("crypt_sha512", "SHA512", Repeated(112), 0,
     <<\hC0, \h1D, \h08, \h0E, \hFD, \h49, \h27, \h76, \hA1, \hC4, \h3B, \hD2, \h3D, \hD9, \h9D, \h0A,
       \h2E, \h62, \h6D, \h48, \h1E, \h16, \h78, \h2E, \h75, \hD5, \h4C, \h25, \h03, \hB5, \hDC, \h32,
       \hBD, \h05, \hF0, \hF1, \hBA, \h33, \hE5, \h68, \hB8, \h8F, \hD2, \hD9, \h70, \h92, \h9B, \h71,
       \h9E, \hCB, \hB1, \h52, \hF5, \h8F, \h13, \h0A, \h40, \h7C, \h88, \h30, \h60, \h4B, \h70, \hCA>>),
   Hashing("crypt_sha512", "SHA512_256", Repeated(118), 0,
     <<\h07, \hC3, \h26, \h4A, \h0C, \h33, \hF2, \h38, \h4E, \h7B, \h79, \hB0, \h11, \hB9, \hF9, \hA9,
       \h19, \hAE, \h59, \h7B, \hD9, \h9D, \hBD, \h3B, \h5D, \h57, \hD1, \h7D, \h3D, \h50, \hA0, \h12>>),
   Hashing("crypt_sha512", "SHA512_224", Repeated(119), 0,
     <<\h3F, \hAF, \h8C, \h37, \h00, \h47, \hA3, \h1F, \h89, \hBD, \h95, \h9C, \h5A, \hF5, \hA2, \h32,
       \h89, \h28, \hFB, \h13, \h82, \h3F, \h15, \h82, \h6C, \hE8, \hC2, \h25>>),
   Refused("crypt_md5", "MD5", 15), Refused("crypt_sha1", "SHA1", 19),
   Refused("crypt_sha256", "SHA512_256", 64), Refused("crypt_sha256", "SHA256", 31),
   Refused("crypt_sha512", "SHA256", 64), Refused("crypt_sha512", "SHA384", 47),
   Masking(32, 12, {0}, Sunscreen, Len(Sunscreen) + 3, Masked),
   Masking(32, 12, {0}, Masked, Len(Masked), Sunscreen),
   Masking(32, 12, Highest, SubSeq(Sunscreen, 1, 70), 70, MaskedOverTheTop),
   Masking(31, 12, {0}, Abc, 3, <<>>), Masking(32, 8, {0}, Abc, 3, <<>>),
   Masking(32, 12, {0}, Abc, 2, <<>>),
   [fn |-> "poly1305_keygen", alg |-> "none",
    key |-> Octets([n \in 1 .. 32 |-> \h7F + n]),
    nonce |-> Octets([n \in 1 .. 12 |-> IF n < 5 THEN 0 ELSE n - 5]),
    counter |-> {}, text |-> <<>>, room |-> 32,
    standard |-> Octets(<<\h8A, \hD5, \hA0, \h8B, \h90, \h5F, \h81, \hCC, \h81, \h50, \h40, \h27, \h4A, \hB2, \h94, \h71,
        \hA8, \h33, \hB6, \h37, \hE3, \hFD, \h0D, \hA5, \h08, \hDB, \hB8, \hE2, \hFD, \hD1, \hA6, \h46>>)]}
=============================================================================
