-------------------------- MODULE AeadCalls_proofs --------------------------
(***************************************************************************)
(* Proofs about AeadCalls, for every block of the MAC, all texts, keys and *)
(* nonces, and any number of packets: what is MAC'd determines both texts, *)
(* and from it the two constructions implement Aead.                       *)
(***************************************************************************)
EXTENDS AeadCalls, SequenceTheorems, TLAPS

(***************************************************************************)
(* The parts of the MAC'd data.                                            *)
(***************************************************************************)

\* Bytes as a MAC sees them, `heap' being what malloc gave.
Seen(heap) == {"byte", "len", "junk"} \X (Nat \cup {heap})

LEMMA GapType ==
  ASSUME NEW n \in Nat
  PROVE  /\ Gap(n) \in 1 .. MacBlock
         /\ Gap(n) % MacBlock \in Nat
         /\ Gap(n) = MacBlock <=> n % MacBlock = 0
<1>1. n % MacBlock \in 0 .. MacBlock - 1
  BY AeadAssumption
<1>2. /\ Gap(n) \in 1 .. MacBlock
      /\ Gap(n) = MacBlock <=> n % MacBlock = 0
  BY <1>1, AeadAssumption DEF Gap
<1>3. Gap(n) % MacBlock \in Nat
  BY <1>2, AeadAssumption
<1>4. QED
  BY <1>2, <1>3

\* Where the elements of a concatenation are.
LEMMA Concat ==
  ASSUME NEW S, NEW s \in Seq(S), NEW t \in Seq(S), NEW m, NEW k,
         Len(s) = m, Len(t) = k
  PROVE  /\ s \o t \in Seq(S) /\ Len(s \o t) = m + k
         /\ \A i \in 1 .. m : (s \o t)[i] = s[i]
         /\ \A i \in 1 .. k : (s \o t)[m + i] = t[i]
<1>1. m \in Nat /\ k \in Nat
  OBVIOUS
<1>2. s \o t \in Seq(S) /\ Len(s \o t) = m + k
  BY ConcatProperties
<1>3. ASSUME NEW i \in 1 .. m + k
      PROVE  (s \o t)[i] = IF i <= m THEN s[i] ELSE t[i - m]
  BY ConcatProperties
<1>4. ASSUME NEW i \in 1 .. m
      PROVE  (s \o t)[i] = s[i]
  <2>1. i \in 1 .. m + k /\ i <= m
    BY <1>1
  <2> QED  BY <1>3, <2>1
<1>5. ASSUME NEW i \in 1 .. k
      PROVE  (s \o t)[m + i] = t[i]
  <2>1. m + i \in 1 .. m + k /\ ~ (m + i <= m) /\ (m + i) - m = i
    BY <1>1
  <2> QED  BY <1>3, <2>1
<1>6. QED
  BY <1>2, <1>4, <1>5

\* The parts are sequences of such bytes, as long as they are said to be.
LEMMA Parts ==
  ASSUME NEW heap, NEW n \in Nat, NEW a \in ByteString, NEW c \in ByteString
  PROVE  /\ Data(a) \in Seq(Seen(heap)) /\ Len(Data(a)) = Len(a)
         /\ Zeros(n) \in Seq(Seen(heap)) /\ Len(Zeros(n)) = n
         /\ Lengths(a, c) \in Seq(Seen(heap)) /\ Len(Lengths(a, c)) = MacBlock
         /\ Uninitialised(heap, n) \in Seq(Seen(heap))
         /\ Len(Uninitialised(heap, n)) = n
<1>1. Len(a) \in Nat /\ Len(c) \in Nat /\ MacBlock \in Nat
  BY AeadAssumption DEF ByteString
<1>2. \A i \in 1 .. Len(a) : <<"byte", a[i]>> \in Seen(heap)
  BY <1>1 DEF Seen, ByteString
<1>3. Data(a) \in [1 .. Len(a) -> Seen(heap)]
  BY <1>2 DEF Data
<1>4. Zeros(n) \in [1 .. n -> Seen(heap)]
  BY DEF Zeros, Seen
<1>5. Lengths(a, c) \in [1 .. MacBlock -> Seen(heap)]
  BY <1>1 DEF Lengths, Seen
<1>6. Uninitialised(heap, n) \in [1 .. n -> Seen(heap)]
  BY DEF Uninitialised, Seen
<1>7. QED
  BY <1>1, <1>3, <1>4, <1>5, <1>6

(***************************************************************************)
(* What can be read in D: two texts, g and z bytes of padding behind them, *)
(* then their lengths.                                                     *)
(***************************************************************************)
End(a, c, g, z) == Len(a) + g + Len(c) + z

Reads(D, a, c, g, z) ==
  /\ \A i \in 1 .. Len(a) : D[i] = <<"byte", a[i]>>
  /\ \A i \in 1 .. Len(c) : D[Len(a) + g + i] = <<"byte", c[i]>>
  /\ \A i \in 1 .. End(a, c, g, z) : D[i][1] = "byte"
  /\ \A i \in 1 .. MacBlock : D[End(a, c, g, z) + i] = Lengths(a, c)[i]

LEMMA ReadsWritten ==
  ASSUME NEW heap, NEW a \in ByteString, NEW c \in ByteString,
         NEW g \in Nat, NEW z \in Nat, NEW n \in Nat
  PROVE  LET written == Data(a) \o Zeros(g) \o Data(c) \o Zeros(z) \o Lengths(a, c)
             D == written \o Uninitialised(heap, n)
         IN  /\ Len(written) = End(a, c, g, z) + MacBlock
             /\ written \in Seq(Seen(heap))
             /\ Reads(written, a, c, g, z)
             /\ Reads(D, a, c, g, z)
<1> DEFINE S == Seen(heap)
           w1 == Data(a) \o Zeros(g)
           w2 == w1 \o Data(c)
           w3 == w2 \o Zeros(z)
           w4 == w3 \o Lengths(a, c)
           D  == w4 \o Uninitialised(heap, n)
<1>1. Len(a) \in Nat /\ Len(c) \in Nat /\ MacBlock \in Nat
  BY AeadAssumption DEF ByteString
<1>2. Data(a) \in Seq(S) /\ Len(Data(a)) = Len(a)
  BY Parts
<1>3. Data(c) \in Seq(S) /\ Len(Data(c)) = Len(c)
  BY Parts
<1>4. Zeros(g) \in Seq(S) /\ Len(Zeros(g)) = g
  BY Parts
<1>5. Zeros(z) \in Seq(S) /\ Len(Zeros(z)) = z
  BY Parts
<1>6. Lengths(a, c) \in Seq(S) /\ Len(Lengths(a, c)) = MacBlock
  BY Parts
<1>7. Uninitialised(heap, n) \in Seq(S) /\ Len(Uninitialised(heap, n)) = n
  BY Parts
<1> HIDE DEF S
<1>8. /\ w1 \in Seq(S) /\ Len(w1) = Len(a) + g
      /\ \A i \in 1 .. Len(a) : w1[i] = Data(a)[i]
      /\ \A i \in 1 .. g : w1[Len(a) + i] = Zeros(g)[i]
  BY <1>2, <1>4, Concat
<1> HIDE DEF w1
<1>9. /\ w2 \in Seq(S) /\ Len(w2) = Len(a) + g + Len(c)
      /\ \A i \in 1 .. Len(a) + g : w2[i] = w1[i]
      /\ \A i \in 1 .. Len(c) : w2[Len(a) + g + i] = Data(c)[i]
  BY <1>8, <1>3, Concat
<1> HIDE DEF w2
<1>10. /\ w3 \in Seq(S) /\ Len(w3) = Len(a) + g + Len(c) + z
       /\ \A i \in 1 .. Len(a) + g + Len(c) : w3[i] = w2[i]
       /\ \A i \in 1 .. z : w3[Len(a) + g + Len(c) + i] = Zeros(z)[i]
  <2> DEFINE m == Len(a) + g + Len(c)
  <2>1. w2 \in Seq(S) /\ Len(w2) = m
    BY <1>9
  <2> HIDE DEF m
  <2>2. /\ w3 \in Seq(S) /\ Len(w3) = m + z
        /\ \A i \in 1 .. m : w3[i] = w2[i]
        /\ \A i \in 1 .. z : w3[m + i] = Zeros(z)[i]
    BY <2>1, <1>5, Concat
  <2> QED  BY <2>2 DEF m
<1> HIDE DEF w3
<1>11. /\ w4 \in Seq(S) /\ Len(w4) = End(a, c, g, z) + MacBlock
       /\ \A i \in 1 .. End(a, c, g, z) : w4[i] = w3[i]
       /\ \A i \in 1 .. MacBlock : w4[End(a, c, g, z) + i] = Lengths(a, c)[i]
  BY <1>10, <1>6, Concat DEF End
<1> HIDE DEF w4
<1>12. \A i \in 1 .. End(a, c, g, z) + MacBlock : D[i] = w4[i]
  BY <1>11, <1>7, Concat
<1> HIDE DEF D
<1>13. \A i \in 1 .. Len(a) : w4[i] = <<"byte", a[i]>>
  <2>1. \A i \in 1 .. Len(a) : w4[i] = Data(a)[i]
    BY <1>1, <1>8, <1>9, <1>10, <1>11 DEF End
  <2> QED  BY <2>1 DEF Data
<1>14. \A i \in 1 .. g : w4[Len(a) + i] = <<"byte", 0>>
  <2> SUFFICES ASSUME NEW i \in 1 .. g PROVE w4[Len(a) + i] = <<"byte", 0>>
    OBVIOUS
  <2>1. /\ Len(a) + i \in 1 .. Len(a) + g
        /\ Len(a) + i \in 1 .. Len(a) + g + Len(c)
        /\ Len(a) + i \in 1 .. End(a, c, g, z)
    BY <1>1 DEF End
  <2>2. w4[Len(a) + i] = Zeros(g)[i]
    BY <1>8, <1>9, <1>10, <1>11, <2>1
  <2> QED  BY <2>2 DEF Zeros
<1>15. \A i \in 1 .. Len(c) : w4[Len(a) + g + i] = <<"byte", c[i]>>
  <2>1. \A i \in 1 .. Len(c) : w4[Len(a) + g + i] = Data(c)[i]
    BY <1>1, <1>9, <1>10, <1>11 DEF End
  <2> QED  BY <2>1 DEF Data
<1>16. \A i \in 1 .. z : w4[Len(a) + g + Len(c) + i] = <<"byte", 0>>
  <2>1. \A i \in 1 .. z : w4[Len(a) + g + Len(c) + i] = Zeros(z)[i]
    BY <1>1, <1>10, <1>11 DEF End
  <2> QED  BY <2>1 DEF Zeros
<1>17. ASSUME NEW i \in 1 .. End(a, c, g, z)
       PROVE  w4[i][1] = "byte"
  <2>1. CASE i \in 1 .. Len(a)
    BY <1>13, <2>1
  <2>2. CASE i \in Len(a) + 1 .. Len(a) + g
    <3>1. i - Len(a) \in 1 .. g /\ Len(a) + (i - Len(a)) = i
      BY <1>1, <2>2
    <3> QED  BY <1>14, <3>1
  <2>3. CASE i \in Len(a) + g + 1 .. Len(a) + g + Len(c)
    <3>1. PICK k \in 1 .. Len(c) : i = Len(a) + g + k
      <4>1. i - (Len(a) + g) \in 1 .. Len(c) /\ i = Len(a) + g + (i - (Len(a) + g))
        BY <1>1, <2>3
      <4> QED  BY <4>1
    <3>2. w4[i] = <<"byte", c[k]>>
      BY <1>15, <3>1
    <3> QED  BY <3>2
  <2>4. CASE i \in Len(a) + g + Len(c) + 1 .. End(a, c, g, z)
    <3>1. PICK k \in 1 .. z : i = Len(a) + g + Len(c) + k
      <4>1. /\ i - (Len(a) + g + Len(c)) \in 1 .. z
            /\ i = Len(a) + g + Len(c) + (i - (Len(a) + g + Len(c)))
        BY <1>1, <2>4 DEF End
      <4> QED  BY <4>1
    <3>2. w4[i] = <<"byte", 0>>
      BY <1>16, <3>1
    <3> QED  BY <3>2
  <2> QED  BY <1>1, <2>1, <2>2, <2>3, <2>4 DEF End
<1>18. Reads(w4, a, c, g, z)
  BY <1>11, <1>13, <1>15, <1>17 DEF Reads
<1>19. Reads(D, a, c, g, z)
  <2>1. /\ \A i \in 1 .. Len(a) : i \in 1 .. End(a, c, g, z) + MacBlock
        /\ \A i \in 1 .. Len(c) : Len(a) + g + i \in 1 .. End(a, c, g, z) + MacBlock
        /\ \A i \in 1 .. End(a, c, g, z) : i \in 1 .. End(a, c, g, z) + MacBlock
        /\ \A i \in 1 .. MacBlock :
             End(a, c, g, z) + i \in 1 .. End(a, c, g, z) + MacBlock
    BY <1>1 DEF End
  <2> QED  BY <1>12, <1>18, <2>1 DEF Reads
<1>20. QED
  BY <1>11, <1>18, <1>19 DEF w1, w2, w3, w4, D, S

\* The same data does not read as two pairs of texts: where the lengths
\* begin is where the bytes end, and the lengths say where the texts do.
LEMMA Determined ==
  ASSUME NEW D, NEW a1 \in ByteString, NEW c1 \in ByteString,
         NEW a2 \in ByteString, NEW c2 \in ByteString,
         NEW g1 \in Nat, NEW z1 \in Nat, NEW g2 \in Nat, NEW z2 \in Nat,
         Len(a1) = Len(a2) => g1 = g2,
         Reads(D, a1, c1, g1, z1), Reads(D, a2, c2, g2, z2)
  PROVE  a1 = a2 /\ c1 = c2
<1> DEFINE P1 == End(a1, c1, g1, z1)
           P2 == End(a2, c2, g2, z2)
<1>1. /\ Len(a1) \in Nat /\ Len(c1) \in Nat /\ Len(a2) \in Nat /\ Len(c2) \in Nat
      /\ MacBlock \in Nat /\ MacBlock > 1
      /\ P1 \in Nat /\ P2 \in Nat
  BY AeadAssumption DEF ByteString, End
<1>2. /\ D[P1 + 1] = <<"len", Len(a1)>> /\ D[P1 + MacBlock] = <<"len", Len(c1)>>
      /\ D[P2 + 1] = <<"len", Len(a2)>> /\ D[P2 + MacBlock] = <<"len", Len(c2)>>
  <2>1. 1 \in 1 .. MacBlock /\ MacBlock \in 1 .. MacBlock
          /\ 2 * 1 <= MacBlock /\ ~ (2 * MacBlock <= MacBlock)
    BY <1>1
  <2> QED  BY <2>1 DEF Reads, Lengths
<1>3. P1 = P2
  <2>1. ~ P1 < P2
    <3>1. SUFFICES ASSUME P1 < P2 PROVE FALSE
      OBVIOUS
    <3>2. P1 + 1 \in 1 .. P2
      BY <1>1, <3>1
    <3>3. D[P1 + 1][1] = "byte"
      BY <3>2 DEF Reads
    <3> QED  BY <1>2, <3>3
  <2>2. ~ P2 < P1
    <3>1. SUFFICES ASSUME P2 < P1 PROVE FALSE
      OBVIOUS
    <3>2. P2 + 1 \in 1 .. P1
      BY <1>1, <3>1
    <3>3. D[P2 + 1][1] = "byte"
      BY <3>2 DEF Reads
    <3> QED  BY <1>2, <3>3
  <2> QED  BY <1>1, <2>1, <2>2
<1>4. Len(a1) = Len(a2) /\ Len(c1) = Len(c2) /\ g1 = g2
  <2> HIDE DEF P1, P2
  <2>1. /\ <<"len", Len(a1)>> = <<"len", Len(a2)>>
        /\ <<"len", Len(c1)>> = <<"len", Len(c2)>>
    BY <1>2, <1>3
  <2> QED  BY <2>1
<1>5. ASSUME NEW i \in 1 .. Len(a1)
      PROVE  a1[i] = a2[i]
  <2>1. <<"byte", a1[i]>> = <<"byte", a2[i]>>
    BY <1>4 DEF Reads
  <2> QED  BY <2>1
<1>6. ASSUME NEW i \in 1 .. Len(c1)
      PROVE  c1[i] = c2[i]
  <2>1. <<"byte", c1[i]>> = <<"byte", c2[i]>>
    BY <1>4 DEF Reads
  <2> QED  BY <2>1
<1>7. QED
  BY <1>4, <1>5, <1>6, SeqEqual DEF ByteString

\* What form_mac_data and the GHASH loop lay out can be read back, and only
\* behind a ciphertext that fills its last block does malloc's content show.
LEMMA MacDataReads ==
  ASSUME NEW heap, NEW a \in ByteString, NEW c \in ByteString
  PROVE  /\ \E z \in Nat : Reads(MacData(a, c, heap), a, c, Gap(Len(a)), z)
         /\ Len(c) % MacBlock # 0 =>
              \A other : MacData(a, c, other) = MacData(a, c, heap)
<1> DEFINE g == Gap(Len(a))
           z == IF Gap(Len(c)) = MacBlock THEN 0 ELSE Gap(Len(c))
           rest == Gap(Len(c)) - z
           written == Data(a) \o Zeros(g) \o Data(c) \o Zeros(z) \o Lengths(a, c)
           mac_data_len == Len(a) + g + Len(c) + Gap(Len(c)) + MacBlock
<1>1. Len(a) \in Nat /\ Len(c) \in Nat /\ MacBlock \in Nat
  BY AeadAssumption DEF ByteString
<1>2. /\ Gap(Len(a)) \in 1 .. MacBlock /\ Gap(Len(c)) \in 1 .. MacBlock
      /\ Gap(Len(c)) = MacBlock <=> Len(c) % MacBlock = 0
  BY <1>1, GapType
<1>3. g \in Nat /\ z \in Nat /\ rest \in Nat
  BY <1>1, <1>2
<1>4. Len(written) = End(a, c, g, z) + MacBlock
  <2> HIDE DEF g, z
  <2> QED  BY <1>3, ReadsWritten
<1>5. mac_data_len - Len(written) = rest
  <2> HIDE DEF written, g
  <2> QED  BY <1>1, <1>2, <1>3, <1>4 DEF End
<1>6. \A h : MacData(a, c, h) = written \o Uninitialised(h, rest)
  <2>1. \A h : MacData(a, c, h)
                 = written \o Uninitialised(h, mac_data_len - Len(written))
    BY DEF MacData
  <2> HIDE DEF written, mac_data_len, rest
  <2> QED  BY <2>1, <1>5
<1>7. Reads(MacData(a, c, heap), a, c, g, z)
  <2>1. Reads(written \o Uninitialised(heap, rest), a, c, g, z)
    <3> HIDE DEF g, z, rest
    <3> QED  BY <1>3, ReadsWritten
  <2> HIDE DEF written, g, z, rest
  <2> QED  BY <1>6, <2>1
<1>8. ASSUME Len(c) % MacBlock # 0, NEW other
      PROVE  MacData(a, c, other) = MacData(a, c, heap)
  <2>1. rest = 0
    BY <1>2, <1>8
  <2>2. Uninitialised(other, 0) = Uninitialised(heap, 0)
    BY DEF Uninitialised
  <2> HIDE DEF written, rest
  <2> QED  BY <1>6, <2>1, <2>2
<1>9. QED
  BY <1>3, <1>7, <1>8

LEMMA GhashDataReads ==
  ASSUME NEW a \in ByteString, NEW c \in ByteString
  PROVE  \E z \in Nat : Reads(GhashData(a, c), a, c, Gap(Len(a)) % MacBlock, z)
<1>1. Len(a) \in Nat /\ Len(c) \in Nat
  BY DEF ByteString
<1>2. Gap(Len(a)) % MacBlock \in Nat /\ Gap(Len(c)) % MacBlock \in Nat
  BY <1>1, GapType
<1>3. Reads(GhashData(a, c), a, c, Gap(Len(a)) % MacBlock, Gap(Len(c)) % MacBlock)
  BY <1>2, ReadsWritten DEF GhashData
<1>4. QED
  BY <1>2, <1>3

\* Equal tags are of the same packet: the ideal MAC and what is MAC'd.
LEMMA TagDetermines ==
  ASSUME NEW e1 \in Engines, NEW k1, NEW n1, NEW a1 \in ByteString,
         NEW c1 \in ByteString, NEW h1,
         NEW e2 \in Engines, NEW k2, NEW n2, NEW a2 \in ByteString,
         NEW c2 \in ByteString, NEW h2,
         Tag(e1, k1, n1, a1, c1, h1) = Tag(e2, k2, n2, a2, c2, h2)
  PROVE  e1 = e2 /\ k1 = k2 /\ n1 = n2 /\ a1 = a2 /\ c1 = c2
<1>1. e1 = e2 /\ k1 = k2 /\ n1 = n2
  BY DEF Tag
<1>2. Len(a1) \in Nat /\ Len(a2) \in Nat
  BY DEF ByteString
<1>3. CASE e1 = "AES_GCM"
  <2>1. GhashData(a1, c1) = GhashData(a2, c2)
    BY <1>1, <1>3 DEF Tag
  <2>2. PICK z1 \in Nat : Reads(GhashData(a1, c1), a1, c1, Gap(Len(a1)) % MacBlock, z1)
    BY GhashDataReads
  <2>3. PICK z2 \in Nat : Reads(GhashData(a1, c1), a2, c2, Gap(Len(a2)) % MacBlock, z2)
    BY <2>1, GhashDataReads
  <2>4. Gap(Len(a1)) % MacBlock \in Nat /\ Gap(Len(a2)) % MacBlock \in Nat
    BY <1>2, GapType
  <2>5. a1 = a2 /\ c1 = c2
    BY <2>2, <2>3, <2>4, Determined
  <2> QED  BY <1>1, <2>5
<1>4. CASE e1 # "AES_GCM"
  <2>1. MacData(a1, c1, h1) = MacData(a2, c2, h2)
    BY <1>1, <1>4 DEF Tag
  <2>2. PICK z1 \in Nat : Reads(MacData(a1, c1, h1), a1, c1, Gap(Len(a1)), z1)
    BY MacDataReads
  <2>3. PICK z2 \in Nat : Reads(MacData(a1, c1, h1), a2, c2, Gap(Len(a2)), z2)
    BY <2>1, MacDataReads
  <2>4. Gap(Len(a1)) \in Nat /\ Gap(Len(a2)) \in Nat
    <3>1. Gap(Len(a1)) \in 1 .. MacBlock /\ Gap(Len(a2)) \in 1 .. MacBlock
      BY <1>2, GapType
    <3> QED  BY <3>1, AeadAssumption
  <2>5. a1 = a2 /\ c1 = c2
    BY <2>2, <2>3, <2>4, Determined
  <2> QED  BY <1>1, <2>5
<1>5. QED
  BY <1>3, <1>4

(***************************************************************************)
(* The invariant: every packet on the wire is one the code seals, and what *)
(* was released is what packets stand for.  The bound on the length keeps  *)
(* the key stream long enough for every ciphertext that arrives.           *)
(***************************************************************************)
Genuine(s) ==
  /\ s.engine \in Engines /\ s.key \in Keys /\ s.nonce \in Nonces
  /\ s.aad \in Texts /\ s.text \in Texts /\ s.ct \in ByteString
  /\ Len(s.text) <= Len(s.ct) /\ Len(s.ct) <= MaxText + MaxExtra
  /\ \A i \in 1 .. Len(s.text) :
       s.ct[i] = (s.text[i] + Stream[<<s.key, s.nonce>>][i]) % 2
  /\ \E h : s.tag = Tag(s.engine, s.key, s.nonce, s.aad, s.ct, h)

Sealings == {Stands(s) : s \in sent}

IInv ==
  /\ TypeOK
  /\ \A s \in sent : Genuine(s)
  /\ released \subseteq Sealings

\* What is xored with the key stream is a text of the same length.
LEMMA CryptType ==
  ASSUME NEW key \in Keys, NEW nonce \in Nonces, NEW text \in ByteString,
         Len(text) <= MaxText + MaxExtra
  PROVE  /\ Crypt(key, nonce, text) \in ByteString
         /\ Len(Crypt(key, nonce, text)) = Len(text)
         /\ \A i \in 1 .. Len(text) :
              /\ text[i] \in 0 .. 1 /\ Stream[<<key, nonce>>][i] \in 0 .. 1
              /\ Crypt(key, nonce, text)[i]
                   = (text[i] + Stream[<<key, nonce>>][i]) % 2
<1>1. Len(text) \in Nat
  BY DEF ByteString
<1>2. \A i \in 1 .. Len(text) :
        text[i] \in 0 .. 1 /\ Stream[<<key, nonce>>][i] \in 0 .. 1
  <2> SUFFICES ASSUME NEW i \in 1 .. Len(text)
               PROVE  text[i] \in 0 .. 1 /\ Stream[<<key, nonce>>][i] \in 0 .. 1
    OBVIOUS
  <2>1. i \in 1 .. MaxText + MaxExtra
    BY <1>1, AeadAssumption
  <2> QED  BY <2>1, AeadAssumption DEF ByteString
<1>3. \A i \in 1 .. Len(text) :
        (text[i] + Stream[<<key, nonce>>][i]) % 2 \in 0 .. 1
  BY <1>2
<1>4. Crypt(key, nonce, text) \in [1 .. Len(text) -> 0 .. 1]
  BY <1>3 DEF Crypt
<1>5. Crypt(key, nonce, text) \in ByteString /\ Len(Crypt(key, nonce, text)) = Len(text)
  BY <1>1, <1>4 DEF ByteString
<1>6. \A i \in 1 .. Len(text) :
        Crypt(key, nonce, text)[i] = (text[i] + Stream[<<key, nonce>>][i]) % 2
  BY DEF Crypt
<1>7. QED
  BY <1>2, <1>5, <1>6

\* A ciphertext as both constructions make it: the text under the key stream,
\* with `extra' bytes of the caller's buffer behind it.
Wire(key, nonce, text, extra, stale) ==
  Crypt(key, nonce, text) \o [i \in 1 .. extra |-> stale]

LEMMA CiphertextType ==
  ASSUME NEW key \in Keys, NEW nonce \in Nonces, NEW text \in Texts,
         NEW extra \in 0 .. MaxExtra, NEW stale \in 0 .. 1
  PROVE  LET ct == Wire(key, nonce, text, extra, stale)
         IN  /\ ct \in ByteString /\ Len(text) <= Len(ct)
             /\ Len(ct) <= MaxText + MaxExtra
             /\ \A i \in 1 .. Len(text) :
                  ct[i] = (text[i] + Stream[<<key, nonce>>][i]) % 2
<1> DEFINE front == Crypt(key, nonce, text)
           back == [i \in 1 .. extra |-> stale]
<1>1. text \in ByteString /\ Len(text) \in Nat /\ Len(text) <= MaxText
  BY AeadAssumption DEF ByteString
<1>2. /\ front \in ByteString /\ Len(front) = Len(text)
      /\ \A i \in 1 .. Len(text) :
           front[i] = (text[i] + Stream[<<key, nonce>>][i]) % 2
  BY <1>1, CryptType, AeadAssumption
<1>3. back \in ByteString /\ Len(back) = extra /\ extra \in Nat
  <2>1. back \in [1 .. extra -> 0 .. 1] /\ extra \in Nat
    BY AeadAssumption
  <2> QED  BY <2>1 DEF ByteString
<1> HIDE DEF front, back
<1>4. /\ front \o back \in ByteString /\ Len(front \o back) = Len(text) + extra
      /\ \A i \in 1 .. Len(text) : (front \o back)[i] = front[i]
  <2>1. front \in Seq(0 .. 1) /\ back \in Seq(0 .. 1)
    BY <1>2, <1>3 DEF ByteString
  <2>2. /\ front \o back \in Seq(0 .. 1)
        /\ Len(front \o back) = Len(front) + Len(back)
        /\ \A i \in 1 .. Len(front) : (front \o back)[i] = front[i]
    BY <2>1, Concat
  <2> QED  BY <1>2, <1>3, <2>2 DEF ByteString
<1>5. /\ Len(text) <= Len(front \o back)
      /\ Len(front \o back) <= MaxText + MaxExtra
  BY <1>1, <1>3, <1>4, AeadAssumption
<1>6. Wire(key, nonce, text, extra, stale) = front \o back
  BY DEF front, back, Wire
<1>7. QED
  BY <1>2, <1>4, <1>5, <1>6

LEMMA StandsType ==
  ASSUME NEW s, Genuine(s)
  PROVE  Stands(s) \in [engine : Engines, key : Keys, nonce : Nonces,
                        aad : Texts, text : ByteString]
<1>1. Crypt(s.key, s.nonce, s.ct) \in ByteString
  BY CryptType DEF Genuine
<1>2. QED
  BY <1>1 DEF Genuine, Stands

(***************************************************************************)
(* The three ways a call ends keep it.                                     *)
(***************************************************************************)
LEMMA RejectKeeps ==
  ASSUME IInv, NEW engine, NEW op, NEW code \in Refusals, Reject(engine, op, code)
  PROVE  IInv'
BY DEF IInv, Reject, TypeOK, Sealings, Last

LEMMA SealKeeps ==
  ASSUME IInv, NEW engine, NEW key, NEW nonce, NEW aad, NEW text, NEW end,
         end.status \in Refusals \cup {"CRYPT_OKAY"},
         Okay(end) => Genuine(Sealed(engine, key, nonce, aad, text,
                                     end.out.ct, end.out.tag)),
         Seal(engine, key, nonce, aad, text, end)
  PROVE  IInv'
<1> DEFINE new == Sealed(engine, key, nonce, aad, text, end.out.ct, end.out.tag)
<1>1. /\ sent \subseteq sent'
      /\ \A s \in sent' : s \in sent \/ (Okay(end) /\ s = new)
      /\ plaintext' = plaintext /\ released' = released
      /\ call'.status = end.status
  <2> HIDE DEF new
  <2>1. sent' = IF Okay(end) THEN sent \cup {new} ELSE sent
    BY DEF Seal, new
  <2> QED  BY <2>1 DEF Seal, Last
<1>2. \A s \in sent' : Genuine(s)
  <2> HIDE DEF new
  <2>1. Okay(end) => Genuine(new)
    BY DEF new
  <2> QED  BY <1>1, <2>1 DEF IInv
<1>3. Sealings \subseteq Sealings'
  BY <1>1 DEF Sealings
<1>4. TypeOK'
  BY <1>1, <1>2 DEF TypeOK, IInv, Genuine
<1>5. QED
  BY <1>1, <1>2, <1>3, <1>4 DEF IInv

LEMMA OpenKeeps ==
  ASSUME IInv, NEW engine, NEW key, NEW nonce, NEW aad, NEW end,
         end.status \in Refusals \cup {"CRYPT_OKAY"},
         end.writes => end.out \in ByteString,
         Okay(end) => [engine |-> engine, key |-> key, nonce |-> nonce,
                       aad |-> aad, text |-> end.out] \in Sealings,
         Open(engine, key, nonce, aad, end)
  PROVE  IInv'
<1> DEFINE new == [engine |-> engine, key |-> key, nonce |-> nonce,
                   aad |-> aad, text |-> end.out]
<1>1. /\ sent' = sent
      /\ plaintext' = IF end.writes THEN end.out ELSE plaintext
      /\ released' = IF Okay(end) THEN released \cup {new} ELSE released
      /\ call'.status = end.status
  BY DEF Open, Last
<1>2. Sealings' = Sealings
  BY <1>1 DEF Sealings
<1>3. released' \subseteq Sealings
  <2> HIDE DEF new
  <2>1. Okay(end) => new \in Sealings
    BY DEF new
  <2> QED  BY <1>1, <2>1 DEF IInv
<1>4. \A m \in Sealings : m.engine \in Engines /\ m.text \in ByteString
  <2> SUFFICES ASSUME NEW s \in sent
               PROVE  Stands(s).engine \in Engines /\ Stands(s).text \in ByteString
    BY DEF Sealings
  <2>1. Genuine(s)
    BY DEF IInv
  <2> QED  BY <2>1, StandsType
<1>5. TypeOK'
  <2> HIDE DEF new
  <2>1. plaintext' \in ByteString
    BY <1>1 DEF IInv, TypeOK
  <2> QED  BY <1>1, <1>3, <1>4, <2>1 DEF IInv, TypeOK
<1>6. QED
  BY <1>1, <1>2, <1>3, <1>5 DEF IInv

(***************************************************************************)
(* The calls.                                                              *)
(***************************************************************************)
LEMMA ChachaSealed ==
  ASSUME NEW key \in Keys, NEW nonce \in Nonces, NEW aad \in Texts,
         NEW text \in Texts, NEW extra \in 0 .. MaxExtra, NEW stale \in 0 .. 1,
         NEW bad, NEW end \in ChachaSealOnce(key, nonce, aad, text, extra, stale, bad)
  PROVE  /\ end.status \in Refusals \cup {"CRYPT_OKAY"}
         /\ Okay(end) => Genuine(Sealed("chacha20_poly1305", key, nonce, aad, text,
                                        end.out.ct, end.out.tag))
<1> DEFINE ct == Wire(key, nonce, text, extra, stale)
           tag(h) == Tag("chacha20_poly1305", key, nonce, aad, ct, h)
<1>1. /\ ct \in ByteString /\ Len(text) <= Len(ct) /\ Len(ct) <= MaxText + MaxExtra
      /\ \A i \in 1 .. Len(text) :
           ct[i] = (text[i] + Stream[<<key, nonce>>][i]) % 2
  BY CiphertextType
<1>2. \/ end.status \in Refusals
      \/ \E h \in Heaps : end = [status |-> "CRYPT_OKAY",
                                 out |-> [ct |-> ct, tag |-> tag(h)],
                                 writes |-> TRUE]
  <2>1. CASE bad = "constant_len"
    BY <2>1 DEF ChachaSealOnce, Refused, Refusals
  <2>2. CASE bad = "aead_output_len"
    BY <2>2 DEF ChachaSealOnce, Refused, Refusals
  <2>3. CASE bad \notin {"constant_len", "aead_output_len"}
    <3>1. end \in Refused("CRYPT_COMPUTATION_ERROR")
                   \cup UNION {Done([ct |-> ct, tag |-> tag(h)]) : h \in Heaps}
      BY <2>3 DEF ChachaSealOnce, Wire
    <3> HIDE DEF ct, tag
    <3> QED  BY <3>1 DEF Refused, Done, Refusals
  <2> QED  BY <2>1, <2>2, <2>3
<1> HIDE DEF ct
<1>3. CASE end.status \in Refusals
  BY <1>3 DEF Okay, Refusals
<1>4. CASE \E h \in Heaps : end = [status |-> "CRYPT_OKAY",
                                   out |-> [ct |-> ct, tag |-> tag(h)],
                                   writes |-> TRUE]
  BY <1>1, <1>4 DEF Genuine, Sealed, Engines
<1>5. QED
  BY <1>2, <1>3, <1>4

LEMMA GcmSealed ==
  ASSUME NEW key \in Keys, NEW nonce \in Nonces, NEW aad \in Texts,
         NEW text \in Texts
  PROVE  LET ct == Crypt(key, nonce, text)
         IN  Genuine(Sealed("AES_GCM", key, nonce, aad, text, ct,
                            Tag("AES_GCM", key, nonce, aad, ct, "none")))
<1> DEFINE ct == Crypt(key, nonce, text)
<1>1. text \in ByteString /\ Len(text) \in Nat /\ Len(text) <= MaxText + MaxExtra
  BY AeadAssumption DEF ByteString
<1>2. /\ ct \in ByteString /\ Len(ct) = Len(text)
      /\ \A i \in 1 .. Len(text) :
           ct[i] = (text[i] + Stream[<<key, nonce>>][i]) % 2
  BY <1>1, CryptType
<1> HIDE DEF ct
<1>3. Genuine(Sealed("AES_GCM", key, nonce, aad, text, ct,
                     Tag("AES_GCM", key, nonce, aad, ct, "none")))
  BY <1>1, <1>2 DEF Genuine, Sealed, Engines
<1>4. QED
  BY <1>3 DEF ct

\* A tag that was on the wire verifies for its own packet only, and what that
\* decrypts to is what its packet stands for.
LEMMA Verifies ==
  ASSUME IInv, NEW s \in sent, NEW engine \in Engines, NEW key, NEW nonce,
         NEW aad \in Texts, NEW ct \in ByteString, NEW heap,
         Tag(engine, key, nonce, aad, ct, heap) = s.tag
  PROVE  [engine |-> engine, key |-> key, nonce |-> nonce, aad |-> aad,
          text |-> Crypt(key, nonce, ct)] \in Sealings
<1>1. Genuine(s)
  BY DEF IInv
<1>2. PICK h : s.tag = Tag(s.engine, s.key, s.nonce, s.aad, s.ct, h)
  BY <1>1 DEF Genuine
<1>3. /\ s.engine \in Engines /\ s.aad \in ByteString /\ s.ct \in ByteString
      /\ aad \in ByteString
  BY <1>1, AeadAssumption DEF Genuine, ByteString
<1>4. /\ engine = s.engine /\ key = s.key /\ nonce = s.nonce /\ aad = s.aad
      /\ ct = s.ct
  BY <1>2, <1>3, TagDetermines
<1>5. QED
  BY <1>4 DEF Sealings, Stands

\* Whatever text arrives is one the key stream covers.
LEMMA ArrivingType ==
  ASSUME IInv, NEW ct \in Texts \cup {x.ct : x \in sent},
         NEW key \in Keys, NEW nonce \in Nonces
  PROVE  ct \in ByteString /\ Crypt(key, nonce, ct) \in ByteString
<1>1. ct \in ByteString /\ Len(ct) <= MaxText + MaxExtra
  <2>1. CASE ct \in Texts
    BY <2>1, AeadAssumption DEF ByteString
  <2>2. CASE ct \in {x.ct : x \in sent}
    BY <2>2 DEF IInv, Genuine
  <2> QED  BY <2>1, <2>2
<1>2. QED
  BY <1>1, CryptType

LEMMA ChachaOpened ==
  ASSUME IInv, NEW s \in sent, NEW key \in Keys, NEW nonce \in Nonces,
         NEW aad \in Texts, NEW ct \in Texts \cup {x.ct : x \in sent},
         NEW end \in ChachaOpenOnce(key, nonce, aad, ct, s.tag)
  PROVE  /\ end.status \in Refusals \cup {"CRYPT_OKAY"}
         /\ end.writes => end.out \in ByteString
         /\ Okay(end) => [engine |-> "chacha20_poly1305", key |-> key,
                          nonce |-> nonce, aad |-> aad, text |-> end.out] \in Sealings
<1>1. ct \in ByteString /\ Crypt(key, nonce, ct) \in ByteString
  BY ArrivingType
<1>2. \/ end.status \in Refusals /\ ~ end.writes
      \/ \E h \in Heaps :
           /\ Tag("chacha20_poly1305", key, nonce, aad, ct, h) = s.tag
           /\ end = [status |-> "CRYPT_OKAY", out |-> Crypt(key, nonce, ct),
                     writes |-> TRUE]
  BY DEF ChachaOpenOnce, Refused, Done, Refusals
<1>3. CASE end.status \in Refusals /\ ~ end.writes
  BY <1>3 DEF Okay, Refusals
<1>4. CASE \E h \in Heaps :
             /\ Tag("chacha20_poly1305", key, nonce, aad, ct, h) = s.tag
             /\ end = [status |-> "CRYPT_OKAY", out |-> Crypt(key, nonce, ct),
                       writes |-> TRUE]
  <2>1. end.status = "CRYPT_OKAY" /\ end.out = Crypt(key, nonce, ct)
    BY <1>4
  <2>2. [engine |-> "chacha20_poly1305", key |-> key, nonce |-> nonce,
         aad |-> aad, text |-> Crypt(key, nonce, ct)] \in Sealings
    BY <1>1, <1>4, Verifies DEF Engines
  <2> QED  BY <1>1, <2>1, <2>2
<1>5. QED
  BY <1>2, <1>3, <1>4

LEMMA GcmOpened ==
  ASSUME IInv, NEW s \in sent, NEW key \in Keys, NEW nonce \in Nonces,
         NEW aad \in Texts, NEW ct \in Texts \cup {x.ct : x \in sent},
         NEW end \in GcmOpenOnce(key, nonce, aad, ct, s.tag)
  PROVE  /\ end.status \in Refusals \cup {"CRYPT_OKAY"}
         /\ end.writes => end.out \in ByteString
         /\ Okay(end) => [engine |-> "AES_GCM", key |-> key,
                          nonce |-> nonce, aad |-> aad, text |-> end.out] \in Sealings
<1>1. ct \in ByteString /\ Crypt(key, nonce, ct) \in ByteString
  BY ArrivingType
<1>2. CASE Tag("AES_GCM", key, nonce, aad, ct, "none") = s.tag
  <2>1. end.status = "CRYPT_OKAY" /\ end.out = Crypt(key, nonce, ct)
    BY <1>2 DEF GcmOpenOnce, Done
  <2>2. [engine |-> "AES_GCM", key |-> key, nonce |-> nonce,
         aad |-> aad, text |-> Crypt(key, nonce, ct)] \in Sealings
    BY <1>1, <1>2, Verifies DEF Engines
  <2> QED  BY <1>1, <2>1, <2>2
<1>3. CASE Tag("AES_GCM", key, nonce, aad, ct, "none") # s.tag
  BY <1>3 DEF GcmOpenOnce, Refused, Okay, Refusals
<1>4. QED
  BY <1>2, <1>3

Refusing ==
  \E engine \in Engines, op \in {"encrypt", "decrypt"}, code \in Refusals :
    Reject(engine, op, code)

\* What a call is, whichever engine and whatever the caller gets wrong.
LEMMA EncryptEnds ==
  ASSUME IInv, Encrypt
  PROVE  \/ Refusing
         \/ \E engine, key, nonce, aad, text, end :
              /\ end.status \in Refusals \cup {"CRYPT_OKAY"}
              /\ Okay(end) => Genuine(Sealed(engine, key, nonce, aad, text,
                                             end.out.ct, end.out.tag))
              /\ Seal(engine, key, nonce, aad, text, end)
<1>1. PICK key \in Keys, nonce \in Nonces, aad \in Texts, text \in Texts,
           bad \in BadSeal :
             \/ \E extra \in 0 .. MaxExtra, stale \in 0 .. 1 :
                  ChachaEncrypt(key, nonce, aad, text, extra, stale, bad)
             \/ GcmEncrypt(key, nonce, aad, text, bad)
  BY DEF Encrypt
<1>2. ASSUME NEW extra \in 0 .. MaxExtra, NEW stale \in 0 .. 1,
             ChachaEncrypt(key, nonce, aad, text, extra, stale, bad)
      PROVE  \/ Refusing
             \/ \E end \in ChachaSealOnce(key, nonce, aad, text, extra, stale, bad) :
                  Seal("chacha20_poly1305", key, nonce, aad, text, end)
  BY <1>2 DEF ChachaEncrypt, Refusing, Engines, Refusals
<1>3. ASSUME NEW extra \in 0 .. MaxExtra, NEW stale \in 0 .. 1,
             NEW end \in ChachaSealOnce(key, nonce, aad, text, extra, stale, bad)
      PROVE  /\ end.status \in Refusals \cup {"CRYPT_OKAY"}
             /\ Okay(end) => Genuine(Sealed("chacha20_poly1305", key, nonce, aad,
                                            text, end.out.ct, end.out.tag))
  BY <1>3, ChachaSealed
<1>4. ASSUME GcmEncrypt(key, nonce, aad, text, bad)
      PROVE  \/ Refusing
             \/ \E end :
                  /\ end.status = "CRYPT_OKAY"
                  /\ Genuine(Sealed("AES_GCM", key, nonce, aad, text,
                                    end.out.ct, end.out.tag))
                  /\ Seal("AES_GCM", key, nonce, aad, text, end)
  <2> DEFINE ct == Crypt(key, nonce, text)
             tag == Tag("AES_GCM", key, nonce, aad, ct, "none")
  <2>1. Genuine(Sealed("AES_GCM", key, nonce, aad, text, ct, tag))
    BY GcmSealed
  <2>2. \/ Refusing
        \/ \E end \in Done([ct |-> ct, tag |-> tag]) :
             Seal("AES_GCM", key, nonce, aad, text, end)
    BY <1>4 DEF GcmEncrypt, Refusing, Engines, Refusals
  <2> HIDE DEF ct, tag
  <2> QED  BY <2>1, <2>2 DEF Done
<1>5. QED
  BY <1>1, <1>2, <1>3, <1>4 DEF Okay

LEMMA DecryptEnds ==
  ASSUME IInv, Decrypt
  PROVE  \/ Refusing
         \/ \E engine, key, nonce, aad, end :
              /\ end.status \in Refusals \cup {"CRYPT_OKAY"}
              /\ end.writes => end.out \in ByteString
              /\ Okay(end) => [engine |-> engine, key |-> key, nonce |-> nonce,
                               aad |-> aad, text |-> end.out] \in Sealings
              /\ Open(engine, key, nonce, aad, end)
<1>1. PICK s \in sent, key \in Keys, nonce \in Nonces, aad \in Texts,
           ct \in Texts \cup {x.ct : x \in sent}, bad \in BadOpen :
             \/ ChachaDecrypt(key, nonce, aad, ct, s.tag, bad)
             \/ GcmDecrypt(key, nonce, aad, ct, s.tag, bad)
  BY DEF Decrypt
<1>2. ASSUME ChachaDecrypt(key, nonce, aad, ct, s.tag, bad)
      PROVE  \/ Refusing
             \/ \E end \in ChachaOpenOnce(key, nonce, aad, ct, s.tag) :
                  Open("chacha20_poly1305", key, nonce, aad, end)
  BY <1>2 DEF ChachaDecrypt, Refusing, Engines, Refusals
<1>3. ASSUME GcmDecrypt(key, nonce, aad, ct, s.tag, bad)
      PROVE  \/ Refusing
             \/ \E end \in GcmOpenOnce(key, nonce, aad, ct, s.tag) :
                  Open("AES_GCM", key, nonce, aad, end)
  BY <1>3 DEF GcmDecrypt, Refusing, Engines, Refusals
<1>4. CASE ChachaDecrypt(key, nonce, aad, ct, s.tag, bad)
  BY <1>2, <1>4, ChachaOpened
<1>5. CASE GcmDecrypt(key, nonce, aad, ct, s.tag, bad)
  BY <1>3, <1>5, GcmOpened
<1>6. QED
  BY <1>1, <1>4, <1>5

LEMMA Initially ==
  Init => IInv
<1> SUFFICES ASSUME Init PROVE IInv
  OBVIOUS
<1>1. <<>> \in ByteString
  BY DEF ByteString
<1>2. TypeOK
  BY <1>1 DEF Init, TypeOK, Last
<1>3. QED
  BY <1>2 DEF Init, IInv

LEMMA Preserved ==
  IInv /\ [Next]_vars => IInv'
<1> SUFFICES ASSUME IInv, [Next]_vars PROVE IInv'
  OBVIOUS
<1>1. CASE Encrypt
  BY <1>1, EncryptEnds, RejectKeeps, SealKeeps DEF Refusing
<1>2. CASE Decrypt
  BY <1>2, DecryptEnds, RejectKeeps, OpenKeeps DEF Refusing
<1>3. CASE UNCHANGED vars
  BY <1>3 DEF vars, IInv, TypeOK, Sealings
<1>4. QED
  BY <1>1, <1>2, <1>3 DEF Next

\* Adding the key stream twice takes it away again, modulo two.
LEMMA Twice ==
  ASSUME NEW x \in 0 .. 1, NEW k \in 0 .. 1
  PROVE  (((x + k) % 2) + k) % 2 = x
<1>1. x \in {0, 1} /\ k \in {0, 1}
  OBVIOUS
<1>2. QED
  BY <1>1

\* Every state that satisfies the invariant opens what it has sealed.
LEMMA GenuineOpens ==
  IInv => OpensToMessage
<1> SUFFICES ASSUME IInv, NEW s \in sent
             PROVE  /\ s.engine = "AES_GCM" \/ Len(s.ct) % MacBlock # 0 =>
                         \A h \in Heaps :
                           Tag(s.engine, s.key, s.nonce, s.aad, s.ct, h) = s.tag
                    /\ SubSeq(Crypt(s.key, s.nonce, s.ct), 1, Len(s.text)) = s.text
  BY DEF OpensToMessage
<1> DEFINE back == Crypt(s.key, s.nonce, s.ct)
<1>1. Genuine(s)
  BY DEF IInv
<1>2. /\ s.aad \in ByteString /\ s.text \in ByteString /\ s.ct \in ByteString
      /\ Len(s.text) \in Nat /\ Len(s.ct) \in Nat /\ Len(s.text) <= Len(s.ct)
  BY <1>1, AeadAssumption DEF Genuine, ByteString
<1>3. ASSUME s.engine = "AES_GCM" \/ Len(s.ct) % MacBlock # 0, NEW h
      PROVE  Tag(s.engine, s.key, s.nonce, s.aad, s.ct, h) = s.tag
  <2>1. PICK h0 : s.tag = Tag(s.engine, s.key, s.nonce, s.aad, s.ct, h0)
    BY <1>1 DEF Genuine
  <2>2. s.engine # "AES_GCM" => MacData(s.aad, s.ct, h) = MacData(s.aad, s.ct, h0)
    BY <1>2, <1>3, MacDataReads
  <2> QED  BY <2>1, <2>2 DEF Tag
<1>4. /\ back \in ByteString /\ Len(back) = Len(s.ct)
      /\ \A i \in 1 .. Len(s.ct) :
           /\ s.ct[i] \in 0 .. 1 /\ Stream[<<s.key, s.nonce>>][i] \in 0 .. 1
           /\ back[i] = (s.ct[i] + Stream[<<s.key, s.nonce>>][i]) % 2
  BY <1>1, CryptType DEF Genuine
<1>5. \A i \in 1 .. Len(s.text) : back[i] = s.text[i]
  <2> SUFFICES ASSUME NEW i \in 1 .. Len(s.text) PROVE back[i] = s.text[i]
    OBVIOUS
  <2> DEFINE k == Stream[<<s.key, s.nonce>>][i]
  <2>1. i \in 1 .. Len(s.ct) /\ s.text[i] \in 0 .. 1
    BY <1>2 DEF ByteString
  <2>2. k \in 0 .. 1 /\ back[i] = (s.ct[i] + k) % 2
    BY <1>4, <2>1
  <2>3. s.ct[i] = (s.text[i] + k) % 2
    BY <1>1 DEF Genuine
  <2> HIDE DEF k, back
  <2> QED  BY <2>1, <2>2, <2>3, Twice
<1> HIDE DEF back
<1>6. SubSeq(back, 1, Len(s.text)) = s.text
  <2>1. /\ SubSeq(back, 1, Len(s.text)) \in Seq(0 .. 1)
        /\ Len(SubSeq(back, 1, Len(s.text))) = Len(s.text)
        /\ \A i \in 1 .. Len(s.text) : SubSeq(back, 1, Len(s.text))[i] = back[i]
    BY <1>2, <1>4 DEF ByteString
  <2> QED  BY <1>2, <1>5, <2>1, SeqEqual DEF ByteString
<1>7. QED
  BY <1>3, <1>6 DEF back

(***************************************************************************)
(* The theorems.                                                           *)
(***************************************************************************)

\* The invariant holds in every reachable state of the two constructions.
THEOREM Invariance ==
  Spec => []IInv
<1>1. QED
  BY Initially, Preserved, PTL DEF Spec

\* crypto_api.c: every call ends with a status of the API, and bytes go out.
THEOREM TypeCorrect ==
  Spec => []TypeOK
<1>1. IInv => TypeOK
  BY DEF IInv
<1>2. QED
  BY <1>1, Invariance, PTL

\* chacha20_poly1305.c, aes.c: a sealed packet decrypts to its message, and
\* the receiver computes its tag, unless the MAC ran into malloc's bytes.
THEOREM Opens ==
  Spec => []OpensToMessage
<1>1. QED
  BY GenuineOpens, Invariance, PTL

\* aes.c, chacha20_poly1305.c: decrypt writes plaintext only after the tag.
THEOREM Verified ==
  Spec => WritesOnlyVerified
<1>1. ASSUME IInv, [Next]_vars
      PROVE  [plaintext' # plaintext => call'.status = "CRYPT_OKAY"]_vars
  <2>1. ASSUME NEW engine, NEW op, NEW code, Reject(engine, op, code)
        PROVE  plaintext' = plaintext
    BY <2>1 DEF Reject
  <2>2. CASE Encrypt
    BY <1>1, <2>1, <2>2, EncryptEnds DEF Seal, Refusing
  <2>3. CASE Decrypt
    <3>1. PICK s \in sent, key \in Keys, nonce \in Nonces, aad \in Texts,
               ct \in Texts \cup {x.ct : x \in sent}, bad \in BadOpen :
                 \/ ChachaDecrypt(key, nonce, aad, ct, s.tag, bad)
                 \/ GcmDecrypt(key, nonce, aad, ct, s.tag, bad)
      BY <2>3 DEF Decrypt
    <3>2. \A end \in ChachaOpenOnce(key, nonce, aad, ct, s.tag) :
            end.writes => end.status = "CRYPT_OKAY"
      BY DEF ChachaOpenOnce, Refused, Done
    <3>3. \A end \in GcmOpenOnce(key, nonce, aad, ct, s.tag) :
            end.writes => end.status = "CRYPT_OKAY"
      BY DEF GcmOpenOnce, Refused, Done
    <3>4. ASSUME NEW engine, NEW end, end.writes => end.status = "CRYPT_OKAY",
                 Open(engine, key, nonce, aad, end)
          PROVE  plaintext' # plaintext => call'.status = "CRYPT_OKAY"
      BY <3>4 DEF Open, Last
    <3>5. CASE ChachaDecrypt(key, nonce, aad, ct, s.tag, bad)
      BY <2>1, <3>2, <3>4, <3>5 DEF ChachaDecrypt
    <3>6. CASE GcmDecrypt(key, nonce, aad, ct, s.tag, bad)
      BY <2>1, <3>3, <3>4, <3>6 DEF GcmDecrypt
    <3> QED  BY <3>1, <3>5, <3>6
  <2>4. CASE UNCHANGED vars
    BY <2>4
  <2> QED  BY <1>1, <2>2, <2>3, <2>4 DEF Next
<1>2. QED
  BY <1>1, Invariance, PTL DEF Spec, WritesOnlyVerified

\* ChaCha20-Poly1305 and AES-GCM keep the promise of authenticated encryption.
THEOREM Implements ==
  Spec => ImplementsAead
<1> DEFINE Message == [engine : Engines, key : Keys, nonce : Nonces,
                       aad : Texts, text : ByteString]
           M == {Stands(s) : s \in sent}
<1>1. Init => Abstract!Init
  BY DEF Init, Abstract!Init
<1>2. ASSUME IInv, IInv', [Next]_vars
      PROVE  [Abstract!Seal \/ Abstract!Release]_<<M, released>>
  <2>1. M = Sealings /\ M' = Sealings'
    BY DEF Sealings
  <2>2. M' \subseteq Message
    <3> SUFFICES ASSUME NEW s \in sent' PROVE Stands(s) \in Message
      BY <2>1 DEF Sealings
    <3>1. Genuine(s)
      BY <1>2 DEF IInv
    <3> QED  BY <3>1, StandsType
  <2>3. released' \subseteq M'
    BY <1>2, <2>1 DEF IInv
  <2>4. \/ sent \subseteq sent' /\ released' = released
        \/ sent' = sent /\ released \subseteq released'
    <3>1. ASSUME NEW engine, NEW op, NEW code, Reject(engine, op, code)
          PROVE  sent' = sent /\ released' = released
      BY <3>1 DEF Reject
    <3>2. CASE Encrypt
      BY <1>2, <3>1, <3>2, EncryptEnds DEF Seal, Refusing
    <3>3. CASE Decrypt
      BY <1>2, <3>1, <3>3, DecryptEnds DEF Open, Refusing
    <3>4. CASE UNCHANGED vars
      BY <3>4 DEF vars
    <3> QED  BY <1>2, <3>2, <3>3, <3>4 DEF Next
  <2>5. CASE sent \subseteq sent' /\ released' = released
    <3>1. M \subseteq M'
      BY <2>1, <2>5 DEF Sealings
    <3>2. Abstract!Seal
      BY <2>2, <2>5, <3>1 DEF Abstract!Seal
    <3> QED  BY <3>2
  <2>6. CASE sent' = sent /\ released \subseteq released'
    <3>1. M' = M
      BY <2>1, <2>6 DEF Sealings
    <3>2. Abstract!Release
      BY <2>3, <2>6, <3>1 DEF Abstract!Release
    <3> QED  BY <3>2
  <2> QED  BY <2>4, <2>5, <2>6
<1>3. QED
  BY <1>1, <1>2, Invariance, PTL DEF Spec, ImplementsAead, Abstract!Spec
=============================================================================
