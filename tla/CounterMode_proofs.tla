------------------------- MODULE CounterMode_proofs -------------------------
(***************************************************************************)
(* CounterMode's properties for every width of the counter, every size of  *)
(* a key stream block and every limit on lengths that CounterAssumption    *)
(* admits.  The inductive invariant says in closed form which counter each *)
(* block was masked with (LoopInv), where the index of AES-CTR stands      *)
(* (IndexInv), and what a decryption has in common with the encryption     *)
(* before it (CallInv, SentInv).                                           *)
(***************************************************************************)
EXTENDS CounterMode, TLAPS

\* The i-th counter from s on, going around after Last.
Nth(s, i) == IF s + i - 1 <= Last THEN s + i - 1 ELSE s + i - 1 - (Last + 1)

\* The counter of a text's first block.
Start(engine, first) == IF engine = "gcm" THEN Inc(first) ELSE first

\* What a call knows of its arguments and of the text sent.
Fits(engine, decrypt, first, len, in, out) ==
  /\ engine \in {"packet", "gcm"} => first = 1
  /\ ~ decrypt => in = len
  /\ engine # "aes_ctr" => in = len /\ out >= len
  /\ decrypt => /\ sent # NoText
                /\ engine = sent.engine /\ first = sent.first
                /\ len >= sent.len
  /\ decrypt /\ engine = "aes_ctr" => out = len /\ in = sent.len + Block

CallInv ==
  call # NoCall =>
    Fits(call.engine, call.decrypt, call.first, call.len, call.in, call.out)

SentInv ==
  sent # NoText =>
    /\ sent.engine \in {"packet", "gcm"} => sent.first = 1
    /\ sent.engine # "aes_ctr" => sent.out >= sent.len
    /\ \A i \in 1 .. Len(sent.stream) :
         sent.stream[i] = Nth(Start(sent.engine, sent.first), i)
    /\ Len(sent.stream) > 0 => Block * (Len(sent.stream) - 1) < sent.len

LoopInv ==
  call # NoCall =>
    /\ Len(taken) <= Last - 1
    /\ \A i \in 1 .. Len(taken) :
         taken[i] = Nth(Start(call.engine, call.first), i)
    /\ done <= call.len
    /\ done <= Block * Len(taken)
    /\ Len(taken) > 0 => Block * (Len(taken) - 1) < done
    /\ done < call.len =>
         /\ Block * Len(taken) = done
         /\ Taken = Nth(Start(call.engine, call.first), Len(taken) + 1)

\* The largest int that the indices of AES-CTR may reach in a text's `bytes'
\* bytes and a block, and where the loop stands below it.
IntLimit(decrypt) == IF decrypt THEN IntMax + 1 ELSE IntMax

IndexInv ==
  /\ pc = "undefined" => /\ call # NoCall /\ call.engine = "aes_ctr"
                         /\ call.len + Block > IntLimit(call.decrypt)
  /\ (call # NoCall /\ call.engine = "aes_ctr" /\ pc # "undefined") =>
       done + Block <= IntLimit(call.decrypt)

IInv == TypeOK /\ CallInv /\ SentInv /\ LoopInv /\ IndexInv

-----------------------------------------------------------------------------
(* Counters *)

\* Inc of a counter is a counter, and Nth is Inc repeated.
LEMMA IncCounts ==
  ASSUME NEW c \in Counters
  PROVE  Inc(c) \in Counters
BY CounterAssumption DEF Inc, Counters

LEMMA NthSteps ==
  ASSUME NEW s \in Counters, NEW n \in 0 .. Last
  PROVE  /\ Nth(s, 1) = s
         /\ Nth(s, n + 1) \in Counters
         /\ n + 1 <= Last => Inc(Nth(s, n + 1)) = Nth(s, n + 2)
BY CounterAssumption DEF Inc, Nth, Counters

\* Counters only repeat after Last + 1 of them.
LEMMA NthInjective ==
  ASSUME NEW s \in Counters, NEW i \in 1 .. Last + 1, NEW j \in 1 .. Last + 1,
         Nth(s, i) = Nth(s, j)
  PROVE  i = j
BY CounterAssumption DEF Nth, Counters

\* Products with the same positive factor compare like the other factors.
LEMMA Cancel ==
  ASSUME NEW b \in Nat \ {0}, NEW n \in Int, NEW m \in Int
  PROVE  /\ b * n <= b * m => n <= m
         /\ b * n < b * m => n < m
<1>1. ASSUME n > m PROVE b * n >= b * m + b
  <2>1. b * (n - m) >= b
    BY <1>1, SMT
  <2>2. b * (n - m) = b * n - b * m
    BY SMT
  <2> QED
    BY <2>1, <2>2
<1>2. ASSUME n >= m PROVE b * n >= b * m
  <2>1. b * (n - m) >= 0
    BY <1>2, SMT
  <2>2. b * (n - m) = b * n - b * m
    BY SMT
  <2> QED
    BY <2>1, <2>2
<1> QED
  BY <1>1, <1>2

-----------------------------------------------------------------------------
(* The inductive invariant *)

LEMMA InitHolds == Init => IInv
BY CounterAssumption
   DEF Init, IInv, TypeOK, CallInv, SentInv, LoopInv, IndexInv, NoCall, NoText, Counters,
       Lengths

LEMMA CallRecord ==
  ASSUME NEW engine \in Engines, NEW decrypt \in BOOLEAN,
         NEW first \in Counters, NEW len \in Lengths, NEW in \in Lengths,
         NEW out \in Lengths, Call(engine, decrypt, first, len, in, out)
  PROVE  /\ call' \in CallRecords
         /\ call' # NoCall
         /\ call'.engine = engine /\ call'.decrypt = decrypt
         /\ call'.first = first /\ call'.len = len
         /\ call'.in = in /\ call'.out = out
<1>1. call'.engine # NoCall.engine
  BY DEF Call, NoCall, Engines
<1> QED
  BY <1>1 DEF Call, CallRecords

LEMMA CallKeeps ==
  ASSUME IInv,
         NEW engine \in Engines, NEW decrypt \in BOOLEAN,
         NEW first \in Counters, NEW len \in Lengths, NEW in \in Lengths,
         NEW out \in Lengths, Call(engine, decrypt, first, len, in, out),
         Fits(engine, decrypt, first, len, in, out)
  PROVE  IInv'
<1>1. /\ call' \in CallRecords
      /\ call' # NoCall
      /\ call'.engine = engine /\ call'.decrypt = decrypt
      /\ call'.first = first /\ call'.len = len
      /\ call'.in = in /\ call'.out = out
  BY CallRecord
<1>2. TypeOK'
  BY <1>1, CounterAssumption DEF IInv, TypeOK, Call, Counters, Lengths
<1>3. CallInv'
  BY <1>1 DEF CallInv, Call, Fits
<1>4. SentInv'
  BY DEF IInv, SentInv, Call
<1>5. LoopInv'
  <2>1. /\ ctr' = first /\ done' = 0 /\ Len(taken') = 0
    BY DEF Call
  <2>2. Taken' = Start(engine, first)
    BY <1>1, <2>1 DEF Taken, Start
  <2>3. Nth(Start(engine, first), 1) = Start(engine, first)
    BY IncCounts, NthSteps, CounterAssumption DEF Start
  <2>4. len \in Nat /\ Block * 0 = 0
    BY CounterAssumption DEF Lengths
  <2>5. 0 <= Last - 1
    BY CounterAssumption
  <2> QED
    BY <1>1, <2>1, <2>2, <2>3, <2>4, <2>5, CounterAssumption DEF LoopInv
<1>6. IndexInv'
  <2>1. /\ pc' = "crypt" /\ done' = 0
    BY DEF Call
  <2> QED
    BY <1>1, <2>1, CounterAssumption DEF IndexInv, IntLimit
<1> QED
  BY <1>2, <1>3, <1>4, <1>5, <1>6 DEF IInv

\* Each call passes CallKeeps what it has in common with the text sent.
LEMMA EncryptKeeps ==
  ASSUME IInv,
         ChachaEncrypt \/ PacketEncrypt \/ AesCtrEncrypt \/ GcmEncrypt
  PROVE  IInv'
<1> USE DEF Engines, Fits
<1>0. 1 \in Counters
  BY CounterAssumption DEF Counters
<1>1. CASE ChachaEncrypt
  BY <1>1, CallKeeps DEF ChachaEncrypt
<1>2. CASE PacketEncrypt
  BY <1>0, <1>2, CallKeeps DEF PacketEncrypt
<1>3. CASE AesCtrEncrypt
  BY <1>3, CallKeeps DEF AesCtrEncrypt
<1>4. CASE GcmEncrypt
  BY <1>0, <1>4, CallKeeps DEF GcmEncrypt
<1> QED
  BY <1>1, <1>2, <1>3, <1>4

LEMMA DecryptKeeps ==
  ASSUME IInv,
         ChachaDecrypt \/ PacketDecrypt \/ AesCtrDecrypt \/ GcmDecrypt
  PROVE  IInv'
<1>0. 1 \in Counters
  BY CounterAssumption DEF Counters
<1>1. /\ sent # NoText
      /\ sent.first \in Counters /\ sent.len \in Lengths /\ sent.out \in Lengths
      /\ sent.engine \in {"packet", "gcm"} => sent.first = 1
      /\ sent.engine # "aes_ctr" => sent.out >= sent.len
  <2>1. sent.engine \in Engines
    BY DEF Engines, ChachaDecrypt, PacketDecrypt, AesCtrDecrypt, GcmDecrypt
  <2>2. NoText.engine \notin Engines
    BY DEF Engines, NoText
  <2> QED
    BY <2>1, <2>2 DEF IInv, TypeOK, SentInv
<1>2. CASE ChachaDecrypt
  <2>1. PICK out \in Lengths :
          /\ out >= sent.len
          /\ Call("chacha20", TRUE, sent.first, sent.len, sent.len, out)
    BY <1>2 DEF ChachaDecrypt
  <2>2. Fits("chacha20", TRUE, sent.first, sent.len, sent.len, out)
    BY <1>1, <1>2, <2>1 DEF Fits, ChachaDecrypt, Lengths
  <2> QED
    BY <1>1, <2>1, <2>2, CallKeeps DEF Engines
<1>3. CASE PacketDecrypt
  <2>1. PICK out \in Lengths :
          /\ out >= sent.out
          /\ Call("packet", TRUE, 1, sent.out, sent.out, out)
    BY <1>3 DEF PacketDecrypt
  <2>2. Fits("packet", TRUE, 1, sent.out, sent.out, out)
    BY <1>1, <1>3, <2>1 DEF Fits, PacketDecrypt, Lengths
  <2> QED
    BY <1>0, <1>1, <2>1, <2>2, CallKeeps DEF Engines
<1>4. CASE AesCtrDecrypt
  <2>1. PICK out \in Lengths :
          /\ out >= sent.len
          /\ Call("aes_ctr", TRUE, sent.first, out, sent.len + Block, out)
    BY <1>4 DEF AesCtrDecrypt
  <2>2. Fits("aes_ctr", TRUE, sent.first, out, sent.len + Block, out)
    BY <1>1, <1>4, <2>1 DEF Fits, AesCtrDecrypt, Lengths
  <2>3. sent.len + Block \in Lengths
    BY <1>1, <1>4, CounterAssumption DEF AesCtrDecrypt, Lengths
  <2> QED
    BY <1>1, <2>1, <2>2, <2>3, CallKeeps DEF Engines
<1>5. CASE GcmDecrypt
  <2>1. PICK out \in Lengths :
          /\ out >= sent.len
          /\ Call("gcm", TRUE, 1, sent.len, sent.len, out)
    BY <1>5 DEF GcmDecrypt
  <2>2. Fits("gcm", TRUE, 1, sent.len, sent.len, out)
    BY <1>1, <1>5, <2>1 DEF Fits, GcmDecrypt, Lengths
  <2> QED
    BY <1>0, <1>1, <2>1, <2>2, CallKeeps DEF Engines
<1> QED
  BY <1>2, <1>3, <1>4, <1>5

-----------------------------------------------------------------------------
(* The loops *)

\* In the middle of a text there is room for another counter: the text has
\* fewer blocks than CounterAssumption says there are counters.
LEMMA RoomForOne ==
  ASSUME IInv, pc = "crypt", done < call.len
  PROVE  /\ call \in CallRecords /\ call # NoCall
         /\ Len(taken) \in Nat /\ Len(taken) + 1 <= Last - 1
         /\ Taken = Nth(Start(call.engine, call.first), Len(taken) + 1)
         /\ Start(call.engine, call.first) \in Counters
         /\ Taken \in Counters
<1>1. call \in CallRecords /\ call # NoCall
  BY DEF IInv, TypeOK
<1>2. Len(taken) \in Nat
  BY DEF IInv, TypeOK
<1>3. /\ Block * Len(taken) = done
      /\ Taken = Nth(Start(call.engine, call.first), Len(taken) + 1)
  BY <1>1 DEF IInv, LoopInv
<1>4. Block * Len(taken) < Block * (Last - 1)
  <2>1. /\ done \in Nat /\ call.len \in Nat /\ call.len <= MaxText
    BY <1>1 DEF IInv, TypeOK, CallRecords, Lengths
  <2>2. Block * (Last - 1) \in Int
    BY CounterAssumption
  <2> QED
    BY <1>3, <2>1, <2>2, CounterAssumption
<1>5. Len(taken) < Last - 1
  BY <1>2, <1>4, Cancel, CounterAssumption
<1>6. Start(call.engine, call.first) \in Counters
  BY <1>1, IncCounts DEF Start, CallRecords
<1>7. Taken \in Counters
  BY IncCounts DEF Taken, IInv, TypeOK
<1> QED
  BY <1>1, <1>2, <1>3, <1>5, <1>6, <1>7, CounterAssumption

\* What both loop bodies append.
LEMMA TakenExtends ==
  ASSUME IInv, pc = "crypt", done < call.len,
         taken' = Append(taken, Taken), call' = call
  PROVE  /\ taken' \in Seq(Counters)
         /\ Len(taken') = Len(taken) + 1
         /\ \A i \in 1 .. Len(taken') :
              taken'[i] = Nth(Start(call'.engine, call'.first), i)
<1>1. taken \in Seq(Counters) /\ Taken \in Counters
  BY RoomForOne DEF IInv, TypeOK
<1>2. Taken = Nth(Start(call.engine, call.first), Len(taken) + 1)
  BY RoomForOne
<1>3. \A i \in 1 .. Len(taken) :
        taken[i] = Nth(Start(call.engine, call.first), i)
  BY RoomForOne DEF IInv, LoopInv
<1> QED
  BY <1>1, <1>2, <1>3

LEMMA FullBlockKeeps == IInv /\ FullBlock => IInv'
<1> SUFFICES ASSUME IInv, FullBlock PROVE IInv'
  OBVIOUS
<1> DEFINE n == Len(taken)
<1>1. /\ call \in CallRecords /\ call # NoCall /\ pc = "crypt"
      /\ done \in Nat /\ call.len \in Nat /\ done + Block <= call.len
  BY CounterAssumption DEF FullBlock, IInv, TypeOK, CallRecords, Lengths
<1>2. done < call.len
  BY <1>1, CounterAssumption
<1>3. /\ n \in Nat /\ n + 1 <= Last - 1
      /\ Taken = Nth(Start(call.engine, call.first), n + 1)
      /\ Start(call.engine, call.first) \in Counters
  BY <1>1, <1>2, RoomForOne
<1>4. /\ taken' \in Seq(Counters) /\ Len(taken') = n + 1
      /\ \A i \in 1 .. Len(taken') :
           taken'[i] = Nth(Start(call'.engine, call'.first), i)
  BY <1>1, <1>2, TakenExtends DEF FullBlock
<1>5. /\ done' = done + Block /\ ctr' = Inc(ctr)
      /\ pc' = pc /\ call' = call /\ sent' = sent
  BY DEF FullBlock
<1>6. TypeOK'
  BY <1>1, <1>4, <1>5, IncCounts, CounterAssumption DEF IInv, TypeOK
<1>7. CallInv' /\ SentInv'
  BY <1>5 DEF IInv, CallInv, SentInv, Fits
<1>8. LoopInv'
  <2>1. Block * n = done
    BY <1>1, <1>2 DEF IInv, LoopInv
  <2>2. Block * (n + 1) = done + Block
    BY <1>3, <2>1, CounterAssumption
  <2>3. Taken' = Inc(Taken)
    BY <1>5 DEF Taken
  <2>4. Taken' = Nth(Start(call'.engine, call'.first), n + 2)
    BY <1>3, <1>5, <2>3, NthSteps, CounterAssumption
  <2>5. /\ Len(taken') <= Last - 1
        /\ done' <= call'.len
        /\ done' = Block * Len(taken')
    BY <1>1, <1>3, <1>4, <1>5, <2>2
  <2>6. Block * (Len(taken') - 1) < done'
    BY <1>1, <1>3, <1>4, <1>5, <2>1, CounterAssumption
  <2>7. Len(taken') + 1 = n + 2
    BY <1>3, <1>4
  <2> QED
    BY <1>1, <1>4, <1>5, <2>4, <2>5, <2>6, <2>7, CounterAssumption DEF LoopInv
<1>9. IndexInv'
  <2> SUFFICES ASSUME call.engine = "aes_ctr"
               PROVE  done' + Block <= IntLimit(call.decrypt)
    BY <1>1, <1>5 DEF IndexInv
  <2>1. LargestIndex(Block) <= IntMax
    BY <1>1, CounterAssumption DEF FullBlock, Overflows, LargestIndex
  <2> QED
    BY <1>1, <1>5, <2>1, CounterAssumption DEF LargestIndex, IntLimit
<1> QED
  BY <1>6, <1>7, <1>8, <1>9 DEF IInv

LEMMA PartialBlockKeeps == IInv /\ PartialBlock => IInv'
<1> SUFFICES ASSUME IInv, PartialBlock PROVE IInv'
  OBVIOUS
<1> DEFINE n == Len(taken)
<1>1. /\ call \in CallRecords /\ call # NoCall /\ pc = "crypt"
      /\ done \in Nat /\ call.len \in Nat
      /\ done < call.len /\ call.len < done + Block
  BY CounterAssumption DEF PartialBlock, IInv, TypeOK, CallRecords, Lengths
<1>2. n \in Nat /\ n + 1 <= Last - 1
  BY <1>1, RoomForOne
<1>3. /\ taken' \in Seq(Counters) /\ Len(taken') = n + 1
      /\ \A i \in 1 .. Len(taken') :
           taken'[i] = Nth(Start(call'.engine, call'.first), i)
  BY <1>1, TakenExtends DEF PartialBlock
<1>4. /\ done' = call.len /\ pc' = pc /\ call' = call /\ sent' = sent
  BY DEF PartialBlock
<1>5. ctr' \in Counters
  BY IncCounts DEF PartialBlock, IInv, TypeOK
<1>6. TypeOK'
  BY <1>1, <1>3, <1>4, <1>5 DEF IInv, TypeOK
<1>7. CallInv' /\ SentInv'
  BY <1>4 DEF IInv, CallInv, SentInv, Fits
<1>8. LoopInv'
  <2>1. Block * n = done
    BY <1>1 DEF IInv, LoopInv
  <2>2. Block * (n + 1) = done + Block
    BY <1>2, <2>1, CounterAssumption
  <2>3. /\ Len(taken') <= Last - 1
        /\ done' <= call'.len /\ ~ (done' < call'.len)
        /\ done' <= Block * Len(taken')
    BY <1>1, <1>2, <1>3, <1>4, <2>2, CounterAssumption
  <2>4. Block * (Len(taken') - 1) < done'
    BY <1>1, <1>2, <1>3, <1>4, <2>1, CounterAssumption
  <2> QED
    BY <1>3, <2>3, <2>4 DEF LoopInv
<1>9. IndexInv'
  <2> SUFFICES ASSUME call.engine = "aes_ctr"
               PROVE  done' + Block <= IntLimit(call.decrypt)
    BY <1>1, <1>4 DEF IndexInv
  <2>1. LargestIndex(call.len - done) <= IntMax
    BY <1>1, CounterAssumption DEF PartialBlock, Overflows, LargestIndex
  <2>2. call.len + Block - 1 <= IntMax
    BY <1>1, <2>1, CounterAssumption DEF LargestIndex
  <2>3. call.len + Block # IntMax + 1
    <3> SUFFICES ASSUME call.len + Block = IntMax + 1 PROVE FALSE
      OBVIOUS
    <3>1. PICK k \in 0 .. IntMax + 1 : IntMax + 1 = Block * k
      BY CounterAssumption
    <3>2. Block * n = done
      BY <1>1 DEF IInv, LoopInv
    <3>3. /\ Block * (n + 1) = done + Block
          /\ Block * (n + 2) = done + Block + Block
      BY <1>2, <3>2, CounterAssumption
    <3>4. /\ Block * (n + 1) < Block * k /\ Block * k < Block * (n + 2)
      BY <1>1, <3>1, <3>3, CounterAssumption
    <3>5. k \in Int /\ n + 1 \in Int /\ n + 2 \in Int
      BY <1>2, <3>1
    <3>6. n + 1 < k /\ k < n + 2
      BY <3>4, <3>5, Cancel, CounterAssumption
    <3> QED
      BY <3>5, <3>6, <1>2
  <2> QED
    BY <1>1, <1>4, <2>2, <2>3, CounterAssumption DEF IntLimit
<1> QED
  BY <1>6, <1>7, <1>8, <1>9 DEF IInv

\* The state an overflow leaves is one where the text was too long for it.
LEMMA IndexOverflowKeeps == IInv /\ IndexOverflow => IInv'
<1> SUFFICES ASSUME IInv, IndexOverflow PROVE IInv'
  OBVIOUS
<1>1. /\ call \in CallRecords /\ call # NoCall /\ pc' = "undefined"
      /\ UNCHANGED <<call, ctr, done, taken, sent>>
  BY DEF IndexOverflow, IInv, TypeOK
<1>2. done \in Nat /\ call.len \in Nat
  BY <1>1 DEF IInv, TypeOK, CallRecords, Lengths
<1>3. TypeOK'
  BY <1>1 DEF IInv, TypeOK
<1>4. CallInv' /\ SentInv' /\ LoopInv'
  BY <1>1 DEF IInv, CallInv, SentInv, LoopInv, Fits, Taken
<1>5. /\ call.engine = "aes_ctr"
      /\ call.len + Block > IntLimit(call.decrypt)
  BY <1>2, CounterAssumption
     DEF IndexOverflow, Overflows, LargestIndex, IntLimit
<1> QED
  BY <1>1, <1>3, <1>4, <1>5 DEF IInv, IndexInv

LEMMA ReturnKeeps == IInv /\ Return => IInv'
<1> SUFFICES ASSUME IInv, Return PROVE IInv'
  OBVIOUS
<1>1. /\ call \in CallRecords /\ call # NoCall /\ done = call.len
      /\ UNCHANGED <<call, ctr, done, taken>> /\ pc' = "idle"
  BY DEF Return, IInv, TypeOK
<1>2. LoopInv' /\ IndexInv'
  BY <1>1 DEF IInv, LoopInv, IndexInv, Return, Taken
<1>3. CASE call.decrypt
  <2>1. sent' = sent
    BY <1>3 DEF Return
  <2>2. TypeOK'
    BY <1>1, <2>1 DEF IInv, TypeOK
  <2>3. CallInv' /\ SentInv'
    BY <1>1, <2>1 DEF IInv, CallInv, SentInv, Fits
  <2> QED
    BY <1>2, <2>2, <2>3 DEF IInv
<1>4. CASE ~ call.decrypt
  <2>1. /\ sent' = [engine |-> call.engine, first |-> call.first,
                    len |-> call.len, out |-> call.out, stream |-> taken]
        /\ sent'.engine = call.engine /\ sent'.first = call.first
        /\ sent'.len = call.len /\ sent'.out = call.out
        /\ sent'.stream = taken
    BY <1>4 DEF Return
  <2>2. TypeOK'
    BY <1>1, <2>1 DEF IInv, TypeOK, CallRecords
  <2>3. CallInv'
    BY <1>1, <1>4 DEF IInv, CallInv, Fits
  <2>4. SentInv'
    BY <1>1, <1>4, <2>1 DEF IInv, CallInv, Fits, SentInv, LoopInv
  <2> QED
    BY <1>2, <2>2, <2>3, <2>4 DEF IInv
<1> QED
  BY <1>3, <1>4

LEMMA Inductive == IInv /\ [Next]_vars => IInv'
<1>1. ASSUME IInv, UNCHANGED vars PROVE IInv'
  BY <1>1
     DEF vars, IInv, TypeOK, CallInv, SentInv, LoopInv, IndexInv, Fits, Taken
<1> QED
  BY <1>1, EncryptKeeps, DecryptKeeps, FullBlockKeeps, PartialBlockKeeps,
     IndexOverflowKeeps, ReturnKeeps DEF Next, Undefined

LEMMA Invariant == Spec => []IInv
BY InitHolds, Inductive, PTL DEF Spec

-----------------------------------------------------------------------------
(* The properties *)

\* Type correctness: counters stay within their width and loops within the
\* text, for every width and block size.
THEOREM TypeCorrect == Spec => []TypeOK
<1>1. IInv => TypeOK
  BY DEF IInv
<1> QED
  BY <1>1, Invariant, PTL

\* The counters of one text are all different, whatever the counter started
\* from: as long as lengths obey CounterAssumption, no text is masked twice
\* with the same key stream block.
THEOREM NoRepetition == Spec => []NoBlockTwice
<1>1. ASSUME IInv PROVE NoBlockTwice
  <2>1. CASE call = NoCall
    <3>1. SUFFICES taken = <<>>
      BY <3>1 DEF NoBlockTwice
    <3> QED
      BY <1>1, <2>1 DEF IInv, TypeOK
  <2>2. CASE call # NoCall
    <3>1. /\ Len(taken) \in Nat /\ Len(taken) <= Last - 1
          /\ Start(call.engine, call.first) \in Counters
          /\ \A i \in 1 .. Len(taken) :
               taken[i] = Nth(Start(call.engine, call.first), i)
      BY <1>1, <2>2, IncCounts DEF IInv, TypeOK, LoopInv, CallRecords, Start
    <3> SUFFICES ASSUME NEW i \in 1 .. Len(taken), NEW j \in 1 .. Len(taken),
                        taken[i] = taken[j]
                 PROVE  i = j
      BY DEF NoBlockTwice
    <3>2. i \in 1 .. Last + 1 /\ j \in 1 .. Last + 1
      BY <3>1, CounterAssumption
    <3> QED
      BY <3>1, <3>2, NthInjective
  <2> QED
    BY <2>1, <2>2
<1> QED
  BY <1>1, Invariant, PTL

\* The blocks behind the Poly1305 key, the hash subkey and the tag of GCM are
\* never part of a text's key stream.
THEOREM ReservedKept == Spec => []ReservedUntouched
<1>1. ASSUME IInv PROVE ReservedUntouched
  <2>2. CASE call # NoCall
    <3>1. /\ Len(taken) \in Nat /\ Len(taken) <= Last - 1
          /\ call.engine \in {"packet", "gcm"} => call.first = 1
          /\ \A i \in 1 .. Len(taken) :
               taken[i] = Nth(Start(call.engine, call.first), i)
      BY <1>1, <2>2 DEF IInv, TypeOK, LoopInv, CallInv, Fits
    <3> SUFFICES ASSUME NEW i \in 1 .. Len(taken)
                 PROVE  taken[i] \notin Reserved(call.engine)
      BY DEF ReservedUntouched
    <3>2. i \in 1 .. Last - 1
      BY <3>1, CounterAssumption
    <3>3. CASE call.engine = "packet"
      <4>1. taken[i] = i
        BY <3>1, <3>2, <3>3, CounterAssumption DEF Nth, Start
      <4> QED
        BY <3>2, <3>3, <4>1, CounterAssumption DEF Reserved
    <3>4. CASE call.engine = "gcm"
      <4>1. taken[i] = i + 1
        BY <3>1, <3>2, <3>4, CounterAssumption DEF Nth, Start, Inc
      <4> QED
        BY <3>2, <3>4, <4>1, CounterAssumption DEF Reserved
    <3>5. CASE call.engine \notin {"packet", "gcm"}
      BY <3>5 DEF Reserved
    <3> QED
      BY <3>3, <3>4, <3>5
  <2>1. CASE call = NoCall
    <3>1. taken = <<>>
      BY <1>1, <2>1 DEF IInv, TypeOK
    <3> QED
      BY <3>1 DEF ReservedUntouched
  <2> QED
    BY <2>1, <2>2
<1> QED
  BY <1>1, Invariant, PTL

\* The loop of each decryption function makes the key stream that the loop
\* of its encryption function made, so that masking twice gives the text.
THEOREM RoundTrip == Spec => []DecryptsSent
<1>1. ASSUME IInv PROVE DecryptsSent
  <2> SUFFICES ASSUME call # NoCall, call.decrypt
               PROVE  /\ \A i \in 1 .. Len(taken) :
                           i <= Len(sent.stream) => taken[i] = sent.stream[i]
                      /\ done = call.len => Len(taken) >= Len(sent.stream)
    BY DEF DecryptsSent
  <2>1. /\ sent # NoText /\ call.engine = sent.engine
        /\ call.first = sent.first /\ call.len >= sent.len
    BY <1>1 DEF IInv, CallInv, Fits
  <2>2. /\ Len(taken) \in Nat /\ Len(sent.stream) \in Nat
        /\ sent.len \in Nat /\ call.len \in Nat
    BY <1>1, <2>1 DEF IInv, TypeOK, CallRecords, Lengths
  <2>3. \A i \in 1 .. Len(taken) :
          i <= Len(sent.stream) => taken[i] = sent.stream[i]
    BY <1>1, <2>1, <2>2 DEF IInv, LoopInv, SentInv
  <2>4. ASSUME done = call.len PROVE Len(taken) >= Len(sent.stream)
    <3>1. CASE Len(sent.stream) = 0
      BY <2>2, <3>1
    <3>2. CASE Len(sent.stream) > 0
      <4>1. /\ Block * (Len(sent.stream) - 1) < sent.len
            /\ call.len <= Block * Len(taken)
        BY <1>1, <2>1, <2>4, <3>2 DEF IInv, SentInv, LoopInv
      <4>0. /\ Block * (Len(sent.stream) - 1) \in Int
            /\ Block * Len(taken) \in Int
        BY <2>2, CounterAssumption
      <4>2. Block * (Len(sent.stream) - 1) < Block * Len(taken)
        BY <2>1, <2>2, <4>0, <4>1
      <4>3. Len(sent.stream) - 1 < Len(taken)
        BY <2>2, <4>2, Cancel, CounterAssumption
      <4> QED
        BY <2>2, <4>3
    <3> QED
      BY <2>2, <3>1, <3>2
  <2> QED
    BY <2>3, <2>4
<1> QED
  BY <1>1, Invariant, PTL

\* A call that the checks of crypto_api.c let pass stays within its buffers,
\* except AES-CTR's in exactly the cases of StaysInBuffers, of which the overflow
\* of its index is met by every text too long for it, and by no other.
THEOREM BuffersRespected == Spec => []StaysInBuffers
<1>1. ASSUME IInv PROVE StaysInBuffers
  <2> SUFFICES ASSUME call # NoCall, done = call.len \/ pc = "undefined"
               PROVE  (pc # "undefined" /\ OutPos <= call.out /\ InPos <= call.in) <=>
                        (call.engine = "aes_ctr" =>
                           IF call.decrypt
                             THEN call.len = sent.len /\ call.len + Block <= IntMax + 1
                             ELSE call.out >= call.len + Block
                                    /\ call.len + Block <= IntMax)
    BY DEF StaysInBuffers
  <2>1. /\ call.len \in Nat /\ call.in \in Nat /\ call.out \in Nat
        /\ call.decrypt \in BOOLEAN /\ Block \in Nat /\ IntMax \in Nat
    BY <1>1, CounterAssumption DEF IInv, TypeOK, CallRecords, Lengths
  <2>2. Fits(call.engine, call.decrypt, call.first, call.len, call.in, call.out)
    BY <1>1 DEF IInv, CallInv
  <2>3. CASE pc = "undefined"
    <3>1. /\ call.engine = "aes_ctr"
          /\ call.len + Block > IntLimit(call.decrypt)
      BY <1>1, <2>3 DEF IInv, IndexInv
    <3> QED
      BY <2>1, <2>3, <3>1 DEF IntLimit
  <2>4. CASE pc # "undefined" /\ call.engine # "aes_ctr"
    BY <2>1, <2>2, <2>4 DEF Fits, OutPos, InPos, Prefix
  <2>5. CASE pc # "undefined" /\ call.engine = "aes_ctr"
    <3>1. done = call.len /\ call.len + Block <= IntLimit(call.decrypt)
      BY <1>1, <2>5 DEF IInv, IndexInv
    <3>2. CASE ~ call.decrypt
      BY <2>1, <2>2, <2>5, <3>1, <3>2 DEF Fits, OutPos, InPos, Prefix, IntLimit
    <3>3. CASE call.decrypt
      <4>1. sent.len \in Nat /\ call.len >= sent.len
        BY <1>1, <2>2, <3>3 DEF IInv, TypeOK, Fits, Lengths
      <4>2. call.out = call.len /\ call.in = sent.len + Block
        BY <2>2, <2>5, <3>3 DEF Fits
      <4>3. OutPos = call.len /\ InPos = call.len + Block
        BY <2>1, <2>5, <3>1, <3>3 DEF OutPos, InPos, Prefix
      <4>4. call.len + Block <= IntMax + 1
        BY <3>1, <3>3 DEF IntLimit
      <4> QED
        BY <2>1, <2>5, <3>3, <4>1, <4>2, <4>3, <4>4
    <3> QED
      BY <2>1, <3>2, <3>3
  <2> QED
    BY <2>3, <2>4, <2>5
<1> QED
  BY <1>1, Invariant, PTL
=============================================================================
