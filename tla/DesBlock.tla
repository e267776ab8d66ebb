------------------------------ MODULE DesBlock ------------------------------
(***************************************************************************)
(* One block through des.c and back: DES_init or TDES_init, then every     *)
(* round of DES_encrypt_block and DES_decrypt_block in the order in which  *)
(* DES and TDES call them.                                                 *)
(*                                                                         *)
(* A number is the set of its one bits, counted from 1 at the most         *)
(* significant bit as the tables of the standard do, so that xor is        *)
(* SymDiff.  A block is the 64 bit number that the program loads from      *)
(* memory.  The numbers that it is ORed into are 0: callers clear them.    *)
(***************************************************************************)
EXTENDS Integers, Sequences, FiniteSetsExt

CONSTANTS
  IP, IP_1,      \* [1 .. 64 -> 1 .. 64]
  E,             \* [1 .. 48 -> 1 .. 32]
  P,             \* [1 .. 32 -> 1 .. 32]
  PC1,           \* [1 .. 56 -> 1 .. 64]
  PC2,           \* [1 .. 48 -> 1 .. 56]
  S_BOX,         \* [0 .. 7 -> [0 .. 3 -> [0 .. 15 -> 0 .. 15]]]
  shift_amounts, \* [0 .. 15 -> 1 .. 2]
  DesJobs        \* [keys, text]: one key for DES, three for TDES

Half == SUBSET (1 .. 32)
DesBlocks == SUBSET (1 .. 64)
NumSteps == 16

ASSUME DesAssumption ==
  /\ IP \in [1 .. 64 -> 1 .. 64] /\ IP_1 \in [1 .. 64 -> 1 .. 64]
  /\ \A n \in 1 .. 64 : IP[IP_1[n]] = n /\ IP_1[IP[n]] = n
  /\ DOMAIN P = 1 .. 32
  /\ \A t \in DesJobs : /\ t.text \in DesBlocks
                        /\ t.keys \in Seq(DesBlocks) /\ Len(t.keys) \in {1, 3}

VARIABLES
  task,
  layout,     \* which array, if any, the stack has right behind which
  phase,      \* "init", "in", "rounds", "done"
  subkeys,    \* the contexts' subkeys, by key and round
  pass,       \* which call of DES_encrypt_block or DES_decrypt_block
  step,       \* its loop variable
  left_half, right_half,
  block,      \* what the call reads, then what it writes
  ciphertext,
  seen        \* history: the halves of each pass at each step

desVars == <<task, layout, phase, subkeys, pass, step, left_half, right_half,
             block, ciphertext, seen>>

-----------------------------------------------------------------------------
\* Mutant: bits go one place too far to the left.
PermuteOffByOne(x, table) == {n - 1 : n \in {k \in DOMAIN table : table[k] \in x}}

permute(x, table) == {n \in DOMAIN table : table[n] \in x}

\* LE64TOBE64, and reverse_byte_order over eight bytes
SwapBytes(x) ==
  {n \in 1 .. 64 : 8 * (7 - ((n - 1) \div 8)) + ((n - 1) % 8) + 1 \in x}

HighHalf(x) == {n \in 1 .. 32 : n \in x}
LowHalf(x) == {n \in 1 .. 32 : n + 32 \in x}
Joined(high, low) ==
  {n \in 1 .. 64 : IF n <= 32 THEN n \in high ELSE n - 32 \in low}

(* Keys *)

\* A 28 bit number turned to the left.
TurnedLeft(x, by) == {n \in 1 .. 28 : ((n - 1 + by) % 28) + 1 \in x}

key_schedule(x) ==
  LET halves[r \in 0 .. 15] ==
        TurnedLeft(IF r = 0 THEN x ELSE halves[r - 1], shift_amounts[r])
  IN  halves

key_expansion(key) ==
  LET key_56 == permute(key, PC1)
      left_keys == key_schedule({n \in 1 .. 28 : n \in key_56})
      right_keys == key_schedule({n \in 1 .. 28 : n + 28 \in key_56})
  IN  [r \in 0 .. 15 |->
         permute(left_keys[r] \cup {n + 28 : n \in right_keys[r]}, PC2)]

(* The round function *)

Bit(b, weight) == IF b THEN weight ELSE 0

\* The four bits that box n makes of its six, as positions 1 to 4.
s_box_lookup(n, x) ==
  LET at(k) == 6 * n + k \in x
      row == Bit(at(1), 2) + Bit(at(6), 1)
      col == Bit(at(2), 8) + Bit(at(3), 4) + Bit(at(4), 2) + Bit(at(5), 1)
  IN  {k \in 1 .. 4 : (S_BOX[n][row][col] \div 2 ^ (4 - k)) % 2 = 1}

feistel(x, key) ==
  LET right_expanded == SymDiff(permute(x, E), key)
      res_before_perm ==
        UNION {{4 * n + k : k \in s_box_lookup(n, right_expanded)} : n \in 0 .. 7}
  IN  permute(res_before_perm, P)

-----------------------------------------------------------------------------
Zeros == [n \in 0 .. NumSteps |-> {}]

Call(op, key) == [op |-> op, key |-> key]

\* DES_encrypt_block and DES_decrypt_block, or the three calls of
\* TDES_encrypt_block and the three of TDES_decrypt_block
Calls ==
  IF Len(task.keys) = 1 THEN <<Call("E", 1), Call("D", 1)>>
  ELSE <<Call("E", 1), Call("D", 2), Call("E", 3),
         Call("D", 1), Call("E", 2), Call("D", 3)>>

Op == Calls[pass].op

DesInit ==
  /\ task \in DesJobs
  /\ layout \in {"apart", "left behind right", "right behind left"}
  /\ phase = "init"
  /\ subkeys = [k \in DOMAIN task.keys |-> [r \in 0 .. 15 |-> {}]]
  /\ pass = 1 /\ step = 0
  /\ left_half = Zeros /\ right_half = Zeros
  /\ block = task.text /\ ciphertext = {}
  /\ seen = [p \in 1 .. 6 |-> [n \in 0 .. NumSteps |-> <<{}, {}>>]]

\* DES_init, TDES_init
ExpandKeys ==
  /\ phase = "init"
  /\ subkeys' = [k \in DOMAIN task.keys |-> key_expansion(task.keys[k])]
  /\ phase' = "in"
  /\ UNCHANGED <<task, layout, pass, step, left_half, right_half, block,
                 ciphertext, seen>>

\* The halves in the order that makes both calls one network: the half that is
\* mixed, then the half that is fed to feistel.
Halves == IF Op = "E" THEN <<left_half, right_half>>
                      ELSE <<right_half, left_half>>

\* Up to the loop of DES_encrypt_block or DES_decrypt_block
LoadBlock ==
  /\ phase = "in"
  /\ LET block_out == permute(SwapBytes(block), IP)
         high == [Zeros EXCEPT ![0] = HighHalf(block_out)]
         low == [Zeros EXCEPT ![0] = LowHalf(block_out)]
     IN  /\ left_half' = IF Op = "E" THEN high ELSE low
         /\ right_half' = IF Op = "E" THEN low ELSE high
         /\ seen' = [seen EXCEPT ![pass] =
                       [@ EXCEPT ![0] = <<high[0], low[0]>>]]
  /\ step' = 0
  /\ phase' = "rounds"
  /\ UNCHANGED <<task, layout, subkeys, pass, block, ciphertext>>

\* Mutant: decryption takes the keys in the order of encryption.
SameKeyOrder == subkeys[Calls[pass].key][step]

RoundKey ==
  subkeys[Calls[pass].key][IF Op = "E" THEN step ELSE 15 - step]

\* The last call of feistel writes the four bytes behind its array.
Overruns ==
  /\ step = NumSteps - 1
  /\ layout = IF Op = "E" THEN "left behind right" ELSE "right behind left"

(***************************************************************************)
(* DES_transform.  permute writes its 32 bits as a number of 64: the next  *)
(* word of the array becomes 0, and after the last round the word that is  *)
(* behind the array.                                                       *)
(***************************************************************************)
DES_transform ==
  /\ phase = "rounds" /\ step < NumSteps
  /\ LET mixed == Halves[1]
         fed == Halves[2]
         out == SymDiff(mixed[step], feistel(fed[step], RoundKey))
         kept == [n \in 0 .. NumSteps |->
                    IF n = step + 1 THEN fed[step]
                    ELSE IF n = 0 /\ Overruns THEN {} ELSE mixed[n]]
         written == [n \in 0 .. NumSteps |->
                       IF n = step + 1 THEN out
                       ELSE IF n = step + 2 THEN {} ELSE fed[n]]
     IN  /\ left_half' = IF Op = "E" THEN kept ELSE written
         /\ right_half' = IF Op = "E" THEN written ELSE kept
         /\ seen' = [seen EXCEPT ![pass] =
                       [@ EXCEPT ![step + 1] = <<fed[step], out>>]]
  /\ step' = step + 1
  /\ UNCHANGED <<task, layout, phase, subkeys, pass, block, ciphertext>>

\* Mutant: the halves are put together as they are after the last round.
StoreUnswapped ==
  /\ phase = "rounds" /\ step = NumSteps
  /\ block' = SwapBytes(permute(Joined(Halves[1][NumSteps],
                                       Halves[2][NumSteps]), IP_1))
  /\ ciphertext' = IF 2 * pass = Len(Calls) THEN block' ELSE ciphertext
  /\ IF pass = Len(Calls)
       THEN phase' = "done" /\ UNCHANGED pass
       ELSE phase' = "in" /\ pass' = pass + 1
  /\ UNCHANGED <<task, layout, subkeys, step, left_half, right_half, seen>>

\* The end of DES_encrypt_block or DES_decrypt_block, and the call of the next
StoreBlock ==
  /\ phase = "rounds" /\ step = NumSteps
  /\ block' = SwapBytes(permute(Joined(Halves[2][NumSteps],
                                       Halves[1][NumSteps]), IP_1))
  /\ ciphertext' = IF 2 * pass = Len(Calls) THEN block' ELSE ciphertext
  /\ IF pass = Len(Calls)
       THEN phase' = "done" /\ UNCHANGED pass
       ELSE phase' = "in" /\ pass' = pass + 1
  /\ UNCHANGED <<task, layout, subkeys, step, left_half, right_half, seen>>

\* The program ends.
DesDone == phase = "done" /\ UNCHANGED desVars

DesNext == ExpandKeys \/ LoadBlock \/ DES_transform \/ StoreBlock \/ DesDone

-----------------------------------------------------------------------------
(***************************************************************************)
(* Properties                                                              *)
(***************************************************************************)

\* The arrays keep their type and the loop its bounds.
DesTypeOK ==
  /\ task \in DesJobs /\ phase \in {"init", "in", "rounds", "done"}
  /\ pass \in 1 .. Len(Calls) /\ step \in 0 .. NumSteps
  /\ left_half \in [0 .. NumSteps -> Half]
  /\ right_half \in [0 .. NumSteps -> Half]
  /\ block \in DesBlocks /\ ciphertext \in DesBlocks
  /\ seen \in [1 .. 6 -> [0 .. NumSteps -> Half \X Half]]

\* The keys read the same backwards: all that TDES_decrypt_block can undo.
KeysMirror == Len(task.keys) = 3 => task.keys[1] = task.keys[3]

\* With such keys, step n of a decrypting pass has the two halves, swapped,
\* that its encrypting pass had n steps before its end, whatever array the
\* 64 bit store of feistel runs into: the word that it clears is dead.
RetracesSteps ==
  LET mirror == Len(Calls) + 1 - pass
  IN  (KeysMirror /\ phase = "rounds" /\ mirror < pass) =>
        /\ Halves[1][step] = seen[mirror][NumSteps - step][2]
        /\ Halves[2][step] = seen[mirror][NumSteps - step][1]

\* With such keys the text comes back.
DesRoundTrip == (phase = "done" /\ KeysMirror) => block = task.text

\* What the tests of cipher_test.c expect of decryption, for any three keys.
DecryptionReturnsText == phase = "done" => block = task.text
=============================================================================
