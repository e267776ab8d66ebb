------------------------------ MODULE ChaCha20 ------------------------------
(***************************************************************************)
(* The state of chacha20.c, sixteen words counted from 1, and the key      *)
(* stream block it makes, on hosts of both byte orders.                    *)
(***************************************************************************)
EXTENDS Integers, Sequences

LOCAL W == INSTANCE Words WITH Width <- 32
LOCAL INSTANCE SequencesExt

CONSTANT sigma   \* the four constant words of chacha20_init

\* A sequence of bytes as memory counted from 0.
LOCAL Memory(bytes) == [n \in 0 .. Len(bytes) - 1 |-> bytes[n + 1]]

LoadedWords(bytes, host) ==
  [n \in 1 .. Len(bytes) \div 4 |->
     W!ToLittleEndian(W!Load(Memory(bytes), n - 1, host), host)]

\* chacha20_init, then what chacha20_crypt does before its loops.
chacha20_state(key, counter, nonce, host) ==
  sigma \o LoadedWords(key, host) \o <<counter>> \o LoadedWords(nonce, host)

Incremented(state) == [state EXCEPT ![13] = W!Plus(@, W!OfNumber(1))]

-----------------------------------------------------------------------------
\* One of the four lines of QUARTERROUND: (x) += (y); (z) ^= (x); turn z.
Line(s, x, y, z, by) ==
  LET sum == W!Plus(s[x], s[y])
  IN  [s EXCEPT ![x] = sum, ![z] = W!RotateLeft(W!SymDiff(@, sum), by)]

\* chacha20_quarter_round, of the four indices in q
quarter_round(s, q) ==
  Line(Line(Line(Line(s, q[1], q[2], q[4], 16), q[3], q[4], q[2], 12),
            q[1], q[2], q[4], 8), q[3], q[4], q[2], 7)

inner_block(s) ==
  FoldLeft(quarter_round, s,
           <<<<1, 5, 9, 13>>, <<2, 6, 10, 14>>, <<3, 7, 11, 15>>, <<4, 8, 12, 16>>,
             <<1, 6, 11, 16>>, <<2, 7, 12, 13>>, <<3, 8, 9, 14>>, <<4, 5, 10, 15>>>>)

\* The end of chacha20_block: 64 bytes of key stream.
Serialized(state, mixed, host) ==
  FlattenSeq([n \in 1 .. 16 |->
    W!Stored(W!ToLittleEndian(W!Plus(mixed[n], state[n]), host), host)])
=============================================================================
