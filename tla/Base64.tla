------------------------------- MODULE Base64 -------------------------------
(***************************************************************************)
(* base64_encode of src/src/zmq_relay.cpp, statement by statement: one     *)
(* step per byte, per character and per '='. A character is its place in   *)
(* the alphabet, and '=' is 64. The 32-bit int val is shifted left for     *)
(* every byte and never cleared, so that it overflows, and is negative for *)
(* half of its values, from the fourth byte on.                            *)
(***************************************************************************)
EXTENDS Integers, Sequences, SequencesExt

CONSTANTS
  Byte,       \* the bytes
  MaxLength   \* the longest input

ASSUME Base64Assumption ==
  /\ Byte \subseteq 0..255
  /\ MaxLength \in Nat

VARIABLES
  at,      \* the statement
  data,    \* the bytes
  i,       \* how many of them the loop has taken
  val,     \* the bits, the last of them lowest
  valb,    \* how many bits are not encoded yet, less six
  result   \* the text

vars == <<at, data, i, val, valb, result>>

Pad == 64

Init ==
  /\ at = "for"
  /\ data \in BoundedSeq(Byte, MaxLength)
  /\ i = 0
  /\ val = 0
  /\ valb = -6
  /\ result = <<>>

\* v << 8, in 32 bits: the highest eight are lost, and what is then the highest
\* is the sign.
ShiftLeft(v) ==
  LET low == v % 2^24
  IN  IF low >= 2^23 THEN (low - 2^24) * 256 ELSE low * 256

\* v >> n, which keeps the sign.
ShiftRight(v, n) == v \div 2^n

\* A slip PendingBits detects: a val of eight bits.
AddByteNarrow(v, c) == c

\* (val << 8) + c
AddByte(v, c) == ShiftLeft(v) + c

Take ==
  /\ at = "for"
  /\ i < Len(data)
  /\ val' = AddByte(val, data[i + 1])
  /\ valb' = valb + 8
  /\ i' = i + 1
  /\ at' = "while"
  /\ UNCHANGED <<data, result>>

Emit ==
  /\ at = "while"
  /\ valb >= 0
  /\ result' = Append(result, ShiftRight(val, valb) % 64)
  /\ valb' = valb - 6
  /\ UNCHANGED <<at, data, i, val>>

Emitted ==
  /\ at = "while"
  /\ valb < 0
  /\ at' = "for"
  /\ UNCHANGED <<data, i, val, valb, result>>

\* A slip EncodesAll detects: the last bits are not moved to the left.
RestUnshifted(v, n) == v % 64

\* The bits that are left, with zeros behind them.
Rest(v, n) == ShiftRight(ShiftLeft(v), n + 8) % 64

TakeRest ==
  /\ at = "for"
  /\ i = Len(data)
  /\ result' = IF valb > -6 THEN Append(result, Rest(val, valb)) ELSE result
  /\ at' = "pad"
  /\ UNCHANGED <<data, i, val, valb>>

Fill ==
  /\ at = "pad"
  /\ Len(result) % 4 # 0
  /\ result' = Append(result, Pad)
  /\ UNCHANGED <<at, data, i, val, valb>>

Return ==
  /\ at = "pad"
  /\ Len(result) % 4 = 0
  /\ at' = "done"
  /\ UNCHANGED <<data, i, val, valb, result>>

Returned ==
  /\ at = "done"
  /\ UNCHANGED vars

Next == Take \/ Emit \/ Emitted \/ TakeRest \/ Fill \/ Return \/ Returned

Spec == Init /\ [][Next]_vars

(***************************************************************************)
(* The encoding, as RFC 4648 has it: three bytes at a time are 24 bits,    *)
(* and these are four characters of six bits.  Behind the last byte there  *)
(* are zeros, and a character with nothing but those is a '='.             *)
(***************************************************************************)

Octet(bytes, n) == IF n \in 1..Len(bytes) THEN bytes[n] ELSE 0

\* The 24 bits of group g, the first being 0.
Group(bytes, g) ==
  2^16 * Octet(bytes, 3 * g + 1) + 2^8 * Octet(bytes, 3 * g + 2) + Octet(bytes, 3 * g + 3)

\* Six bits of it, of character c of 0..3.
Sextet(group, c) == (group \div 64^(3 - c)) % 64

Encoding(bytes) ==
  [k \in 1..4 * ((Len(bytes) + 2) \div 3) |->
     IF 6 * (k - 1) < 8 * Len(bytes)
     THEN Sextet(Group(bytes, (k - 1) \div 4), (k - 1) % 4)
     ELSE Pad]

\* The n lowest bits.
LowBits(v, n) == v % 2^n

\* Byte n and the one before it.
LastTwo(bytes, n) == 2^8 * Octet(bytes, n - 1) + Octet(bytes, n)

\* What base64_encode (zmq_relay.cpp:33) returns is the encoding of all of its
\* input, whatever has been shifted out of val before and whatever its sign.
EncodesAll == at = "done" => result = Encoding(data)

\* While the loop runs no bit is lost: the text has the first bits of the bytes
\* taken so far, six per character, and the valb + 6 others, which are of the
\* last two bytes, are the lowest bits of val (zmq_relay.cpp:41-46).
PendingBits ==
  at \in {"for", "while"} =>
    /\ 6 * Len(result) + valb + 6 = 8 * i
    /\ \A k \in DOMAIN result : result[k] = Encoding(data)[k]
    /\ LowBits(val, valb + 6) = LowBits(LastTwo(data, i), valb + 6)
=============================================================================
