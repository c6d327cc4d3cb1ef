---------------------------- MODULE Base64Proofs ----------------------------
(***************************************************************************)
(* base64_encode (module Base64) is right for an input of any length and   *)
(* any bytes, however often val has overflowed on the way.                 *)
(***************************************************************************)
EXTENDS Base64, SequenceTheorems, TLAPS

\* A name that the provers do not look into.
Octets == 0..255

Typed ==
  /\ at \in {"for", "while", "pad", "done"}
  /\ data \in Seq(Octets)
  /\ i \in 0..Len(data)
  /\ val \in Int
  /\ valb \in Int
  /\ result \in Seq(0..Pad)

\* How many bits wait: less than six outside the inner loop.
Waiting ==
  /\ at = "for" => valb \in {-6, -4, -2}
  /\ at = "while" => valb \in {-6, -4, -2, 0, 2, 4, 6} /\ i > 0

\* When the bytes are done, the text is the encoding but for its last '='.
Padding ==
  at \in {"pad", "done"} =>
    /\ 8 * Len(data) <= 6 * Len(result)
    /\ Len(result) <= 4 * ((Len(data) + 2) \div 3)
    /\ \A k \in 1..Len(result) : result[k] = Encoding(data)[k]
    /\ at = "done" => Len(result) % 4 = 0

IInv == Typed /\ Waiting /\ PendingBits /\ Padding

(***************************************************************************)
(* Arithmetic.                                                             *)
(***************************************************************************)

LEMMA Powers ==
  /\ 2^0 = 1 /\ 2^2 = 4 /\ 2^4 = 16 /\ 2^6 = 64 /\ 2^8 = 256 /\ 2^10 = 1024 /\ 2^12 = 4096
  /\ 2^16 = 65536 /\ 2^23 = 8388608 /\ 2^24 = 16777216
  /\ 64^0 = 1 /\ 64^1 = 64 /\ 64^2 = 4096 /\ 64^3 = 262144
BY SMT

\* Two bytes, and three, as a number.
Pair(a, b) == 256 * a + b

Triple(a, b, c) == 65536 * a + 256 * b + c

LEMMA PairTyped ==
  ASSUME NEW a \in Octets, NEW b \in Octets
  PROVE  Pair(a, b) \in Int
BY DEF Pair, Octets

LEMMA TripleTyped ==
  ASSUME NEW a \in Octets, NEW b \in Octets, NEW c \in Octets
  PROVE  Triple(a, b, c) \in Int
BY DEF Triple, Octets

\* What the overflow takes are bits that have been encoded.
LEMMA ShiftedLeft ==
  ASSUME NEW v \in Int
  PROVE  \E l \in Int : ShiftLeft(v) = l * 256 /\ l % 16 = v % 16
<1> DEFINE low == v % 16777216
<1>1. low \in Int /\ low % 16 = v % 16 /\ (low - 16777216) % 16 = v % 16
  OBVIOUS
<1>2. ShiftLeft(v) = IF low >= 8388608 THEN (low - 16777216) * 256 ELSE low * 256
  BY Powers DEF ShiftLeft
<1> HIDE DEF low
<1>3. QED
  BY <1>1, <1>2

\* v and r have the same p + 6 lowest bits.
Agree(v, r, p) ==
  /\ p = -4 => v % 4 = r % 4
  /\ p = -2 => v % 16 = r % 16
  /\ p = 0 => v % 64 = r % 64
  /\ p = 2 => v % 256 = r % 256
  /\ p = 4 => v % 1024 = r % 1024
  /\ p = 6 => v % 4096 = r % 4096

\* A byte c behind the bits that wait, which are of a and b.
LEMMA ByteAdded ==
  ASSUME NEW v \in Int, NEW a \in Octets, NEW b \in Octets, NEW c \in Octets,
         NEW p \in {-6, -4, -2}, Agree(v, Pair(a, b), p)
  PROVE  AddByte(v, c) \in Int /\ Agree(AddByte(v, c), Pair(b, c), p + 8)
<1> USE DEF Pair, Octets, Agree
<1>1. PICK l \in Int : ShiftLeft(v) = l * 256 /\ l % 16 = v % 16
  BY ShiftedLeft
<1>2. AddByte(v, c) = l * 256 + c
  BY <1>1 DEF AddByte
<1>3. l * 256 + c \in Int
  OBVIOUS
<1>4. CASE p = -6
  <2>1. (l * 256 + c) % 256 = (256 * b + c) % 256
    OBVIOUS
  <2>2. p + 8 = 2
    BY <1>4
  <2>3. QED
    BY <1>2, <1>3, <2>1, <2>2
<1>5. CASE p = -4
  <2>1. l % 4 = b % 4
    BY <1>1, <1>5
  <2>2. (l * 256 + c) % 1024 = (256 * b + c) % 1024
    BY <2>1
  <2>3. p + 8 = 4
    BY <1>5
  <2>4. QED
    BY <1>2, <1>3, <2>2, <2>3
<1>6. CASE p = -2
  <2>1. l % 16 = b % 16
    BY <1>1, <1>6
  <2>2. (l * 256 + c) % 4096 = (256 * b + c) % 4096
    BY <2>1
  <2>3. p + 8 = 6
    BY <1>6
  <2>4. QED
    BY <1>2, <1>3, <2>2, <2>3
<1>7. QED
  BY <1>4, <1>5, <1>6

\* The six bits that are next, and what is left of the others.
LEMMA SixBits ==
  ASSUME NEW v \in Int, NEW r \in Int
  PROVE  /\ v % 64 = r % 64 => v % 1 = r % 1
         /\ v % 256 = r % 256 => v % 4 = r % 4 /\ (v \div 4) % 64 = (r \div 4) % 64
         /\ v % 1024 = r % 1024 => v % 16 = r % 16 /\ (v \div 16) % 64 = (r \div 16) % 64
         /\ v % 4096 = r % 4096 => v % 64 = r % 64 /\ (v \div 64) % 64 = (r \div 64) % 64
<1>1. v % 64 = r % 64 => v % 1 = r % 1
  OBVIOUS
<1>2. v % 256 = r % 256 => v % 4 = r % 4 /\ (v \div 4) % 64 = (r \div 4) % 64
  OBVIOUS
<1>3. v % 1024 = r % 1024 => v % 16 = r % 16 /\ (v \div 16) % 64 = (r \div 16) % 64
  OBVIOUS
<1>4. v % 4096 = r % 4096 => v % 64 = r % 64 /\ (v \div 64) % 64 = (r \div 64) % 64
  OBVIOUS
<1>5. QED
  BY <1>1, <1>2, <1>3, <1>4

\* The four characters of the bytes a, b and c, with the byte z before them.
LEMMA Sextets ==
  ASSUME NEW z \in Octets, NEW a \in Octets, NEW b \in Octets, NEW c \in Octets
  PROVE  /\ Sextet(Triple(a, b, c), 0) = (Pair(z, a) \div 4) % 64
         /\ Sextet(Triple(a, b, c), 1) = (Pair(a, b) \div 16) % 64
         /\ Sextet(Triple(a, b, c), 2) = (Pair(b, c) \div 64) % 64
         /\ Sextet(Triple(a, b, c), 3) = Pair(b, c) % 64
<1> DEFINE g == Triple(a, b, c)
<1>1. /\ Sextet(g, 0) = (g \div 262144) % 64
      /\ Sextet(g, 1) = (g \div 4096) % 64
      /\ Sextet(g, 2) = (g \div 64) % 64
      /\ Sextet(g, 3) = (g \div 1) % 64
  BY Powers DEF Sextet
<1> USE DEF Pair, Triple, Octets
<1>2. (g \div 262144) % 64 = (Pair(z, a) \div 4) % 64
  <2>1. (65536 * a + 256 * b + c) \div 262144 = a \div 4
    OBVIOUS
  <2>2. (256 * z + a) \div 4 = 64 * z + (a \div 4)
    OBVIOUS
  <2>3. (64 * z + (a \div 4)) % 64 = (a \div 4) % 64
    OBVIOUS
  <2>4. QED
    BY <2>1, <2>2, <2>3
<1>3. (g \div 4096) % 64 = (Pair(a, b) \div 16) % 64
  OBVIOUS
<1>4. (g \div 64) % 64 = (Pair(b, c) \div 64) % 64
  OBVIOUS
<1>5. (g \div 1) % 64 = Pair(b, c) % 64
  OBVIOUS
<1> HIDE DEF Pair, Triple, Octets
<1>6. QED
  BY <1>1, <1>2, <1>3, <1>4, <1>5

\* Which character is next, and which byte was last, by the bits that wait.
LEMMA Places ==
  ASSUME NEW n \in Nat, NEW m \in Nat
  PROVE  /\ 6 * n + 8 = 8 * m => n % 4 = 0 /\ m = 3 * (n \div 4) + 1
         /\ 6 * n + 10 = 8 * m => n % 4 = 1 /\ m = 3 * (n \div 4) + 2
         /\ 6 * n + 12 = 8 * m => n % 4 = 2 /\ m = 3 * (n \div 4) + 3
         /\ 6 * n + 6 = 8 * m => n % 4 = 3 /\ m = 3 * (n \div 4) + 3
         /\ 6 * n + 2 = 8 * m => n % 4 = 1 /\ m = 3 * (n \div 4) + 1
         /\ 6 * n + 4 = 8 * m => n % 4 = 2 /\ m = 3 * (n \div 4) + 2
<1>1. 6 * n + 8 = 8 * m => n % 4 = 0 /\ m = 3 * (n \div 4) + 1
  OBVIOUS
<1>2. 6 * n + 10 = 8 * m => n % 4 = 1 /\ m = 3 * (n \div 4) + 2
  OBVIOUS
<1>3. 6 * n + 12 = 8 * m => n % 4 = 2 /\ m = 3 * (n \div 4) + 3
  OBVIOUS
<1>4. 6 * n + 6 = 8 * m => n % 4 = 3 /\ m = 3 * (n \div 4) + 3
  OBVIOUS
<1>5. 6 * n + 2 = 8 * m => n % 4 = 1 /\ m = 3 * (n \div 4) + 1
  OBVIOUS
<1>6. 6 * n + 4 = 8 * m => n % 4 = 2 /\ m = 3 * (n \div 4) + 2
  OBVIOUS
<1>7. QED
  BY <1>1, <1>2, <1>3, <1>4, <1>5, <1>6

\* A function on 1..n is a sequence.
LEMMA FunctionIsSeq ==
  ASSUME NEW S, NEW n \in Nat, NEW e \in [1..n -> S]
  PROVE  e \in Seq(S) /\ Len(e) = n
<1>1. e \in Seq(S)
  BY SeqDef
<1>2. Len(e) \in Nat /\ DOMAIN e = 1..Len(e) /\ DOMAIN e = 1..n
  BY <1>1, LenProperties
<1>3. Len(e) = n
  BY <1>2
<1>4. QED
  BY <1>1, <1>3

(***************************************************************************)
(* The bytes and their encoding.                                           *)
(***************************************************************************)

LEMMA OctetTyped ==
  ASSUME NEW d \in Seq(Octets), NEW n \in Int
  PROVE  Octet(d, n) \in Octets
<1>1. n \in 1..Len(d) => d[n] \in Octets
  BY ElementOfSeq
<1>2. 0 \in Octets
  BY DEF Octets
<1>3. QED
  BY <1>1, <1>2, Zenon DEF Octet

LEMMA GroupOf ==
  ASSUME NEW d, NEW g
  PROVE  Group(d, g) = Triple(Octet(d, 3 * g + 1), Octet(d, 3 * g + 2), Octet(d, 3 * g + 3))
BY Powers, SMT DEF Group, Triple

LEMMA GroupTyped ==
  ASSUME NEW d \in Seq(Octets), NEW g \in Int
  PROVE  Group(d, g) \in Int
<1>1. 3 * g + 1 \in Int /\ 3 * g + 2 \in Int /\ 3 * g + 3 \in Int
  OBVIOUS
<1>2. Octet(d, 3 * g + 1) \in Octets /\ Octet(d, 3 * g + 2) \in Octets /\ Octet(d, 3 * g + 3) \in Octets
  BY <1>1, OctetTyped, Zenon
<1>3. QED
  BY <1>2, GroupOf, TripleTyped, Zenon

LEMMA SextetTyped ==
  ASSUME NEW g \in Int, NEW c \in {0, 1, 2, 3}
  PROVE  Sextet(g, c) \in 0..63
<1>1. /\ (g \div 262144) % 64 \in 0..63
      /\ (g \div 4096) % 64 \in 0..63
      /\ (g \div 64) % 64 \in 0..63
      /\ (g \div 1) % 64 \in 0..63
  OBVIOUS
<1>2. /\ Sextet(g, 0) = (g \div 262144) % 64
      /\ Sextet(g, 1) = (g \div 4096) % 64
      /\ Sextet(g, 2) = (g \div 64) % 64
      /\ Sextet(g, 3) = (g \div 1) % 64
  BY Powers DEF Sextet
<1>3. QED
  BY <1>1, <1>2, SMT

LEMMA EncodingParts ==
  ASSUME NEW d \in Seq(Octets)
  PROVE  /\ Len(Encoding(d)) = 4 * ((Len(d) + 2) \div 3)
         /\ Encoding(d) \in Seq(0..Pad)
         /\ \A k \in 1..4 * ((Len(d) + 2) \div 3) :
              Encoding(d)[k] = IF 6 * (k - 1) < 8 * Len(d)
                               THEN Sextet(Group(d, (k - 1) \div 4), (k - 1) % 4)
                               ELSE Pad
<1> DEFINE n == 4 * ((Len(d) + 2) \div 3)
<1>1. n \in Nat
  <2>1. Len(d) \in Nat
    BY LenProperties
  <2>2. QED
    BY <2>1
<1>2. \A k \in 1..n :
        Encoding(d)[k] = IF 6 * (k - 1) < 8 * Len(d) THEN Sextet(Group(d, (k - 1) \div 4), (k - 1) % 4) ELSE Pad
  BY DEF Encoding
<1>3. DOMAIN Encoding(d) = 1..n
  BY DEF Encoding
<1>4. ASSUME NEW k \in 1..n PROVE Encoding(d)[k] \in 0..Pad
  <2>1. CASE 6 * (k - 1) < 8 * Len(d)
    <3> DEFINE g == (k - 1) \div 4
               c == (k - 1) % 4
    <3>1. g \in Int /\ c \in {0, 1, 2, 3}
      <4>1. \A x \in Int : x \div 4 \in Int /\ x % 4 \in {0, 1, 2, 3}
        OBVIOUS
      <4>2. k - 1 \in Int
        BY <1>1
      <4>3. QED
        BY <4>1, <4>2
    <3> HIDE DEF g, c
    <3>2. Sextet(Group(d, g), c) \in 0..63
      <4> DEFINE x == Group(d, g)
      <4>1. x \in Int
        BY <3>1, GroupTyped, SMT
      <4> HIDE DEF x
      <4>2. Sextet(x, c) \in 0..63
        BY <3>1, <4>1, SextetTyped, Zenon
      <4>3. QED
        BY <4>2 DEF x
    <3>3. QED
      BY <1>2, <2>1, <3>2 DEF Pad, g, c
  <2>2. CASE ~(6 * (k - 1) < 8 * Len(d))
    BY <1>2, <2>2 DEF Pad
  <2>3. QED
    BY <2>1, <2>2
<1> HIDE DEF n
<1>5. Encoding(d) \in [1..n -> 0..Pad]
  BY <1>3, <1>4 DEF Encoding
<1>6. QED
  <2>1. Encoding(d) \in Seq(0..Pad) /\ Len(Encoding(d)) = n
    BY <1>1, <1>5, FunctionIsSeq
  <2>2. QED
    BY <1>2, <2>1 DEF n

LEMMA NextPlace ==
  ASSUME NEW n \in Nat, NEW m \in Nat, NEW l \in Nat, m \in 1..l, 6 * n < 8 * m
  PROVE  n + 1 \in 1..4 * ((l + 2) \div 3) /\ 6 * n < 8 * l
OBVIOUS

\* The character that the bits of the last two bytes make.
LEMMA NextSextet ==
  ASSUME NEW d \in Seq(Octets), NEW n \in Nat, NEW m \in Nat, m \in 1..Len(d), 6 * n < 8 * m,
         NEW r, r = Pair(Octet(d, m - 1), Octet(d, m))
  PROVE  /\ n + 1 \in 1..Len(Encoding(d))
         /\ 6 * n + 8 = 8 * m => Encoding(d)[n + 1] = (r \div 4) % 64
         /\ 6 * n + 10 = 8 * m => Encoding(d)[n + 1] = (r \div 16) % 64
         /\ 6 * n + 12 = 8 * m => Encoding(d)[n + 1] = (r \div 64) % 64
         /\ 6 * n + 6 = 8 * m => Encoding(d)[n + 1] = r % 64
<1> DEFINE g == n \div 4
           z == Octet(d, 3 * g)
           a == Octet(d, 3 * g + 1)
           b == Octet(d, 3 * g + 2)
           c == Octet(d, 3 * g + 3)
<1>1. Len(d) \in Nat /\ g \in Nat
  BY LenProperties
<1>2. /\ 6 * n + 8 = 8 * m => n % 4 = 0 /\ m = 3 * g + 1
      /\ 6 * n + 10 = 8 * m => n % 4 = 1 /\ m = 3 * g + 2
      /\ 6 * n + 12 = 8 * m => n % 4 = 2 /\ m = 3 * g + 3
      /\ 6 * n + 6 = 8 * m => n % 4 = 3 /\ m = 3 * g + 3
  BY Places
<1>3. n + 1 \in 1..4 * ((Len(d) + 2) \div 3) /\ 6 * n < 8 * Len(d)
  BY <1>1, NextPlace
<1>4. /\ n + 1 \in 1..Len(Encoding(d))
      /\ Encoding(d)[n + 1] = Sextet(Group(d, g), n % 4)
  <2>1. (n + 1) - 1 = n
    OBVIOUS
  <2>2. QED
    BY <1>3, <2>1, EncodingParts
<1> HIDE DEF g
<1>5. z \in Octets /\ a \in Octets /\ b \in Octets /\ c \in Octets
  <2>1. 3 * g \in Int /\ 3 * g + 1 \in Int /\ 3 * g + 2 \in Int /\ 3 * g + 3 \in Int
    BY <1>1
  <2>2. QED
    BY <2>1, OctetTyped, Zenon
<1>6. Group(d, g) = Triple(a, b, c)
  BY GroupOf
<1> HIDE DEF z, a, b, c
<1>7. /\ Sextet(Group(d, g), 0) = (Pair(z, a) \div 4) % 64
      /\ Sextet(Group(d, g), 1) = (Pair(a, b) \div 16) % 64
      /\ Sextet(Group(d, g), 2) = (Pair(b, c) \div 64) % 64
      /\ Sextet(Group(d, g), 3) = Pair(b, c) % 64
  <2>1. /\ Sextet(Triple(a, b, c), 0) = (Pair(z, a) \div 4) % 64
        /\ Sextet(Triple(a, b, c), 1) = (Pair(a, b) \div 16) % 64
        /\ Sextet(Triple(a, b, c), 2) = (Pair(b, c) \div 64) % 64
        /\ Sextet(Triple(a, b, c), 3) = Pair(b, c) % 64
    BY <1>5, Sextets
  <2>2. QED
    BY <1>6, <2>1
<1>8. /\ m = 3 * g + 1 => r = Pair(z, a)
      /\ m = 3 * g + 2 => r = Pair(a, b)
      /\ m = 3 * g + 3 => r = Pair(b, c)
  <2>1. /\ m = 3 * g + 1 => m - 1 = 3 * g
        /\ m = 3 * g + 2 => m - 1 = 3 * g + 1
        /\ m = 3 * g + 3 => m - 1 = 3 * g + 2
    BY <1>1
  <2>2. QED
    BY <2>1 DEF z, a, b, c
<1>9. 6 * n + 8 = 8 * m => Encoding(d)[n + 1] = (r \div 4) % 64
  BY <1>2, <1>4, <1>7, <1>8
<1>10. 6 * n + 10 = 8 * m => Encoding(d)[n + 1] = (r \div 16) % 64
  BY <1>2, <1>4, <1>7, <1>8
<1>11. 6 * n + 12 = 8 * m => Encoding(d)[n + 1] = (r \div 64) % 64
  BY <1>2, <1>4, <1>7, <1>8
<1>12. 6 * n + 6 = 8 * m => Encoding(d)[n + 1] = r % 64
  BY <1>2, <1>4, <1>7, <1>8
<1>13. QED
  BY <1>4, <1>9, <1>10, <1>11, <1>12

(***************************************************************************)
(* The statements.                                                         *)
(***************************************************************************)

LEMMA LastTwoBytes ==
  ASSUME NEW d \in Seq(Octets), NEW n \in Int
  PROVE  LastTwo(d, n) = Pair(Octet(d, n - 1), Octet(d, n)) /\ LastTwo(d, n) \in Int
<1>1. n - 1 \in Int
  OBVIOUS
<1>2. Octet(d, n - 1) \in Octets /\ Octet(d, n) \in Octets
  BY <1>1, OctetTyped, Zenon
<1>3. LastTwo(d, n) = Pair(Octet(d, n - 1), Octet(d, n))
  BY Powers, SMT DEF LastTwo, Pair
<1>4. QED
  BY <1>2, <1>3, PairTyped

\* The same text, one character longer.
LEMMA TextGrows ==
  ASSUME NEW d \in Seq(Octets), NEW s \in Seq(0..Pad), NEW c \in 0..Pad,
         \A k \in 1..Len(s) : s[k] = Encoding(d)[k],
         c = Encoding(d)[Len(s) + 1]
  PROVE  /\ Append(s, c) \in Seq(0..Pad) /\ Len(Append(s, c)) = Len(s) + 1
         /\ \A k \in 1..Len(Append(s, c)) : Append(s, c)[k] = Encoding(d)[k]
<1> DEFINE t == Append(s, c)
<1>1. /\ t \in Seq(0..Pad) /\ Len(t) = Len(s) + 1 /\ Len(s) \in Nat
      /\ \A k \in 1..Len(s) : t[k] = s[k]
      /\ t[Len(s) + 1] = c
  BY AppendProperties, LenProperties
<1> HIDE DEF t
<1>2. ASSUME NEW k \in 1..Len(t) PROVE t[k] = Encoding(d)[k]
  <2>1. CASE k \in 1..Len(s)
    BY <1>1, <2>1
  <2>2. CASE k = Len(s) + 1
    BY <1>1, <2>2
  <2>3. QED
    BY <1>1, <2>1, <2>2
<1>3. QED
  BY <1>1, <1>2 DEF t

LEMMA PowerCases ==
  ASSUME NEW v \in Int, NEW r \in Int, NEW p \in {-6, -4, -2, 0, 2, 4, 6}
  PROVE  LowBits(v, p + 6) = LowBits(r, p + 6) <=> Agree(v, r, p)
<1>1. CASE p = -6
  <2>1. p + 6 = 0
    BY <1>1
  <2>2. v % 1 = r % 1
    OBVIOUS
  <2>3. QED
    BY <1>1, <2>1, <2>2, Powers, SMT DEF Agree, LowBits
<1>2. CASE p = -4
  <2>1. p + 6 = 2
    BY <1>2
  <2>2. QED
    BY <1>2, <2>1, Powers, SMT DEF Agree, LowBits
<1>3. CASE p = -2
  <2>1. p + 6 = 4
    BY <1>3
  <2>2. QED
    BY <1>3, <2>1, Powers, SMT DEF Agree, LowBits
<1>4. CASE p = 0
  <2>1. p + 6 = 6
    BY <1>4
  <2>2. QED
    BY <1>4, <2>1, Powers, SMT DEF Agree, LowBits
<1>5. CASE p = 2
  <2>1. p + 6 = 8
    BY <1>5
  <2>2. QED
    BY <1>5, <2>1, Powers, SMT DEF Agree, LowBits
<1>6. CASE p = 4
  <2>1. p + 6 = 10
    BY <1>6
  <2>2. QED
    BY <1>6, <2>1, Powers, SMT DEF Agree, LowBits
<1>7. CASE p = 6
  <2>1. p + 6 = 12
    BY <1>7
  <2>2. QED
    BY <1>7, <2>1, Powers, SMT DEF Agree, LowBits
<1>8. QED
  BY <1>1, <1>2, <1>3, <1>4, <1>5, <1>6, <1>7

LEMMA Pending ==
  ASSUME NEW v \in Int, NEW d \in Seq(Octets), NEW n \in Int, NEW p \in {-6, -4, -2, 0, 2, 4, 6}
  PROVE  LowBits(v, p + 6) = LowBits(LastTwo(d, n), p + 6) <=> Agree(v, LastTwo(d, n), p)
BY LastTwoBytes, PowerCases

LEMMA InitIInv == Init => IInv
<1> SUFFICES ASSUME Init PROVE IInv
  OBVIOUS
<1>1. data \in Seq(Octets)
  <2>1. PICK n \in 0..MaxLength : data \in [1..n -> Byte]
    BY DEF Init, BoundedSeq, SeqOf
  <2>2. n \in Nat
    BY <2>1, Base64Assumption DEF Base64Assumption
  <2>3. data \in [1..n -> Octets]
    BY <2>1, Base64Assumption DEF Base64Assumption, Octets
  <2>4. QED
    BY <2>2, <2>3, FunctionIsSeq
<1>2. Len(data) \in Nat
  BY <1>1, LenProperties
<1>3. Typed
  BY <1>1, <1>2 DEF Init, Typed, Pad
<1>4. Waiting /\ Padding
  BY DEF Init, Waiting, Padding
<1>5. PendingBits
  <2>1. Agree(val, LastTwo(data, i), valb)
    BY DEF Agree, Init
  <2>2. LowBits(val, valb + 6) = LowBits(LastTwo(data, i), valb + 6)
    BY <1>1, <2>1, Pending DEF Init
  <2>3. 6 * Len(result) + valb + 6 = 8 * i /\ \A k \in DOMAIN result : result[k] = Encoding(data)[k]
    BY DEF Init
  <2>4. QED
    BY <2>2, <2>3 DEF PendingBits
<1>6. QED
  BY <1>3, <1>4, <1>5 DEF IInv

\* What IInv says of the loop, with the powers worked out.
LEMMA InLoop ==
  ASSUME IInv, at \in {"for", "while"}
  PROVE  /\ i \in Nat /\ i <= Len(data) /\ Len(data) \in Nat /\ Len(result) \in Nat
         /\ 6 * Len(result) + valb + 6 = 8 * i
         /\ \A k \in 1..Len(result) : result[k] = Encoding(data)[k]
         /\ Agree(val, LastTwo(data, i), valb)
<1>1. Len(data) \in Nat /\ Len(result) \in Nat /\ DOMAIN result = 1..Len(result)
  BY LenProperties DEF IInv, Typed
<1>2. i \in Nat /\ i <= Len(data) /\ val \in Int /\ data \in Seq(Octets)
  BY <1>1 DEF IInv, Typed
<1>3. valb \in {-6, -4, -2, 0, 2, 4, 6}
  BY DEF IInv, Waiting
<1>4. LowBits(val, valb + 6) = LowBits(LastTwo(data, i), valb + 6)
  BY DEF IInv, PendingBits
<1>5. Agree(val, LastTwo(data, i), valb)
  BY <1>2, <1>3, <1>4, Pending
<1>6. QED
  BY <1>1, <1>2, <1>5 DEF IInv, PendingBits

\* And the other way, for the next state.
LEMMA StillInLoop ==
  ASSUME Typed', Waiting', at' \in {"for", "while"},
         6 * Len(result') + valb' + 6 = 8 * i',
         \A k \in 1..Len(result') : result'[k] = Encoding(data')[k],
         Agree(val', LastTwo(data', i'), valb')
  PROVE  PendingBits' /\ Padding'
<1>1. DOMAIN result' = 1..Len(result')
  BY LenProperties DEF Typed
<1>2. i' \in Int /\ val' \in Int /\ data' \in Seq(Octets)
  BY DEF Typed
<1>3. valb' \in {-6, -4, -2, 0, 2, 4, 6}
  BY DEF Waiting
<1>4. LowBits(val', valb' + 6) = LowBits(LastTwo(data', i'), valb' + 6)
  <2> DEFINE v == val'
             d == data'
             n == i'
             p == valb'
  <2>1. v \in Int /\ d \in Seq(Octets) /\ n \in Int /\ p \in {-6, -4, -2, 0, 2, 4, 6}
    BY <1>2, <1>3
  <2>2. Agree(v, LastTwo(d, n), p)
    OBVIOUS
  <2> HIDE DEF v, d, n, p
  <2>3. LowBits(v, p + 6) = LowBits(LastTwo(d, n), p + 6)
    BY <2>1, <2>2, Pending
  <2>4. QED
    BY <2>3 DEF v, d, n, p
<1>5. PendingBits'
  BY <1>1, <1>4 DEF PendingBits
<1>6. Padding'
  BY DEF Padding
<1>7. QED
  BY <1>5, <1>6

\* A byte more: val has eight bits more, and what was pending still is.
LEMMA TakeStep == IInv /\ Take => IInv'
<1> SUFFICES ASSUME IInv, Take PROVE IInv'
  OBVIOUS
<1> DEFINE a == Octet(data, i - 1)
           b == Octet(data, i)
           c == Octet(data, i + 1)
<1>1. /\ i \in Nat /\ i + 1 \in 1..Len(data) /\ Len(data) \in Nat /\ Len(result) \in Nat
      /\ val \in Int /\ data \in Seq(Octets)
  BY InLoop DEF Take, IInv, Typed
<1>2. c = data[i + 1] /\ (i + 1) - 1 = i
  BY <1>1 DEF Octet
<1>3. a \in Octets /\ b \in Octets /\ c \in Octets
  <2>1. i - 1 \in Int /\ i \in Int /\ i + 1 \in Int
    BY <1>1
  <2>2. QED
    BY <1>1, <2>1, OctetTyped
<1>4. LastTwo(data, i) = Pair(a, b) /\ LastTwo(data, i + 1) = Pair(b, c)
  BY <1>1, <1>2, LastTwoBytes
<1>5. /\ val' = AddByte(val, c) /\ valb' = valb + 8 /\ i' = i + 1 /\ at' = "while"
      /\ data' = data /\ result' = result /\ at = "for"
  BY <1>2 DEF Take
<1> HIDE DEF a, b, c
<1>6. /\ 6 * Len(result) + valb + 6 = 8 * i
      /\ \A k \in 1..Len(result) : result[k] = Encoding(data)[k]
      /\ Agree(val, Pair(a, b), valb)
  BY <1>4, <1>5, InLoop
<1>7. valb \in {-6, -4, -2}
  BY <1>5 DEF IInv, Waiting
<1>8. val' \in Int /\ Agree(val', Pair(b, c), valb')
  BY <1>1, <1>3, <1>5, <1>6, <1>7, ByteAdded
<1>9. valb' \in {2, 4, 6}
  BY <1>5, <1>7
<1>10. Typed' /\ Waiting'
  BY <1>1, <1>5, <1>8, <1>9 DEF IInv, Typed, Waiting
<1>11. 6 * Len(result') + valb' + 6 = 8 * i'
  BY <1>1, <1>5, <1>6, <1>7
<1>12. QED
  BY <1>4, <1>5, <1>6, <1>8, <1>10, <1>11, StillInLoop DEF IInv

\* The character of six bits that are in v and in r.
LEMMA CharacterOut ==
  ASSUME NEW v \in Int, NEW r \in Int, NEW p \in {0, 2, 4, 6}, Agree(v, r, p)
  PROVE  /\ Agree(v, r, p - 6)
         /\ ShiftRight(v, p) % 64 \in 0..63
         /\ p = 0 => ShiftRight(v, p) % 64 = r % 64
         /\ p = 2 => ShiftRight(v, p) % 64 = (r \div 4) % 64
         /\ p = 4 => ShiftRight(v, p) % 64 = (r \div 16) % 64
         /\ p = 6 => ShiftRight(v, p) % 64 = (r \div 64) % 64
<1>1. CASE p = 0
  <2>1. ShiftRight(v, p) = v \div 1 /\ p - 6 = -6
    BY <1>1, Powers, SMT DEF ShiftRight
  <2>2. (v \div 1) % 64 = r % 64 /\ r % 64 \in 0..63
    BY <1>1 DEF Agree
  <2>3. QED
    BY <1>1, <2>1, <2>2 DEF Agree
<1>2. CASE p = 2
  <2>1. ShiftRight(v, p) = v \div 4 /\ p - 6 = -4
    BY <1>2, Powers, SMT DEF ShiftRight
  <2>2. v % 4 = r % 4 /\ (v \div 4) % 64 = (r \div 4) % 64 /\ (r \div 4) % 64 \in 0..63
    BY <1>2, SixBits DEF Agree
  <2>3. QED
    BY <1>2, <2>1, <2>2 DEF Agree
<1>3. CASE p = 4
  <2>1. ShiftRight(v, p) = v \div 16 /\ p - 6 = -2
    BY <1>3, Powers, SMT DEF ShiftRight
  <2>2. v % 16 = r % 16 /\ (v \div 16) % 64 = (r \div 16) % 64 /\ (r \div 16) % 64 \in 0..63
    BY <1>3, SixBits DEF Agree
  <2>3. QED
    BY <1>3, <2>1, <2>2 DEF Agree
<1>4. CASE p = 6
  <2>1. ShiftRight(v, p) = v \div 64 /\ p - 6 = 0
    BY <1>4, Powers, SMT DEF ShiftRight
  <2>2. v % 64 = r % 64 /\ (v \div 64) % 64 = (r \div 64) % 64 /\ (r \div 64) % 64 \in 0..63
    BY <1>4, SixBits DEF Agree
  <2>3. QED
    BY <1>4, <2>1, <2>2 DEF Agree
<1>5. QED
  BY <1>1, <1>2, <1>3, <1>4

\* A character more, six bits fewer.
LEMMA EmitStep == IInv /\ Emit => IInv'
<1> SUFFICES ASSUME IInv, Emit PROVE IInv'
  OBVIOUS
<1> DEFINE c == ShiftRight(val, valb) % 64
           n == Len(result)
           r == LastTwo(data, i)
<1>1. /\ i \in Nat /\ i \in 1..Len(data) /\ Len(data) \in Nat /\ n \in Nat
      /\ val \in Int /\ data \in Seq(Octets) /\ result \in Seq(0..Pad)
      /\ 6 * n + valb + 6 = 8 * i
      /\ \A k \in 1..n : result[k] = Encoding(data)[k]
      /\ Agree(val, r, valb)
  BY InLoop DEF Emit, IInv, Typed, Waiting
<1>2. valb \in {0, 2, 4, 6}
  BY DEF Emit, IInv, Waiting
<1>3. /\ result' = Append(result, c) /\ valb' = valb - 6 /\ at = "while" /\ at' = "while"
      /\ data' = data /\ i' = i /\ val' = val
  BY DEF Emit
<1>4. r \in Int /\ r = Pair(Octet(data, i - 1), Octet(data, i))
  BY <1>1, LastTwoBytes
<1> HIDE DEF r, c, n
<1>5. /\ Agree(val, r, valb - 6)
      /\ c \in 0..63
      /\ valb = 0 => c = r % 64
      /\ valb = 2 => c = (r \div 4) % 64
      /\ valb = 4 => c = (r \div 16) % 64
      /\ valb = 6 => c = (r \div 64) % 64
  BY <1>1, <1>2, <1>4, CharacterOut DEF c
<1>6. c = Encoding(data)[n + 1]
  <2>1. 6 * n < 8 * i
    BY <1>1, <1>2
  <2>2. /\ 6 * n + 8 = 8 * i => Encoding(data)[n + 1] = (r \div 4) % 64
        /\ 6 * n + 10 = 8 * i => Encoding(data)[n + 1] = (r \div 16) % 64
        /\ 6 * n + 12 = 8 * i => Encoding(data)[n + 1] = (r \div 64) % 64
        /\ 6 * n + 6 = 8 * i => Encoding(data)[n + 1] = r % 64
    BY <1>1, <1>4, <2>1, NextSextet
  <2>3. CASE valb = 0
    <3>1. 6 * n + 6 = 8 * i
      BY <1>1, <2>3
    <3>2. QED
      BY <1>5, <2>2, <2>3, <3>1
  <2>4. CASE valb = 2
    <3>1. 6 * n + 8 = 8 * i
      BY <1>1, <2>4
    <3>2. QED
      BY <1>5, <2>2, <2>4, <3>1
  <2>5. CASE valb = 4
    <3>1. 6 * n + 10 = 8 * i
      BY <1>1, <2>5
    <3>2. QED
      BY <1>5, <2>2, <2>5, <3>1
  <2>6. CASE valb = 6
    <3>1. 6 * n + 12 = 8 * i
      BY <1>1, <2>6
    <3>2. QED
      BY <1>5, <2>2, <2>6, <3>1
  <2>7. QED
    BY <1>2, <2>3, <2>4, <2>5, <2>6
<1>7. c \in 0..Pad
  BY <1>5 DEF Pad
<1>8. /\ result' \in Seq(0..Pad) /\ Len(result') = n + 1
      /\ \A k \in 1..Len(result') : result'[k] = Encoding(data')[k]
  BY <1>1, <1>3, <1>6, <1>7, TextGrows DEF n
<1>9. valb' \in {-6, -4, -2, 0}
  BY <1>2, <1>3
<1>10. Typed' /\ Waiting'
  BY <1>1, <1>3, <1>8, <1>9 DEF IInv, Typed, Waiting
<1>11. 6 * Len(result') + valb' + 6 = 8 * i'
  <2>1. n \in Nat /\ i \in Int /\ 6 * n + valb + 6 = 8 * i
    BY <1>1
  <2>2. Len(result') = n + 1 /\ valb' = valb - 6 /\ i' = i
    BY <1>3, <1>8
  <2>3. 6 * (n + 1) + (valb - 6) + 6 = 8 * i
    BY <2>1, <1>2
  <2>4. QED
    BY <2>2, <2>3
<1>12. Agree(val', LastTwo(data', i'), valb')
  BY <1>3, <1>5 DEF r
<1>13. QED
  BY <1>3, <1>8, <1>10, <1>11, <1>12, StillInLoop DEF IInv

LEMMA EmittedStep == IInv /\ Emitted => IInv'
<1> SUFFICES ASSUME IInv, Emitted PROVE IInv'
  OBVIOUS
<1>1. /\ 6 * Len(result) + valb + 6 = 8 * i
      /\ \A k \in 1..Len(result) : result[k] = Encoding(data)[k]
      /\ Agree(val, LastTwo(data, i), valb)
  BY InLoop DEF Emitted
<1>2. /\ at = "while" /\ at' = "for" /\ valb < 0
      /\ data' = data /\ i' = i /\ val' = val /\ valb' = valb /\ result' = result
  BY DEF Emitted
<1>3. Typed' /\ Waiting'
  BY <1>2 DEF IInv, Typed, Waiting
<1>4. QED
  BY <1>1, <1>2, <1>3, StillInLoop DEF IInv

\* The bits that are left make a character with zeros behind them.
LEMMA RestOut ==
  ASSUME NEW v \in Int, NEW r \in Int, NEW p \in {-4, -2}, Agree(v, r, p)
  PROVE  /\ Rest(v, p) \in 0..63
         /\ p = -4 => Rest(v, p) = 16 * (r % 4)
         /\ p = -2 => Rest(v, p) = 4 * (r % 16)
<1>1. PICK l \in Int : ShiftLeft(v) = l * 256 /\ l % 16 = v % 16
  BY ShiftedLeft
<1>2. CASE p = -4
  <2>1. Rest(v, p) = ((l * 256) \div 16) % 64 /\ p + 8 = 4
    BY <1>1, <1>2, Powers, SMT DEF Rest, ShiftRight
  <2>2. ((l * 256) \div 16) % 64 = 16 * (l % 4)
    OBVIOUS
  <2>3. l % 4 = r % 4 /\ 16 * (l % 4) \in 0..63
    BY <1>1, <1>2 DEF Agree
  <2>4. QED
    BY <1>2, <2>1, <2>2, <2>3
<1>3. CASE p = -2
  <2>1. Rest(v, p) = ((l * 256) \div 64) % 64 /\ p + 8 = 6
    BY <1>1, <1>3, Powers, SMT DEF Rest, ShiftRight
  <2>2. ((l * 256) \div 64) % 64 = 4 * (l % 16)
    OBVIOUS
  <2>3. l % 16 = r % 16 /\ 4 * (l % 16) \in 0..63
    BY <1>1, <1>3 DEF Agree
  <2>4. QED
    BY <1>3, <2>1, <2>2, <2>3
<1>4. QED
  BY <1>2, <1>3

\* The last characters of an input of one or two bytes more than whole groups.
LEMMA LastSextets ==
  ASSUME NEW z \in Octets, NEW a \in Octets, NEW b \in Octets
  PROVE  /\ Sextet(Triple(a, 0, 0), 1) = 16 * (Pair(z, a) % 4)
         /\ Sextet(Triple(a, b, 0), 2) = 4 * (Pair(a, b) % 16)
<1>1. /\ Sextet(Triple(a, 0, 0), 1) = (Triple(a, 0, 0) \div 4096) % 64
      /\ Sextet(Triple(a, b, 0), 2) = (Triple(a, b, 0) \div 64) % 64
  BY Powers, SMT DEF Sextet
<1> USE DEF Pair, Triple, Octets
<1>2. (Triple(a, 0, 0) \div 4096) % 64 = 16 * (Pair(z, a) % 4)
  OBVIOUS
<1>3. (Triple(a, b, 0) \div 64) % 64 = 4 * (Pair(a, b) % 16)
  <2>1. Triple(a, b, 0) \div 64 = 1024 * a + 4 * b
    OBVIOUS
  <2>2. (1024 * a + 4 * b) % 64 = 4 * (b % 16)
    OBVIOUS
  <2>3. Pair(a, b) % 16 = b % 16
    OBVIOUS
  <2>4. QED
    BY <2>1, <2>2, <2>3
<1> HIDE DEF Pair, Triple, Octets
<1>4. QED
  BY <1>1, <1>2, <1>3

LEMMA LastSextet ==
  ASSUME NEW d \in Seq(Octets), NEW n \in Nat, Len(d) \in 1..Len(d), 6 * n < 8 * Len(d)
  PROVE  /\ 6 * n + 2 = 8 * Len(d) => Encoding(d)[n + 1] = 16 * (LastTwo(d, Len(d)) % 4)
         /\ 6 * n + 4 = 8 * Len(d) => Encoding(d)[n + 1] = 4 * (LastTwo(d, Len(d)) % 16)
<1> DEFINE m == Len(d)
           g == n \div 4
           z == Octet(d, 3 * g)
           a == Octet(d, 3 * g + 1)
           b == Octet(d, 3 * g + 2)
           c == Octet(d, 3 * g + 3)
<1>1. m \in Nat /\ g \in Nat
  BY LenProperties
<1>2. /\ 6 * n + 2 = 8 * m => n % 4 = 1 /\ m = 3 * g + 1
      /\ 6 * n + 4 = 8 * m => n % 4 = 2 /\ m = 3 * g + 2
  BY <1>1, Places
<1>3. Encoding(d)[n + 1] = Sextet(Group(d, g), n % 4)
  <2>1. n + 1 \in 1..4 * ((m + 2) \div 3) /\ 6 * n < 8 * m
    BY <1>1, NextPlace
  <2>2. (n + 1) - 1 = n
    OBVIOUS
  <2>3. QED
    BY <2>1, <2>2, EncodingParts
<1> HIDE DEF g
<1>4. z \in Octets /\ a \in Octets /\ b \in Octets
  <2>1. 3 * g \in Int /\ 3 * g + 1 \in Int /\ 3 * g + 2 \in Int
    BY <1>1
  <2>2. QED
    BY <2>1, OctetTyped, Zenon
<1>5. Group(d, g) = Triple(a, b, c)
  BY GroupOf
<1>6. CASE 6 * n + 2 = 8 * m
  <2>1. n % 4 = 1 /\ m = 3 * g + 1 /\ m - 1 = 3 * g
    BY <1>1, <1>2, <1>6
  <2>2. b = 0 /\ c = 0
    <3>1. 3 * g + 2 \notin 1..Len(d) /\ 3 * g + 3 \notin 1..Len(d)
      BY <1>1, <2>1
    <3>2. QED
      BY <3>1 DEF Octet
  <2>3. LastTwo(d, m) = Pair(z, a)
    <3>1. m \in Int
      BY <1>1
    <3>2. LastTwo(d, m) = Pair(Octet(d, m - 1), Octet(d, m))
      BY <3>1, LastTwoBytes
    <3>3. QED
      BY <2>1, <3>2
  <2> HIDE DEF z, a, b, c, m
  <2>4. Sextet(Triple(a, 0, 0), 1) = 16 * (Pair(z, a) % 4)
    BY <1>4, LastSextets
  <2>5. Encoding(d)[n + 1] = 16 * (LastTwo(d, m) % 4)
    BY <1>3, <1>5, <2>1, <2>2, <2>3, <2>4
  <2>6. QED
    BY <1>1, <1>6, <2>5 DEF m
<1>7. CASE 6 * n + 4 = 8 * m
  <2>1. n % 4 = 2 /\ m = 3 * g + 2 /\ m - 1 = 3 * g + 1
    BY <1>1, <1>2, <1>7
  <2>2. c = 0
    <3>1. 3 * g + 3 \notin 1..Len(d)
      BY <1>1, <2>1
    <3>2. QED
      BY <3>1 DEF Octet
  <2>3. LastTwo(d, m) = Pair(a, b)
    <3>1. m \in Int
      BY <1>1
    <3>2. LastTwo(d, m) = Pair(Octet(d, m - 1), Octet(d, m))
      BY <3>1, LastTwoBytes
    <3>3. QED
      BY <2>1, <3>2
  <2> HIDE DEF z, a, b, c, m
  <2>4. Sextet(Triple(a, b, 0), 2) = 4 * (Pair(a, b) % 16)
    BY <1>4, LastSextets
  <2>5. Encoding(d)[n + 1] = 4 * (LastTwo(d, m) % 16)
    BY <1>3, <1>5, <2>1, <2>2, <2>3, <2>4
  <2>6. QED
    BY <1>1, <1>7, <2>5 DEF m
<1>8. QED
  BY <1>6, <1>7

\* The last bits go out, and no bit of the input is left.
LEMMA TakeRestStep == IInv /\ TakeRest => IInv'
<1> SUFFICES ASSUME IInv, TakeRest PROVE IInv'
  OBVIOUS
<1> DEFINE c == Rest(val, valb)
           n == Len(result)
           m == Len(data)
           r == LastTwo(data, m)
<1>1. /\ m \in Nat /\ n \in Nat /\ i = m
      /\ val \in Int /\ data \in Seq(Octets) /\ result \in Seq(0..Pad)
      /\ 6 * n + valb + 6 = 8 * m
      /\ \A k \in 1..n : result[k] = Encoding(data)[k]
      /\ Agree(val, r, valb)
  BY InLoop DEF TakeRest, IInv, Typed, Waiting
<1>2. valb \in {-6, -4, -2}
  BY DEF TakeRest, IInv, Waiting
<1>3. /\ result' = IF valb > -6 THEN Append(result, c) ELSE result
      /\ at' = "pad" /\ data' = data /\ i' = i /\ val' = val /\ valb' = valb
  BY DEF TakeRest
<1>4. Typed' /\ Padding' => IInv'
  BY <1>3 DEF IInv, Waiting, PendingBits
<1>5. CASE valb = -6
  <2>1. result' = result
    BY <1>3, <1>5
  <2>2. 8 * m <= 6 * n /\ n <= 4 * ((m + 2) \div 3)
    BY <1>1, <1>5
  <2>3. Padding'
    BY <1>1, <1>3, <2>1, <2>2 DEF Padding
  <2>4. Typed'
    BY <1>3, <2>1 DEF IInv, Typed
  <2>5. QED
    BY <1>4, <2>3, <2>4
<1>6. CASE valb \in {-4, -2}
  <2>1. result' = Append(result, c)
    BY <1>3, <1>6
  <2>2. r \in Int
    BY <1>1, LastTwoBytes
  <2>3. 6 * n < 8 * m /\ 8 * m <= 6 * (n + 1) /\ m \in 1..m
    BY <1>1, <1>6
  <2>4. n + 1 <= 4 * ((m + 2) \div 3)
    BY <1>1, <2>3, NextPlace
  <2>5. /\ 6 * n + 2 = 8 * m => Encoding(data)[n + 1] = 16 * (r % 4)
        /\ 6 * n + 4 = 8 * m => Encoding(data)[n + 1] = 4 * (r % 16)
    BY <1>1, <2>3, LastSextet
  <2> HIDE DEF c, n, m, r
  <2>6. /\ c \in 0..63
        /\ valb = -4 => c = 16 * (r % 4)
        /\ valb = -2 => c = 4 * (r % 16)
    BY <1>1, <1>6, <2>2, RestOut DEF c
  <2>7. c = Encoding(data)[n + 1]
    <3>1. CASE valb = -4
      <4>1. 6 * n + 2 = 8 * m
        BY <1>1, <3>1
      <4>2. QED
        BY <2>5, <2>6, <3>1, <4>1
    <3>2. CASE valb = -2
      <4>1. 6 * n + 4 = 8 * m
        BY <1>1, <3>2
      <4>2. QED
        BY <2>5, <2>6, <3>2, <4>1
    <3>3. QED
      BY <1>6, <3>1, <3>2
  <2>8. c \in 0..Pad
    BY <2>6 DEF Pad
  <2>9. /\ result' \in Seq(0..Pad) /\ Len(result') = n + 1
        /\ \A k \in 1..Len(result') : result'[k] = Encoding(data')[k]
    <3>1. data' = data
      BY <1>3
    <3>2. QED
      BY <1>1, <2>1, <2>7, <2>8, <3>1, TextGrows DEF n
  <2>10. Padding'
    BY <1>3, <2>3, <2>4, <2>9 DEF Padding, m
  <2>11. Typed'
    BY <1>3, <2>9 DEF IInv, Typed
  <2>12. QED
    BY <1>4, <2>10, <2>11
<1>7. QED
  BY <1>2, <1>5, <1>6

\* A text whose length is not a multiple of four can have one '=' more.
LEMMA RoomForPad ==
  ASSUME NEW m \in Nat, NEW n \in Nat, n <= 4 * ((m + 2) \div 3), n % 4 # 0
  PROVE  n + 1 <= 4 * ((m + 2) \div 3)
<1> DEFINE t == (m + 2) \div 3
<1>1. t \in Int /\ n <= 4 * t
  OBVIOUS
<1> HIDE DEF t
<1>2. ASSUME n = 4 * t PROVE FALSE
  BY <1>1, <1>2
<1>3. n + 1 <= 4 * t
  BY <1>1, <1>2
<1>4. QED
  BY <1>3 DEF t

\* One '=' more, where the encoding has one.
LEMMA FillStep == IInv /\ Fill => IInv'
<1> SUFFICES ASSUME IInv, Fill PROVE IInv'
  OBVIOUS
<1> DEFINE n == Len(result)
           m == Len(data)
<1>1. /\ m \in Nat /\ n \in Nat /\ data \in Seq(Octets) /\ result \in Seq(0..Pad)
  BY LenProperties DEF IInv, Typed
<1>2. /\ 8 * m <= 6 * n
      /\ n <= 4 * ((m + 2) \div 3)
      /\ \A k \in 1..n : result[k] = Encoding(data)[k]
      /\ n % 4 # 0
  BY DEF Fill, IInv, Padding
<1>3. /\ result' = Append(result, Pad) /\ at = "pad" /\ at' = "pad"
      /\ data' = data /\ i' = i /\ val' = val /\ valb' = valb
  BY DEF Fill
<1> HIDE DEF n, m
<1>4. n + 1 <= 4 * ((m + 2) \div 3) /\ 8 * m <= 6 * (n + 1)
  <2>1. n + 1 <= 4 * ((m + 2) \div 3)
    BY <1>1, <1>2, RoomForPad, Zenon
  <2>2. m \in Nat /\ n \in Nat /\ 8 * m <= 6 * n
    BY <1>1, <1>2
  <2>3. QED
    BY <2>1, <2>2
<1>5. Encoding(data)[n + 1] = Pad
  <2>1. n + 1 \in 1..4 * ((m + 2) \div 3) /\ (n + 1) - 1 = n /\ ~(6 * n < 8 * m)
    BY <1>1, <1>2, <1>4
  <2>2. QED
    BY <1>1, <2>1, EncodingParts DEF m
<1>6. Pad \in 0..Pad
  BY DEF Pad
<1>7. /\ result' \in Seq(0..Pad) /\ Len(result') = n + 1
      /\ \A k \in 1..Len(result') : result'[k] = Encoding(data')[k]
  BY <1>1, <1>2, <1>3, <1>5, <1>6, TextGrows DEF n
<1>8. Padding'
  BY <1>3, <1>4, <1>7 DEF Padding, m
<1>9. Typed'
  BY <1>3, <1>7 DEF IInv, Typed
<1>10. QED
  BY <1>3, <1>8, <1>9 DEF IInv, Waiting, PendingBits

LEMMA ReturnStep == IInv /\ Return => IInv'
<1> SUFFICES ASSUME IInv, Return PROVE IInv'
  OBVIOUS
<1>1. Typed' /\ Padding'
  BY DEF Return, IInv, Typed, Padding
<1>2. QED
  BY <1>1 DEF Return, IInv, Waiting, PendingBits

\* What holds in every state of the encoder.
THEOREM InductiveInvariant == Spec => []IInv
<1>1. IInv /\ UNCHANGED vars => IInv'
  BY DEF IInv, Typed, Waiting, PendingBits, Padding, vars
<1>2. IInv /\ [Next]_vars => IInv'
  BY <1>1, TakeStep, EmitStep, EmittedStep, TakeRestStep, FillStep, ReturnStep DEF Next, Returned
<1>3. QED
  BY InitIInv, <1>2, PTL DEF Spec

(***************************************************************************)
(* The loop loses no bit, of an input of any length and of any bytes,      *)
(* although val overflows from the fourth byte on.                         *)
(***************************************************************************)
THEOREM NoBitLost == Spec => []PendingBits
<1>1. IInv => PendingBits
  BY DEF IInv
<1>2. QED
  BY <1>1, InductiveInvariant, PTL

(***************************************************************************)
(* What base64_encode returns is the encoding of RFC 4648 of its input.    *)
(***************************************************************************)
THEOREM AlwaysEncodesAll == Spec => []EncodesAll
<1>1. IInv => EncodesAll
  <2> SUFFICES ASSUME IInv, at = "done" PROVE result = Encoding(data)
    BY DEF EncodesAll
  <2> DEFINE n == Len(result)
             m == Len(data)
  <2>1. /\ m \in Nat /\ n \in Nat /\ data \in Seq(Octets) /\ result \in Seq(0..Pad)
    BY LenProperties DEF IInv, Typed
  <2>2. /\ 8 * m <= 6 * n
        /\ n <= 4 * ((m + 2) \div 3)
        /\ \A k \in 1..n : result[k] = Encoding(data)[k]
        /\ n % 4 = 0
    BY DEF IInv, Padding
  <2>3. n = 4 * ((m + 2) \div 3)
    BY <2>1, <2>2
  <2>4. Encoding(data) \in Seq(0..Pad) /\ Len(Encoding(data)) = n
    BY <2>1, <2>3, EncodingParts
  <2>5. QED
    BY <2>1, <2>2, <2>4, SeqEqual
<1>2. QED
  BY <1>1, InductiveInvariant, PTL

=============================================================================
