----------------------------- MODULE WireProofs -----------------------------
(***************************************************************************)
(* What becomes of addresses, ports and sizes on their way from a packet   *)
(* to the server, for bytes of any size, any CIDR, any addresses and       *)
(* reports of any length.                                                  *)
(***************************************************************************)
EXTENDS Wire, NumberProofs

-----------------------------------------------------------------------------
(***************************************************************************)
(* The order of bytes.                                                     *)
(***************************************************************************)

\* The bits of a byte.
Pos == 0 .. Bits - 1

\* There is at least one.
LEMMA BitsPositive == Bits \in Nat /\ Bits > 0
  BY WireAssumption

\* A byte is a word of one byte.
LEMMA ByteBits == Byte = [Pos -> 0 .. 1]
<1>1. 0 .. 1 * Bits - 1 = Pos
  BY BitsPositive DEF Pos
<1> QED
  BY <1>1, Zenon DEF Byte, Word

\* Every bit of a uint32 is a bit of one of its bytes.
LEMMA BitOfByte ==
  ASSUME NEW i \in 0 .. 4 * Bits - 1
  PROVE  \E k \in 0 .. 3, j \in Pos : i = k * Bits + j
<1>1. i \div Bits \in 0 .. 3 /\ i % Bits \in Pos /\ i = (i \div Bits) * Bits + (i % Bits)
  BY BitsPositive, DividedBelow DEF Pos
<1> QED
  BY <1>1

\* Each bit of each byte is a bit of the word.
LEMMA BitOfWord ==
  ASSUME NEW k \in 0 .. 3, NEW j \in Pos
  PROVE  k * Bits + j \in 0 .. 4 * Bits - 1
<1>1. k = 0 \/ k = 1 \/ k = 2 \/ k = 3
  OBVIOUS
<1> QED
  BY <1>1, BitsPositive DEF Pos

\* Two words are equal if all bits of all bytes are.
LEMMA SameWord ==
  ASSUME NEW x \in Word(4), NEW y \in Word(4),
         \A k \in 0 .. 3, j \in Pos : x[k * Bits + j] = y[k * Bits + j]
  PROVE  x = y
<1>1. \A i \in 0 .. 4 * Bits - 1 : x[i] = y[i]
  BY BitOfByte
<1>2. /\ x = [i \in 0 .. 4 * Bits - 1 |-> x[i]]
      /\ y = [i \in 0 .. 4 * Bits - 1 |-> y[i]]
  BY Zenon DEF Word
<1> QED
  BY <1>1, <1>2, Zenon

\* Htonl reverses the bytes of a word.
LEMMA HtonlReverses ==
  ASSUME NEW x \in Word(4)
  PROVE  /\ Htonl(x) \in Word(4)
         /\ \A k \in 0 .. 3, j \in Pos : Htonl(x)[k * Bits + j] = x[(3 - k) * Bits + j]
<1> USE BitsPositive
<1> DEFINE D == 0 .. 4 * Bits - 1
           a == shl(x, 3)
           b == shl(x, 1) & byteMask(2)
           c == shr(x, 1) & byteMask(1)
           d == shr(x, 3)
<1>1. /\ a = [i \in D |-> IF i < 3 * Bits THEN 0 ELSE x[i - 3 * Bits]]
      /\ d = [i \in D |-> IF i + 3 * Bits < 4 * Bits THEN x[i + 3 * Bits] ELSE 0]
  BY DEF shl, shr
<1>2. b = [i \in D |-> IF i \in 2 * Bits .. 3 * Bits - 1 /\ x[i - Bits] = 1 THEN 1 ELSE 0]
  BY DEF shl, byteMask, &
<1>3. c = [i \in D |-> IF i \in Bits .. 2 * Bits - 1 /\ x[i + Bits] = 1 THEN 1 ELSE 0]
  BY DEF shr, byteMask, &
<1>4. Htonl(x) = [i \in D |-> IF a[i] = 1 \/ b[i] = 1 \/ c[i] = 1 \/ d[i] = 1 THEN 1 ELSE 0]
  <2> HIDE DEF a, b, c, d
  <2>1. Htonl(x) = a | b | c | d
    BY DEF a, b, c, d, Htonl
  <2>2. DOMAIN a = D
    BY <1>1
  <2> QED
    BY <2>1, <2>2 DEF |
<1> HIDE DEF a, b, c, d
<1>5. Htonl(x) \in Word(4)
  BY <1>4 DEF Word
<1>6. ASSUME NEW k \in 0 .. 3, NEW j \in Pos
      PROVE  Htonl(x)[k * Bits + j] = x[(3 - k) * Bits + j]
  <2>1. k = 0 \/ k = 1 \/ k = 2 \/ k = 3
    OBVIOUS
  <2>2. \A i \in D : x[i] \in 0 .. 1
    BY DEF Word
  <2>3. CASE k = 0
    BY <1>1, <1>2, <1>3, <1>4, <2>2, <2>3 DEF Pos
  <2>4. CASE k = 1
    BY <1>1, <1>2, <1>3, <1>4, <2>2, <2>4 DEF Pos
  <2>5. CASE k = 2
    BY <1>1, <1>2, <1>3, <1>4, <2>2, <2>5 DEF Pos
  <2>6. CASE k = 3
    BY <1>1, <1>2, <1>3, <1>4, <2>2, <2>6 DEF Pos
  <2> QED
    BY <2>1, <2>3, <2>4, <2>5, <2>6
<1> QED
  BY <1>5, <1>6

\* So does Ntohl.
LEMMA NtohlIsHtonl ==
  ASSUME NEW x
  PROVE  Ntohl(x) = Htonl(x)
  BY DEF Ntohl, Htonl

\* The four bytes of an address, the first one first.
IPv4 == [1 .. 4 -> Byte]

\* A byte that is shifted is a byte of the word, and the others are 0.
LEMMA ShiftedByte ==
  ASSUME NEW byte, NEW n \in 0 .. 3
  PROVE  shl(uint32(byte), n)
           = [i \in 0 .. 4 * Bits - 1 |->
                IF i \in n * Bits .. (n + 1) * Bits - 1 THEN byte[i - n * Bits] ELSE 0]
<1>1. n * Bits \in Nat /\ (n + 1) * Bits = n * Bits + Bits
  BY BitsPositive
<1>2. ASSUME NEW i \in 0 .. 4 * Bits - 1
      PROVE  (IF i < n * Bits THEN 0 ELSE uint32(byte)[i - n * Bits])
               = IF i \in n * Bits .. (n + 1) * Bits - 1 THEN byte[i - n * Bits] ELSE 0
  <2>1. CASE i < n * Bits
    BY <1>1, <2>1, BitsPositive
  <2>2. CASE i >= n * Bits
    <3>1. i - n * Bits \in 0 .. 4 * Bits - 1
      BY <1>1, <2>2, BitsPositive
    <3>2. uint32(byte)[i - n * Bits] = IF i - n * Bits < Bits THEN byte[i - n * Bits] ELSE 0
      BY <3>1 DEF uint32
    <3> QED
      BY <1>1, <2>2, <3>2, BitsPositive
  <2> QED
    BY <1>1, <2>1, <2>2, BitsPositive
<1> QED
  BY <1>2, Zenon DEF shl

\* ipToUint32 puts the first byte of an address into the most significant byte.
LEMMA InHostOrder ==
  ASSUME NEW ip \in IPv4
  PROVE  /\ ipToUint32(ip) \in Word(4)
         /\ \A k \in 0 .. 3, j \in Pos : ipToUint32(ip)[k * Bits + j] = ip[4 - k][j]
<1> USE BitsPositive
<1> DEFINE D == 0 .. 4 * Bits - 1
           a == shl(uint32(ip[1]), 3)
           b == shl(uint32(ip[2]), 2)
           c == shl(uint32(ip[3]), 1)
           d == shl(uint32(ip[4]), 0)
<1>1. \A n \in 1 .. 4 : \A j \in Pos : ip[n][j] \in 0 .. 1
  BY DEF IPv4, Byte, Word, Pos
<1>2. a = [i \in D |-> IF i \in 3 * Bits .. 4 * Bits - 1 THEN ip[1][i - 3 * Bits] ELSE 0]
  BY ShiftedByte, 4 * Bits = (3 + 1) * Bits
<1>3. b = [i \in D |-> IF i \in 2 * Bits .. 3 * Bits - 1 THEN ip[2][i - 2 * Bits] ELSE 0]
  BY ShiftedByte, 3 * Bits = (2 + 1) * Bits
<1>4. c = [i \in D |-> IF i \in Bits .. 2 * Bits - 1 THEN ip[3][i - Bits] ELSE 0]
  BY ShiftedByte, 1 * Bits = Bits, 2 * Bits = (1 + 1) * Bits
<1>5. d = [i \in D |-> IF i \in 0 .. Bits - 1 THEN ip[4][i - 0] ELSE 0]
  BY ShiftedByte, 0 * Bits = 0, Bits = (0 + 1) * Bits
<1>6. ipToUint32(ip) = [i \in D |-> IF a[i] = 1 \/ b[i] = 1 \/ c[i] = 1 \/ d[i] = 1 THEN 1 ELSE 0]
  <2> HIDE DEF a, b, c, d
  <2>1. ipToUint32(ip) = a | b | c | d
    BY DEF a, b, c, d, ipToUint32
  <2>2. DOMAIN a = D
    BY <1>2
  <2> QED
    BY <2>1, <2>2 DEF |
<1> HIDE DEF a, b, c, d
<1>7. ipToUint32(ip) \in Word(4)
  BY <1>6 DEF Word
<1>8. ASSUME NEW k \in 0 .. 3, NEW j \in Pos
      PROVE  ipToUint32(ip)[k * Bits + j] = ip[4 - k][j]
  <2>1. k = 0 \/ k = 1 \/ k = 2 \/ k = 3
    OBVIOUS
  <2>2. CASE k = 0
    BY <1>1, <1>2, <1>3, <1>4, <1>5, <1>6, <2>2 DEF Pos
  <2>3. CASE k = 1
    BY <1>1, <1>2, <1>3, <1>4, <1>5, <1>6, <2>3 DEF Pos
  <2>4. CASE k = 2
    BY <1>1, <1>2, <1>3, <1>4, <1>5, <1>6, <2>4 DEF Pos
  <2>5. CASE k = 3
    BY <1>1, <1>2, <1>3, <1>4, <1>5, <1>6, <2>5 DEF Pos
  <2> QED
    BY <2>1, <2>2, <2>3, <2>4, <2>5
<1> QED
  BY <1>7, <1>8

\* A little-endian load puts it into the least significant byte.
LEMMA InNetworkOrder ==
  ASSUME NEW ip \in IPv4
  PROVE  /\ load(ip) \in Word(4)
         /\ \A k \in 0 .. 3, j \in Pos : load(ip)[k * Bits + j] = ip[1 + k][j]
<1> DEFINE s == <<ip[4], ip[3], ip[2], ip[1]>>
<1>1. ASSUME NEW k \in 0 .. 3 PROVE s[4 - k] = ip[1 + k]
  BY k = 0 \/ k = 1 \/ k = 2 \/ k = 3
<1>2. load(ip) = [i \in 0 .. 4 * Bits - 1 |-> s[0 + 4 - (i \div Bits)][i % Bits]]
  BY DEF load, get
<1>3. \A n \in 1 .. 4 : \A j \in Pos : ip[n][j] \in 0 .. 1
  BY BitsPositive DEF IPv4, Byte, Word, Pos
<1> HIDE DEF s
<1>4. ASSUME NEW k \in 0 .. 3, NEW j \in Pos
      PROVE  load(ip)[k * Bits + j] = ip[1 + k][j]
  <2>1. (k * Bits + j) \div Bits = k /\ (k * Bits + j) % Bits = j
    BY BitsPositive, DividedBack DEF Pos
  <2>2. k * Bits + j \in 0 .. 4 * Bits - 1
    BY BitOfWord
  <2>3. load(ip)[k * Bits + j] = s[0 + 4 - k][j]
    BY <1>2, <2>1, <2>2, Zenon
  <2> QED
    BY <1>1, <2>3
<1>5. ASSUME NEW i \in 0 .. 4 * Bits - 1 PROVE load(ip)[i] \in 0 .. 1
  <2>1. PICK k \in 0 .. 3, j \in Pos : i = k * Bits + j
    BY BitOfByte
  <2>2. load(ip)[i] = ip[1 + k][j] /\ 1 + k \in 1 .. 4
    BY <1>4, <2>1
  <2> QED
    BY <1>3, <2>2
<1>6. load(ip) \in Word(4)
  BY <1>2, <1>5 DEF Word
<1> QED
  BY <1>4, <1>6

\* The hook's word of an address and the host's are the reverse of each other.
LEMMA SameAddress ==
  ASSUME NEW ip \in IPv4
  PROVE  Ntohl(load(ip)) = ipToUint32(ip) /\ Htonl(ipToUint32(ip)) = load(ip)
<1>1. ASSUME NEW x \in Word(4), NEW y \in Word(4),
             \A k \in 0 .. 3, j \in Pos : x[(3 - k) * Bits + j] = y[k * Bits + j]
      PROVE  Htonl(x) = y
  BY <1>1, HtonlReverses, SameWord
<1>2. ASSUME NEW k \in 0 .. 3, NEW j \in Pos
      PROVE  /\ load(ip)[(3 - k) * Bits + j] = ipToUint32(ip)[k * Bits + j]
             /\ ipToUint32(ip)[(3 - k) * Bits + j] = load(ip)[k * Bits + j]
  <2>1. 3 - k \in 0 .. 3 /\ 1 + (3 - k) = 4 - k /\ 4 - (3 - k) = 1 + k
    OBVIOUS
  <2> QED
    BY <2>1, InHostOrder, InNetworkOrder
<1> QED
  BY <1>1, <1>2, InHostOrder, InNetworkOrder, NtohlIsHtonl

\* Two bytes of a header, the first one first.
Pair == [1 .. 2 -> Byte]

\* The two bytes of a word of two.
LEMMA BitOfPair ==
  ASSUME NEW i \in 0 .. 2 * Bits - 1
  PROVE  /\ i < Bits => i \in Pos /\ i + Bits \in 0 .. 2 * Bits - 1
                         /\ i \div Bits = 0 /\ i % Bits = i
                         /\ (i + Bits) \div Bits = 1 /\ (i + Bits) % Bits = i
         /\ i >= Bits => i - Bits \in Pos /\ i - Bits \in 0 .. 2 * Bits - 1
                          /\ i \div Bits = 1 /\ i % Bits = i - Bits
                          /\ (i - Bits) \div Bits = 0 /\ (i - Bits) % Bits = i - Bits
<1>1. ASSUME NEW j \in Pos
      PROVE  /\ j \div Bits = 0 /\ j % Bits = j
             /\ (j + Bits) \div Bits = 1 /\ (j + Bits) % Bits = j
  <2>1. j = 0 * Bits + j /\ j + Bits = 1 * Bits + j /\ j \in 0 .. Bits - 1 /\ Bits \in Nat \ {0}
    BY BitsPositive DEF Pos
  <2> QED
    BY <2>1, DividedBack
<1>2. ASSUME i < Bits PROVE i \in Pos /\ i + Bits \in 0 .. 2 * Bits - 1
  BY <1>2, BitsPositive DEF Pos
<1>3. ASSUME i >= Bits
      PROVE  i - Bits \in Pos /\ i - Bits \in 0 .. 2 * Bits - 1 /\ (i - Bits) + Bits = i
  BY <1>3, BitsPositive DEF Pos
<1>4. ASSUME i >= Bits
      PROVE  /\ i \div Bits = 1 /\ i % Bits = i - Bits
             /\ (i - Bits) \div Bits = 0 /\ (i - Bits) % Bits = i - Bits
  <2> DEFINE j == i - Bits
  <2>1. j \in Pos /\ j + Bits = i
    BY <1>3, <1>4
  <2> HIDE DEF j
  <2>2. /\ j \div Bits = 0 /\ j % Bits = j
        /\ (j + Bits) \div Bits = 1 /\ (j + Bits) % Bits = j
    BY <1>1, <2>1
  <2>3. j \div Bits = 0 /\ j % Bits = j /\ i \div Bits = 1 /\ i % Bits = j
    BY <2>1, <2>2, Zenon
  <2> QED
    BY <2>3 DEF j
<1> QED
  BY <1>1, <1>2, <1>3, <1>4, Zenon

\* The bits of a number of a header.
LEMMA NumberBits ==
  ASSUME NEW b \in Pair, NEW i \in 0 .. 2 * Bits - 1
  PROVE  /\ numberIn(b, 2)[i] = IF i < Bits THEN b[2][i] ELSE b[1][i - Bits]
         /\ numberIn(b, 8)[i] = numberIn(b, 2)[i]
         /\ numberIn(b, 2)[i] \in 0 .. 1
<1>1. i \in 0 .. 8 * Bits - 1 /\ i < 2 * Bits
  BY BitsPositive
<1>2. /\ numberIn(b, 2)[i] = b[2 - (i \div Bits)][i % Bits]
      /\ numberIn(b, 8)[i] = b[2 - (i \div Bits)][i % Bits]
  BY <1>1, Zenon DEF numberIn
<1>3. \A n \in 1 .. 2 : \A j \in Pos : b[n][j] \in 0 .. 1
  BY ByteBits DEF Pair
<1>4. CASE i < Bits
  <2>1. i \in Pos /\ i \div Bits = 0 /\ i % Bits = i /\ 2 - 0 = 2 /\ 2 \in 1 .. 2
    BY <1>4, BitOfPair
  <2>2. numberIn(b, 2)[i] = b[2][i]
    BY <1>2, <2>1, Zenon
  <2> QED
    BY <1>2, <1>3, <1>4, <2>1, <2>2, Zenon
<1>5. CASE ~(i < Bits)
  <2>1. i - Bits \in Pos /\ i \div Bits = 1 /\ i % Bits = i - Bits /\ 2 - 1 = 1 /\ 1 \in 1 .. 2
    <3>1. i >= Bits
      BY <1>5, BitsPositive
    <3> QED
      BY <3>1, BitOfPair
  <2>2. numberIn(b, 2)[i] = b[1][i - Bits]
    BY <1>2, <2>1, Zenon
  <2> QED
    BY <1>2, <1>3, <1>5, <2>1, <2>2, Zenon
<1> QED
  BY <1>4, <1>5

\* bpf_ntohs of what is loaded from a header is the number it stands for.
LEMMA HeaderNumber ==
  ASSUME NEW b \in Pair
  PROVE  /\ bpf_ntohs(load16(b)) = numberIn(b, 2)
         /\ numberIn(b, 2) \in Word(2)
<1> DEFINE D == 0 .. 2 * Bits - 1
           s == <<b[2], b[1]>>
           x == load16(b)
<1>1. x = [i \in D |-> s[0 + 2 - (i \div Bits)][i % Bits]]
  BY DEF load16, get
<1>2. s[1] = b[2] /\ s[2] = b[1]
  OBVIOUS
<1> HIDE DEF s, x
<1>3. ASSUME NEW i \in D
      PROVE  (IF i < Bits THEN x[i + Bits] ELSE x[i - Bits]) = numberIn(b, 2)[i]
  <2>1. CASE i < Bits
    <3>1. i + Bits \in D /\ (i + Bits) \div Bits = 1 /\ (i + Bits) % Bits = i /\ 0 + 2 - 1 = 1
      BY <2>1, BitOfPair
    <3>2. x[i + Bits] = s[1][i]
      BY <1>1, <3>1, Zenon
    <3> QED
      BY <1>2, <2>1, <3>2, NumberBits
  <2>2. CASE ~(i < Bits)
    <3>1. i - Bits \in D /\ (i - Bits) \div Bits = 0 /\ (i - Bits) % Bits = i - Bits /\ 0 + 2 - 0 = 2
      <4>1. i >= Bits
        BY <2>2, BitsPositive
      <4> QED
        BY <4>1, BitOfPair
    <3>2. x[i - Bits] = s[2][i - Bits]
      BY <1>1, <3>1, Zenon
    <3> QED
      BY <1>2, <2>2, <3>2, NumberBits
  <2> QED
    BY <2>1, <2>2
<1>4. bpf_ntohs(x) = [i \in D |-> IF i < Bits THEN x[i + Bits] ELSE x[i - Bits]]
  BY Zenon DEF bpf_ntohs
<1>5. numberIn(b, 2) = [i \in D |-> numberIn(b, 2)[i]]
  BY Zenon DEF numberIn
<1>6. bpf_ntohs(x) = numberIn(b, 2)
  BY <1>3, <1>4, <1>5, Zenon
<1>7. \A i \in D : numberIn(b, 2)[i] \in 0 .. 1
  BY NumberBits
<1>8. numberIn(b, 2) \in Word(2)
  BY <1>5, <1>7, Zenon DEF Word
<1> QED
  BY <1>6, <1>8 DEF x

\* It is the same number in 64 bits.
LEMMA WidenedNumber ==
  ASSUME NEW b \in Pair
  PROVE  uint64(numberIn(b, 2)) = numberIn(b, 8) /\ numberIn(b, 8) \in Word(8)
<1> DEFINE D == 0 .. 8 * Bits - 1
<1>1. ASSUME NEW i \in D
      PROVE  /\ (IF i < 2 * Bits THEN numberIn(b, 2)[i] ELSE 0) = numberIn(b, 8)[i]
             /\ numberIn(b, 8)[i] \in 0 .. 1
  <2>1. CASE i < 2 * Bits
    <3>1. i \in 0 .. 2 * Bits - 1
      BY <2>1, BitsPositive
    <3> QED
      BY <2>1, <3>1, NumberBits
  <2>2. CASE ~(i < 2 * Bits)
    <3>1. numberIn(b, 8)[i] = 0
      BY <2>2, Zenon DEF numberIn
    <3> QED
      BY <2>2, <3>1
  <2> QED
    BY <2>1, <2>2
<1>2. numberIn(b, 8) = [i \in D |-> numberIn(b, 8)[i]]
  BY Zenon DEF numberIn
<1>3. uint64(numberIn(b, 2)) = numberIn(b, 8)
  BY <1>1, <1>2, Zenon DEF uint64
<1>4. numberIn(b, 8) \in Word(8)
  BY <1>1, <1>2, Zenon DEF Word
<1> QED
  BY <1>3, <1>4

\* No two pairs of bytes stand for the same number.
LEMMA OneNumberEach ==
  ASSUME NEW b \in Pair, NEW c \in Pair, numberIn(b, 2) = numberIn(c, 2)
  PROVE  b = c
<1>1. ASSUME NEW j \in Pos PROVE b[1][j] = c[1][j] /\ b[2][j] = c[2][j]
  <2>1. /\ j \in 0 .. 2 * Bits - 1 /\ j < Bits
        /\ j + Bits \in 0 .. 2 * Bits - 1 /\ ~(j + Bits < Bits) /\ (j + Bits) - Bits = j
    BY BitsPositive DEF Pos
  <2>2. /\ numberIn(b, 2)[j] = b[2][j] /\ numberIn(c, 2)[j] = c[2][j]
    BY <2>1, NumberBits
  <2>3. /\ numberIn(b, 2)[j + Bits] = b[1][(j + Bits) - Bits]
        /\ numberIn(c, 2)[j + Bits] = c[1][(j + Bits) - Bits]
    BY <2>1, NumberBits, Zenon
  <2> QED
    BY <2>1, <2>2, <2>3
<1>2. ASSUME NEW n \in 1 .. 2 PROVE b[n] = c[n]
  <2>1. b[n] \in [Pos -> 0 .. 1] /\ c[n] \in [Pos -> 0 .. 1]
    BY ByteBits DEF Pair
  <2>2. b[n] = [j \in Pos |-> b[n][j]] /\ c[n] = [j \in Pos |-> c[n][j]]
    BY <2>1, Zenon
  <2>3. \A j \in Pos : b[n][j] = c[n][j]
    BY <1>1, n = 1 \/ n = 2
  <2> QED
    BY <2>2, <2>3, Zenon
<1> QED
  BY <1>2 DEF Pair

\* No two addresses have the same word.
LEMMA OneWordEach ==
  ASSUME NEW ip \in IPv4, NEW other \in IPv4, ipToUint32(ip) = ipToUint32(other)
  PROVE  ip = other
<1>1. ASSUME NEW n \in 1 .. 4, NEW j \in Pos PROVE ip[n][j] = other[n][j]
  <2>1. 4 - n \in 0 .. 3 /\ 4 - (4 - n) = n
    OBVIOUS
  <2> QED
    BY <2>1, InHostOrder
<1>2. ASSUME NEW n \in 1 .. 4 PROVE ip[n] = other[n]
  <2>1. ip[n] \in [Pos -> 0 .. 1] /\ other[n] \in [Pos -> 0 .. 1]
    BY ByteBits DEF IPv4
  <2>2. ip[n] = [j \in Pos |-> ip[n][j]] /\ other[n] = [j \in Pos |-> other[n][j]]
    BY <2>1, Zenon
  <2> QED
    BY <1>1, <2>2, Zenon
<1> QED
  BY <1>2 DEF IPv4

-----------------------------------------------------------------------------
(***************************************************************************)
(* The subnet.                                                             *)
(***************************************************************************)

\* One step of maskToUint32: the word moves up and the byte comes in below.
LEMMA ShiftedIn ==
  ASSUME NEW x \in Word(4), NEW byte \in Byte
  PROVE  /\ (shl(x, 1) | uint32(byte)) \in Word(4)
         /\ \A i \in 0 .. 4 * Bits - 1 :
              (shl(x, 1) | uint32(byte))[i] = IF i < Bits THEN byte[i] ELSE x[i - Bits]
<1> USE BitsPositive
<1> DEFINE D == 0 .. 4 * Bits - 1
           y == shl(x, 1)
           b == uint32(byte)
<1>1. y = [i \in D |-> IF i < 1 * Bits THEN 0 ELSE x[i - 1 * Bits]]
  BY DEF shl
<1>2. b = [i \in D |-> IF i < Bits THEN byte[i] ELSE 0]
  BY DEF uint32
<1> HIDE DEF y, b
<1>3. (y | b) = [i \in D |-> IF y[i] = 1 \/ b[i] = 1 THEN 1 ELSE 0]
  <2>1. DOMAIN y = D
    BY <1>1
  <2> QED
    BY <2>1, Zenon DEF |
<1>4. /\ \A i \in D : x[i] \in 0 .. 1
      /\ \A i \in 0 .. Bits - 1 : byte[i] \in 0 .. 1
  BY ByteBits DEF Word, Pos
<1>5. (y | b) \in Word(4)
  BY <1>3 DEF Word
<1>6. ASSUME NEW i \in D PROVE (y | b)[i] = IF i < Bits THEN byte[i] ELSE x[i - Bits]
  <2>1. (y | b)[i] = IF y[i] = 1 \/ b[i] = 1 THEN 1 ELSE 0
    BY <1>3
  <2>2. CASE i < Bits
    <3>1. y[i] = 0 /\ b[i] = byte[i]
      BY <1>1, <1>2, <2>2
    <3> QED
      BY <1>4, <2>1, <2>2, <3>1
  <2>3. CASE i >= Bits
    <3>1. y[i] = x[i - Bits] /\ b[i] = 0 /\ i - Bits \in D
      BY <1>1, <1>2, <2>3
    <3> QED
      BY <1>4, <2>1, <2>3, <3>1
  <2> QED
    BY <2>2, <2>3
<1> QED
  BY <1>5, <1>6 DEF y, b

\* maskToUint32 puts the first byte of a mask into the most significant byte.
LEMMA MaskInHostOrder ==
  ASSUME NEW mask \in IPv4
  PROVE  /\ maskToUint32(mask) \in Word(4)
         /\ \A k \in 0 .. 3, j \in Pos : maskToUint32(mask)[k * Bits + j] = mask[4 - k][j]
<1> USE BitsPositive
<1> DEFINE D == 0 .. 4 * Bits - 1
           a == uint32(mask[1])
           b == shl(a, 1) | uint32(mask[2])
           c == shl(b, 1) | uint32(mask[3])
           d == shl(c, 1) | uint32(mask[4])
<1>1. \A n \in 1 .. 4 : mask[n] \in Byte
  BY DEF IPv4
<1>2. maskToUint32(mask) = d
  BY DEF maskToUint32
<1>3. a \in Word(4) /\ \A i \in D : a[i] = IF i < Bits THEN mask[1][i] ELSE 0
  <2>1. \A i \in 0 .. Bits - 1 : mask[1][i] \in 0 .. 1
    BY <1>1, ByteBits DEF Pos
  <2>2. \A i \in D : a[i] \in 0 .. 1
    BY <2>1 DEF uint32
  <2> QED
    BY <2>2 DEF uint32, Word
<1> HIDE DEF a
<1>4. b \in Word(4) /\ \A i \in D : b[i] = IF i < Bits THEN mask[2][i] ELSE a[i - Bits]
  <2>1. mask[2] \in Byte
    BY <1>1
  <2> QED
    BY <1>3, <2>1, ShiftedIn, Zenon
<1> HIDE DEF b
<1>5. c \in Word(4) /\ \A i \in D : c[i] = IF i < Bits THEN mask[3][i] ELSE b[i - Bits]
  <2>1. mask[3] \in Byte
    BY <1>1
  <2> QED
    BY <1>4, <2>1, ShiftedIn, Zenon
<1> HIDE DEF c
<1>6. d \in Word(4) /\ \A i \in D : d[i] = IF i < Bits THEN mask[4][i] ELSE c[i - Bits]
  <2>1. mask[4] \in Byte
    BY <1>1
  <2> QED
    BY <1>5, <2>1, ShiftedIn, Zenon
<1> HIDE DEF d
<1>7. ASSUME NEW k \in 0 .. 3, NEW j \in Pos PROVE d[k * Bits + j] = mask[4 - k][j]
  <2>1. k = 0 \/ k = 1 \/ k = 2 \/ k = 3
    OBVIOUS
  <2>2. CASE k = 0
    BY <1>6, <2>2 DEF Pos
  <2>3. CASE k = 1
    <3>1. d[Bits + j] = c[j] /\ c[j] = mask[3][j]
      BY <1>5, <1>6 DEF Pos
    <3> QED
      BY <2>3, <3>1
  <2>4. CASE k = 2
    <3>1. d[2 * Bits + j] = c[Bits + j] /\ c[Bits + j] = b[j] /\ b[j] = mask[2][j]
      BY <1>4, <1>5, <1>6 DEF Pos
    <3>2. k * Bits + j = 2 * Bits + j /\ 4 - k = 2
      BY <2>4
    <3> QED
      BY <3>1, <3>2, Zenon
  <2>5. CASE k = 3
    <3>1. d[3 * Bits + j] = c[2 * Bits + j] /\ c[2 * Bits + j] = b[Bits + j]
      <4>1. /\ 3 * Bits + j \in D /\ ~(3 * Bits + j < Bits) /\ (3 * Bits + j) - Bits = 2 * Bits + j
            /\ 2 * Bits + j \in D /\ ~(2 * Bits + j < Bits) /\ (2 * Bits + j) - Bits = Bits + j
        BY DEF Pos
      <4>2. \A i \in D : ~(i < Bits) => d[i] = c[i - Bits] /\ c[i] = b[i - Bits]
        BY <1>5, <1>6
      <4>3. /\ d[3 * Bits + j] = c[(3 * Bits + j) - Bits]
            /\ c[2 * Bits + j] = b[(2 * Bits + j) - Bits]
        BY <4>1, <4>2, Zenon
      <4> QED
        BY <4>1, <4>2, <4>3
    <3>2. b[Bits + j] = a[j] /\ a[j] = mask[1][j]
      BY <1>3, <1>4 DEF Pos
    <3> QED
      BY <2>5, <3>1, <3>2
  <2> QED
    BY <2>1, <2>2, <2>3, <2>4, <2>5
<1> QED
  BY <1>2, <1>6, <1>7

\* A mask has a 1 for each of the first bits of an address.
LEMMA MaskBits ==
  ASSUME NEW ones \in 0 .. 4 * Bits
  PROVE  /\ maskToUint32(cidrMask(ones)) \in Word(4)
         /\ \A i \in 0 .. 4 * Bits - 1 :
              maskToUint32(cidrMask(ones))[i] = IF i >= 4 * Bits - ones THEN 1 ELSE 0
<1> DEFINE mask == cidrMask(ones)
<1>1. ASSUME NEW n \in 1 .. 4, NEW j \in Pos
      PROVE  mask[n][j] = IF n * Bits - 1 - j < ones THEN 1 ELSE 0
  BY DEF cidrMask, Pos
<1>2. mask \in IPv4
  <2>1. mask = [n \in 1 .. 4 |-> [j \in Pos |-> IF n * Bits - 1 - j < ones THEN 1 ELSE 0]]
    BY Zenon DEF cidrMask, Pos
  <2>2. \A n \in 1 .. 4 : [j \in Pos |-> IF n * Bits - 1 - j < ones THEN 1 ELSE 0] \in [Pos -> 0 .. 1]
    OBVIOUS
  <2> QED
    BY <2>1, <2>2, ByteBits DEF IPv4
<1> HIDE DEF mask
<1>3. ASSUME NEW i \in 0 .. 4 * Bits - 1
      PROVE  maskToUint32(mask)[i] = IF i >= 4 * Bits - ones THEN 1 ELSE 0
  <2>1. PICK k \in 0 .. 3, j \in Pos : i = k * Bits + j
    BY BitOfByte
  <2>2. 4 - k \in 1 .. 4 /\ (4 - k) * Bits = 4 * Bits - k * Bits /\ k * Bits \in Nat
    BY BitsPositive
  <2>3. maskToUint32(mask)[i] = IF (4 - k) * Bits - 1 - j < ones THEN 1 ELSE 0
    <3>1. maskToUint32(mask)[i] = mask[4 - k][j]
      BY <1>2, <2>1, MaskInHostOrder
    <3>2. mask[4 - k][j] = IF (4 - k) * Bits - 1 - j < ones THEN 1 ELSE 0
      BY <1>1, <2>2, Zenon
    <3> QED
      BY <3>1, <3>2, Zenon
  <2>4. (4 - k) * Bits - 1 - j < ones <=> i >= 4 * Bits - ones
    BY <2>1, <2>2, BitsPositive DEF Pos
  <2> QED
    BY <2>3, <2>4, Zenon
<1> QED
  BY <1>2, <1>3, MaskInHostOrder DEF mask

\* A CIDR whose address is the address of a network: no bit is set after the prefix.
isNetwork(c) == \A i \in 0 .. 4 * Bits - 1 : i < 4 * Bits - c.ones => ipToUint32(c.ip)[i] = 0

\* The hook's test on words in network order is a test on words in host order.
LEMMA TestInHostOrder ==
  ASSUME NEW ip \in IPv4, NEW x \in Word(4), NEW y \in Word(4)
  PROVE  (load(ip) & Htonl(x)) = Htonl(y)
           <=> \A i \in 0 .. 4 * Bits - 1 : (ipToUint32(ip)[i] = 1 /\ x[i] = 1) <=> y[i] = 1
<1> DEFINE D == 0 .. 4 * Bits - 1
           u == ipToUint32(ip)
           w == load(ip) & Htonl(x)
<1>1. w = [i \in D |-> IF load(ip)[i] = 1 /\ Htonl(x)[i] = 1 THEN 1 ELSE 0]
  <2>1. DOMAIN load(ip) = D
    BY InNetworkOrder DEF Word
  <2> QED
    BY <2>1, Zenon DEF &
<1>2. w \in Word(4)
  BY <1>1 DEF Word
<1>3. ASSUME NEW k \in 0 .. 3, NEW j \in Pos
      PROVE  /\ w[k * Bits + j] = IF u[(3 - k) * Bits + j] = 1 /\ x[(3 - k) * Bits + j] = 1 THEN 1 ELSE 0
             /\ Htonl(y)[k * Bits + j] = y[(3 - k) * Bits + j]
             /\ y[(3 - k) * Bits + j] \in 0 .. 1
  <2>1. k * Bits + j \in D /\ 3 - k \in 0 .. 3
    BY BitOfWord
  <2>2. (3 - k) * Bits + j \in D
    BY <2>1, BitOfWord
  <2>3. load(ip)[k * Bits + j] = u[(3 - k) * Bits + j]
    <3>1. 4 - (3 - k) = 1 + k
      OBVIOUS
    <3> QED
      BY <2>1, <3>1, InNetworkOrder, InHostOrder
  <2>4. Htonl(x)[k * Bits + j] = x[(3 - k) * Bits + j] /\ Htonl(y)[k * Bits + j] = y[(3 - k) * Bits + j]
    BY HtonlReverses
  <2>5. w[k * Bits + j] = IF load(ip)[k * Bits + j] = 1 /\ Htonl(x)[k * Bits + j] = 1 THEN 1 ELSE 0
    BY <1>1, <2>1, Zenon
  <2>6. y[(3 - k) * Bits + j] \in 0 .. 1
    BY <2>2 DEF Word
  <2> QED
    BY <2>3, <2>4, <2>5, <2>6, Zenon
<1> HIDE DEF w, u
<1>4. ASSUME w = Htonl(y), NEW i \in D PROVE (u[i] = 1 /\ x[i] = 1) <=> y[i] = 1
  <2>1. PICK k \in 0 .. 3, j \in Pos : i = k * Bits + j
    BY BitOfByte
  <2>2. 3 - k \in 0 .. 3 /\ 3 - (3 - k) = k
    OBVIOUS
  <2>3. /\ w[(3 - k) * Bits + j] = IF u[i] = 1 /\ x[i] = 1 THEN 1 ELSE 0
        /\ Htonl(y)[(3 - k) * Bits + j] = y[i]
        /\ y[i] \in 0 .. 1
    BY <1>3, <2>1, <2>2
  <2> QED
    BY <1>4, <2>3
<1>5. ASSUME \A i \in D : (u[i] = 1 /\ x[i] = 1) <=> y[i] = 1 PROVE w = Htonl(y)
  <2>1. ASSUME NEW k \in 0 .. 3, NEW j \in Pos PROVE w[k * Bits + j] = Htonl(y)[k * Bits + j]
    <3>1. 3 - k \in 0 .. 3
      OBVIOUS
    <3>2. (3 - k) * Bits + j \in D
      BY <3>1, BitOfWord
    <3>3. (u[(3 - k) * Bits + j] = 1 /\ x[(3 - k) * Bits + j] = 1) <=> y[(3 - k) * Bits + j] = 1
      BY <1>5, <3>2
    <3> QED
      BY <1>3, <3>3
  <2> QED
    BY <1>2, <2>1, HtonlReverses, SameWord
<1> QED
  BY <1>4, <1>5 DEF w, u

\* The hook's test is membership in the subnet.
LEMMA TestIsMembership ==
  ASSUME cidr \in Cidr, isNetwork(cidr), NEW ip \in Address
  PROVE  inSubnet(ip) <=> member(ip)
<1> DEFINE D == 0 .. 4 * Bits - 1
           u == ipToUint32(ip)
           m == maskToUint32(cidrMask(cidr.ones))
           y == ipToUint32(cidr.ip)
<1>1. ip \in IPv4 /\ cidr.ip \in IPv4 /\ cidr.ones \in 0 .. 4 * Bits
  BY WireAssumption DEF IPv4
<1>2. /\ u \in Word(4) /\ y \in Word(4) /\ m \in Word(4)
      /\ \A i \in D : m[i] = IF i >= 4 * Bits - cidr.ones THEN 1 ELSE 0
  BY <1>1, InHostOrder, MaskBits
<1>3. inSubnet(ip) <=> \A i \in D : (u[i] = 1 /\ m[i] = 1) <=> y[i] = 1
  BY <1>1, <1>2, TestInHostOrder DEF inSubnet, subnet_mask, subnet_prefix
<1>4. member(ip) <=> \A i \in D : i >= 4 * Bits - cidr.ones => u[i] = y[i]
  BY <1>1, BitsPositive DEF member
<1>5. \A i \in D : i < 4 * Bits - cidr.ones => y[i] = 0
  BY DEF isNetwork
<1>6. \A i \in D : u[i] \in 0 .. 1 /\ y[i] \in 0 .. 1
  BY <1>2 DEF Word
<1> HIDE DEF u, m, y
<1>7. ASSUME NEW i \in D
      PROVE  ((u[i] = 1 /\ m[i] = 1) <=> y[i] = 1) <=> (i >= 4 * Bits - cidr.ones => u[i] = y[i])
  BY <1>1, <1>2, <1>5, <1>6, BitsPositive
<1> QED
  BY <1>3, <1>4, <1>7

-----------------------------------------------------------------------------
(***************************************************************************)
(* Numbers in 32 bits.  What the recursive functions compute is stated     *)
(* step by step, for the proofs by induction.                              *)
(***************************************************************************)

\* The number of bits of a uint32.
Width == 4 * Bits

\* It has at least four.
LEMMA WidthInNat == Width \in Nat /\ Width > 0
  BY BitsPositive DEF Width

\* Uint32 doubles 1 once for each bit.
LEMMA Doubled ==
  \E p \in [0 .. Width -> Nat] :
    /\ p[0] = 1 /\ \A i \in 1 .. Width : p[i] = 2 * p[i - 1]
    /\ Uint32 = p[Width]
<1> DEFINE g == [i \in Nat |-> [x \in Nat |-> 2 * x]]
<1>1. g \in [Nat -> [Nat -> Nat]]
  OBVIOUS
<1>2. PICK f \in [0 .. Width -> Nat] : Steps(f, 1, g, Width)
  <2>1. 1 \in Nat /\ Width \in Nat
    BY WidthInNat
  <2> HIDE DEF g
  <2> QED
    BY <1>1, <2>1, Iterated, Zenon
<1>3. f = [i \in 0 .. Width |-> IF i = 0 THEN 1 ELSE 2 * f[i - 1]]
  <2>1. ASSUME NEW i \in 1 .. Width PROVE f[i] = 2 * f[i - 1]
    <3>1. i \in Nat /\ f[i - 1] \in Nat
      BY WidthInNat
    <3>2. g[i][f[i - 1]] = 2 * f[i - 1]
      BY <3>1
    <3> QED
      BY <1>2, <3>2, Zenon DEF Steps
  <2> QED
    BY <1>2, <2>1 DEF Steps
<1> DEFINE Is(h) == h = [i \in 0 .. Width |-> IF i = 0 THEN 1 ELSE 2 * h[i - 1]]
           p == CHOOSE h : Is(h)
<1>4. Is(p)
  BY <1>3
<1>5. Uint32 = p[Width]
  BY DEF Uint32, Width
<1> HIDE DEF p
<1>6. \A i \in 0 .. Width : i \in {j \in 0 .. Width : p[j] \in Nat}
  <2>1. 0 \in {j \in 0 .. Width : p[j] \in Nat}
    BY <1>4, WidthInNat
  <2>2. ASSUME NEW i \in 1 .. Width, i - 1 \in {j \in 0 .. Width : p[j] \in Nat}
        PROVE  i \in {j \in 0 .. Width : p[j] \in Nat}
    BY <1>4, <2>2, WidthInNat
  <2> QED
    BY <2>1, <2>2, WidthInNat, UpTo
<1>7. p \in [0 .. Width -> Nat] /\ p[0] = 1 /\ \A i \in 1 .. Width : p[i] = 2 * p[i - 1]
  BY <1>4, <1>6, WidthInNat
<1> QED
  BY <1>5, <1>7

\* uint32Of takes the remainders of n that is halved once for each bit.
LEMMA Halved ==
  ASSUME NEW n \in Nat
  PROVE  \E p \in [0 .. Width -> Nat] :
           /\ p[0] = n /\ \A i \in 1 .. Width : p[i] = p[i - 1] \div 2
           /\ uint32Of(n) = [i \in 0 .. Width - 1 |-> p[i] % 2]
<1> DEFINE g == [i \in Nat |-> [x \in Nat |-> x \div 2]]
<1>1. g \in [Nat -> [Nat -> Nat]]
  OBVIOUS
<1>2. PICK f \in [0 .. Width -> Nat] : Steps(f, n, g, Width)
  <2>1. Width \in Nat
    BY WidthInNat
  <2> HIDE DEF g
  <2> QED
    BY <1>1, <2>1, Iterated, Zenon
<1>3. f = [i \in 0 .. Width |-> IF i = 0 THEN n ELSE f[i - 1] \div 2]
  <2>1. ASSUME NEW i \in 1 .. Width PROVE f[i] = f[i - 1] \div 2
    <3>1. i \in Nat /\ f[i - 1] \in Nat
      BY WidthInNat
    <3>2. g[i][f[i - 1]] = f[i - 1] \div 2
      BY <3>1
    <3> QED
      BY <1>2, <3>2, Zenon DEF Steps
  <2> QED
    BY <1>2, <2>1 DEF Steps
<1> DEFINE Is(h) == h = [i \in 0 .. Width |-> IF i = 0 THEN n ELSE h[i - 1] \div 2]
           p == CHOOSE h : Is(h)
<1>4. Is(p)
  BY <1>3
<1>5. uint32Of(n) = [i \in 0 .. Width - 1 |-> p[i] % 2]
  BY DEF uint32Of, Width
<1> HIDE DEF p
<1>6. \A i \in 0 .. Width : i \in {j \in 0 .. Width : p[j] \in Nat}
  <2>1. 0 \in {j \in 0 .. Width : p[j] \in Nat}
    BY <1>4, WidthInNat
  <2>2. ASSUME NEW i \in 1 .. Width, i - 1 \in {j \in 0 .. Width : p[j] \in Nat}
        PROVE  i \in {j \in 0 .. Width : p[j] \in Nat}
    <3>1. i \in 0 .. Width /\ i # 0 /\ p[i - 1] \in Nat
      BY <2>2, WidthInNat
    <3>2. p[i] = p[i - 1] \div 2
      BY <1>4, <3>1, Zenon
    <3>3. p[i] \in Nat
      BY <3>1, <3>2
    <3> QED
      BY <3>1, <3>3
  <2> QED
    BY <2>1, <2>2, WidthInNat, UpTo
<1>7. p \in [0 .. Width -> Nat] /\ p[0] = n /\ \A i \in 1 .. Width : p[i] = p[i - 1] \div 2
  BY <1>4, <1>6, WidthInNat
<1> QED
  BY <1>5, <1>7

\* numberOf doubles and adds a bit, from the most significant one.
LEMMA Summed ==
  ASSUME NEW x \in Word(4)
  PROVE  \E p \in [0 .. Width -> Nat] :
           /\ p[0] = 0 /\ \A i \in 1 .. Width : p[i] = 2 * p[i - 1] + x[Width - i]
           /\ numberOf(x) = p[Width]
<1> DEFINE g == [i \in Nat |-> [y \in Nat |-> IF i \in 1 .. Width THEN 2 * y + x[Width - i] ELSE 0]]
<1>0. \A i \in 1 .. Width : x[Width - i] \in Nat
  BY WidthInNat DEF Word, Width
<1>1. g \in [Nat -> [Nat -> Nat]]
  BY <1>0
<1>2. PICK f \in [0 .. Width -> Nat] : Steps(f, 0, g, Width)
  <2>1. Width \in Nat /\ 0 \in Nat
    BY WidthInNat
  <2> HIDE DEF g
  <2> QED
    BY <1>1, <2>1, Iterated, Zenon
<1>3. f = [i \in 0 .. Width |-> IF i = 0 THEN 0 ELSE 2 * f[i - 1] + x[Width - i]]
  <2>1. ASSUME NEW i \in 1 .. Width PROVE f[i] = 2 * f[i - 1] + x[Width - i]
    <3>1. i \in Nat /\ f[i - 1] \in Nat
      BY WidthInNat
    <3>2. g[i][f[i - 1]] = 2 * f[i - 1] + x[Width - i]
      BY <3>1
    <3> QED
      BY <1>2, <3>2, Zenon DEF Steps
  <2> QED
    BY <1>2, <2>1 DEF Steps
<1> DEFINE Is(h) == h = [i \in 0 .. Width |-> IF i = 0 THEN 0 ELSE 2 * h[i - 1] + x[Width - i]]
           p == CHOOSE h : Is(h)
<1>4. Is(p)
  BY <1>3
<1>5. numberOf(x) = p[Width]
  BY DEF numberOf, Width
<1> HIDE DEF p
<1>6. \A i \in 0 .. Width : i \in {j \in 0 .. Width : p[j] \in Nat}
  <2>1. 0 \in {j \in 0 .. Width : p[j] \in Nat}
    BY <1>4, WidthInNat
  <2>2. ASSUME NEW i \in 1 .. Width, i - 1 \in {j \in 0 .. Width : p[j] \in Nat}
        PROVE  i \in {j \in 0 .. Width : p[j] \in Nat}
    <3>1. i \in 0 .. Width /\ i # 0 /\ p[i - 1] \in Nat /\ x[Width - i] \in Nat
      BY <1>0, <2>2, WidthInNat
    <3>2. p[i] = 2 * p[i - 1] + x[Width - i]
      BY <1>4, <3>1, Zenon
    <3>3. p[i] \in Nat
      BY <3>1, <3>2
    <3> QED
      BY <3>1, <3>3
  <2> QED
    BY <2>1, <2>2, WidthInNat, UpTo
<1>7. p \in [0 .. Width -> Nat] /\ p[0] = 0 /\ \A i \in 1 .. Width : p[i] = 2 * p[i - 1] + x[Width - i]
  BY <1>4, <1>6, WidthInNat
<1> QED
  BY <1>5, <1>7

\* A number that fits comes back.
LEMMA NumberComesBack ==
  ASSUME NEW n \in Nat, n < Uint32
  PROVE  uint32Of(n) \in Word(4) /\ numberOf(uint32Of(n)) = n
<1>1. PICK p \in [0 .. Width -> Nat] :
        /\ p[0] = 1 /\ \A i \in 1 .. Width : p[i] = 2 * p[i - 1]
        /\ Uint32 = p[Width]
  BY Doubled
<1>2. PICK h \in [0 .. Width -> Nat] :
        /\ h[0] = n /\ \A i \in 1 .. Width : h[i] = h[i - 1] \div 2
        /\ uint32Of(n) = [i \in 0 .. Width - 1 |-> h[i] % 2]
  BY Halved
<1>3. uint32Of(n) \in Word(4)
  BY <1>2, WidthInNat DEF Word, Width
<1>4. PICK v \in [0 .. Width -> Nat] :
        /\ v[0] = 0 /\ \A i \in 1 .. Width : v[i] = 2 * v[i - 1] + uint32Of(n)[Width - i]
        /\ numberOf(uint32Of(n)) = v[Width]
  BY <1>3, Summed
<1>5. \A i \in 0 .. Width : i \in {j \in 0 .. Width : h[j] * p[j] <= n}
  <2>1. 0 \in {j \in 0 .. Width : h[j] * p[j] <= n}
    BY <1>1, <1>2, WidthInNat
  <2>2. ASSUME NEW i \in 1 .. Width, i - 1 \in {j \in 0 .. Width : h[j] * p[j] <= n}
        PROVE  i \in {j \in 0 .. Width : h[j] * p[j] <= n}
    <3>1. h[i - 1] \in Nat /\ p[i - 1] \in Nat /\ h[i] \in Nat /\ h[i - 1] * p[i - 1] <= n
      BY <2>2, WidthInNat
    <3>2. 2 * h[i] <= h[i - 1] /\ p[i] = 2 * p[i - 1]
      BY <1>1, <1>2, <3>1
    <3>3. \A a, b, c \in Nat : 2 * a <= b => a * (2 * c) <= b * c
      <4> SUFFICES ASSUME NEW a \in Nat, NEW b \in Nat, NEW c \in Nat, 2 * a <= b
                   PROVE  a * (2 * c) <= b * c
        OBVIOUS
      <4>1. (b - 2 * a) * c >= 0
        OBVIOUS
      <4> QED
        BY <4>1
    <3>4. h[i] * p[i] <= h[i - 1] * p[i - 1]
      BY <3>1, <3>2, <3>3
    <3>5. h[i] * p[i] \in Int /\ h[i - 1] * p[i - 1] \in Int
      BY <3>1, <3>2
    <3> QED
      BY <3>1, <3>4, <3>5
  <2> QED
    BY <2>1, <2>2, WidthInNat, UpTo
<1>6. h[Width] = 0
  <2>1. h[Width] * p[Width] <= n /\ h[Width] \in Nat /\ p[Width] \in Nat
    BY <1>5, WidthInNat
  <2>2. h[Width] >= 1 => p[Width] * h[Width] >= p[Width]
    BY <2>1, AtLeastOnce
  <2> QED
    BY <1>1, <2>1, <2>2
<1>7. \A i \in 0 .. Width : i \in {j \in 0 .. Width : v[j] = h[Width - j]}
  <2>1. 0 \in {j \in 0 .. Width : v[j] = h[Width - j]}
    BY <1>4, <1>6, WidthInNat
  <2>2. ASSUME NEW i \in 1 .. Width, i - 1 \in {j \in 0 .. Width : v[j] = h[Width - j]}
        PROVE  i \in {j \in 0 .. Width : v[j] = h[Width - j]}
    <3>1. /\ Width - i \in 0 .. Width - 1 /\ Width - (i - 1) \in 1 .. Width
          /\ (Width - (i - 1)) - 1 = Width - i /\ h[Width - i] \in Nat
      BY WidthInNat
    <3>2. v[i - 1] = h[Width - (i - 1)] /\ h[Width - (i - 1)] = h[Width - i] \div 2
      BY <1>2, <2>2, <3>1
    <3>3. v[i] = 2 * v[i - 1] + (h[Width - i] % 2)
      BY <1>2, <1>4, <3>1
    <3>4. \A a \in Nat : 2 * (a \div 2) + (a % 2) = a
      OBVIOUS
    <3>5. v[i] = h[Width - i]
      BY <3>1, <3>2, <3>3, <3>4, Zenon
    <3> QED
      BY <2>2, <3>5
  <2> QED
    BY <2>1, <2>2, WidthInNat, UpTo
<1>8. v[Width] = h[Width - Width] /\ Width - Width = 0
  BY <1>7, WidthInNat
<1> QED
  BY <1>2, <1>3, <1>4, <1>8

-----------------------------------------------------------------------------
(***************************************************************************)
(* A report, byte by byte.                                                 *)
(***************************************************************************)

\* Each bit of each byte is a bit of a word of any length.
LEMMA BitOfLongWord ==
  ASSUME NEW n \in Nat, NEW q \in 0 .. n - 1, NEW r \in Pos
  PROVE  q * Bits + r \in 0 .. n * Bits - 1
<1>1. q * Bits \in Nat /\ n * Bits \in Nat /\ (n - 1) * Bits \in Int /\ Bits \in Nat
  BY BitsPositive
<1>2. ((n - 1) - q) * Bits >= 0
  BY BitsPositive
<1>3. q * Bits <= (n - 1) * Bits
  BY BitsPositive, <1>2
<1>4. (n - 1) * Bits = n * Bits - Bits
  BY BitsPositive
<1> QED
  BY <1>1, <1>3, <1>4 DEF Pos

\* The bytes of a word are a sequence of bytes.
LEMMA PutBytes ==
  ASSUME NEW n \in Nat, NEW x \in Word(n)
  PROVE  put(x, n) \in Seq(Byte) /\ Len(put(x, n)) = n
<1>1. ASSUME NEW i \in 1 .. n PROVE [j \in Pos |-> x[(n - i) * Bits + j]] \in Byte
  <2>1. ASSUME NEW j \in Pos PROVE x[(n - i) * Bits + j] \in 0 .. 1
    <3>1. n - i \in 0 .. n - 1
      OBVIOUS
    <3>2. (n - i) * Bits + j \in 0 .. n * Bits - 1
      BY <3>1, BitOfLongWord
    <3> QED
      BY <3>2 DEF Word
  <2> QED
    BY <2>1, ByteBits
<1>2. put(x, n) = [i \in 1 .. n |-> [j \in Pos |-> x[(n - i) * Bits + j]]]
  BY Zenon DEF put, Pos
<1>3. put(x, n) \in [1 .. n -> Byte]
  BY <1>1, <1>2
<1> QED
  BY <1>3

\* Does a buffer have the n bytes of a word after an offset?
holds(buf, offset, x, n) == \A k \in 1 .. n : buf[offset + k] = put(x, n)[k]

\* Then the word that is read there is that one.
LEMMA GetPut ==
  ASSUME NEW n \in Nat, NEW x \in Word(n), NEW buf, NEW offset \in Nat, holds(buf, offset, x, n)
  PROVE  get(buf, offset, n) = x
<1>1. ASSUME NEW i \in 0 .. n * Bits - 1
      PROVE  buf[offset + (n - (i \div Bits))][i % Bits] = x[i]
  <2> DEFINE q == i \div Bits
             r == i % Bits
  <2>1. q \in 0 .. n - 1 /\ r \in Pos /\ i = q * Bits + r
    BY BitsPositive, DividedBelow DEF Pos
  <2> HIDE DEF q, r
  <2>2. n - q \in 1 .. n /\ n - (n - q) = q
    BY <2>1
  <2>3. buf[offset + (n - q)] = put(x, n)[n - q]
    BY <2>2 DEF holds
  <2>4. put(x, n)[n - q] = [j \in Pos |-> x[(n - (n - q)) * Bits + j]]
    BY <2>2, Zenon DEF put, Pos
  <2>5. put(x, n)[n - q][r] = x[q * Bits + r]
    BY <2>1, <2>2, <2>4
  <2>6. buf[offset + (n - q)][r] = x[i]
    BY <2>1, <2>3, <2>5
  <2> QED
    BY <2>6, Zenon DEF q, r
<1>2. get(buf, offset, n) = [i \in 0 .. n * Bits - 1 |-> buf[offset + (n - (i \div Bits))][i % Bits]]
  BY DEF get
<1>3. x = [i \in 0 .. n * Bits - 1 |-> x[i]]
  BY Zenon DEF Word
<1> QED
  BY <1>1, <1>2, <1>3, Zenon

\* Is a sequence of m elements followed by one of n elements?
follows(u, s, m, t, n) ==
  /\ \A i \in 1 .. m : u[i] = s[i]
  /\ \A i \in 1 .. n : u[m + i] = t[i]

\* One sequence after another.
LEMMA Joined ==
  ASSUME NEW T, NEW s \in Seq(T), NEW t \in Seq(T)
  PROVE  /\ s \o t \in Seq(T) /\ Len(s \o t) = Len(s) + Len(t)
         /\ follows(s \o t, s, Len(s), t, Len(t))
BY DEF follows

\* The entries of ip_map.
Key == [SrcIP: Word(4), DstIP: Word(4), SrcPort: Word(2), DstPort: Word(2)]
Value == [PacketSize: Word(8)]

\* An entry is 20 bytes: where its fields are.
LEMMA EntryFields ==
  ASSUME NEW key \in Key, NEW value \in Value
  PROVE  LET e == entryBytes(key, value) IN
         /\ e \in Seq(Byte) /\ Len(e) = 20
         /\ holds(e, 0, key.SrcIP, 4) /\ holds(e, 4, key.DstIP, 4)
         /\ holds(e, 8, key.SrcPort, 2) /\ holds(e, 10, key.DstPort, 2)
         /\ holds(e, 12, value.PacketSize, 8)
<1> DEFINE a == put(key.SrcIP, 4)
           b == put(key.DstIP, 4)
           c == put(key.SrcPort, 2)
           d == put(key.DstPort, 2)
           f == put(value.PacketSize, 8)
<1>1. /\ key.SrcIP \in Word(4) /\ key.DstIP \in Word(4) /\ key.SrcPort \in Word(2)
      /\ key.DstPort \in Word(2) /\ value.PacketSize \in Word(8)
  BY DEF Key, Value
<1>2. /\ a \in Seq(Byte) /\ b \in Seq(Byte) /\ c \in Seq(Byte) /\ d \in Seq(Byte) /\ f \in Seq(Byte)
      /\ Len(a) = 4 /\ Len(b) = 4 /\ Len(c) = 2 /\ Len(d) = 2 /\ Len(f) = 8
  BY <1>1, PutBytes
<1> DEFINE ab == a \o b
           abc == ab \o c
           abcd == abc \o d
           e == abcd \o f
<1>3. entryBytes(key, value) = e
  BY DEF entryBytes
<1> HIDE DEF a, b, c, d, f, ab, abc, abcd, e
<1>4. ab \in Seq(Byte) /\ Len(ab) = Len(a) + Len(b) /\ follows(ab, a, Len(a), b, Len(b))
  BY <1>2, Joined, Zenon DEF ab
<1>5. Len(ab) = 8 /\ follows(ab, a, 4, b, 4)
  BY <1>2, <1>4
<1>6. abc \in Seq(Byte) /\ Len(abc) = Len(ab) + Len(c) /\ follows(abc, ab, Len(ab), c, Len(c))
  BY <1>2, <1>4, Joined, Zenon DEF abc
<1>7. Len(abc) = 10 /\ follows(abc, ab, 8, c, 2)
  BY <1>2, <1>5, <1>6
<1>8. abcd \in Seq(Byte) /\ Len(abcd) = Len(abc) + Len(d) /\ follows(abcd, abc, Len(abc), d, Len(d))
  BY <1>2, <1>6, Joined, Zenon DEF abcd
<1>9. Len(abcd) = 12 /\ follows(abcd, abc, 10, d, 2)
  BY <1>2, <1>7, <1>8
<1>10. e \in Seq(Byte) /\ Len(e) = Len(abcd) + Len(f) /\ follows(e, abcd, Len(abcd), f, Len(f))
  BY <1>2, <1>8, Joined, Zenon DEF e
<1>11. Len(e) = 20 /\ follows(e, abcd, 12, f, 8)
  BY <1>2, <1>9, <1>10
<1>12. /\ \A i \in 1 .. 4 : e[0 + i] = a[i] /\ e[4 + i] = b[i]
       /\ \A i \in 1 .. 2 : e[8 + i] = c[i] /\ e[10 + i] = d[i]
       /\ \A i \in 1 .. 8 : e[12 + i] = f[i]
  <2>1. ASSUME NEW i \in 1 .. 8 PROVE e[12 + i] = f[i] /\ e[i] = ab[i]
    BY <1>5, <1>7, <1>9, <1>11 DEF follows
  <2>2. ASSUME NEW i \in 1 .. 4 PROVE ab[i] = a[i] /\ ab[4 + i] = b[i]
    BY <1>5, <1>7, <1>9, <1>11 DEF follows
  <2>3. ASSUME NEW i \in 1 .. 2 PROVE e[8 + i] = c[i]
    <3>1. 8 + i \in 1 .. 10 /\ 8 + i \in 1 .. 12
      OBVIOUS
    <3>2. e[8 + i] = abcd[8 + i] /\ abcd[8 + i] = abc[8 + i] /\ abc[8 + i] = c[i]
      BY <3>1, <1>7, <1>9, <1>11, Zenon DEF follows
    <3> QED
      BY <3>2
  <2>4. ASSUME NEW i \in 1 .. 2 PROVE e[10 + i] = d[i]
    <3>1. 10 + i \in 1 .. 12
      OBVIOUS
    <3>2. e[10 + i] = abcd[10 + i] /\ abcd[10 + i] = d[i]
      BY <3>1, <1>7, <1>9, <1>11, Zenon DEF follows
    <3> QED
      BY <3>2
  <2>5. ASSUME NEW i \in 1 .. 4 PROVE e[0 + i] = a[i] /\ e[4 + i] = b[i]
    <3>1. 0 + i = i /\ i \in 1 .. 8 /\ 4 + i \in 1 .. 8
      OBVIOUS
    <3> QED
      BY <2>1, <2>2, <3>1, Zenon
  <2> QED
    BY <2>1, <2>3, <2>4, <2>5, Zenon
<1>13. /\ holds(e, 0, key.SrcIP, 4) /\ holds(e, 4, key.DstIP, 4)
       /\ holds(e, 8, key.SrcPort, 2) /\ holds(e, 10, key.DstPort, 2)
       /\ holds(e, 12, value.PacketSize, 8)
  BY <1>12, Zenon DEF holds, a, b, c, d, f
<1> QED
  BY <1>3, <1>10, <1>11, <1>13, Zenon

\* A part of an entry is in a buffer that has the entry.
LEMMA HoldsWithin ==
  ASSUME NEW buf, NEW base \in Nat, NEW e, \A m \in 1 .. 20 : buf[base + m] = e[m],
         NEW o \in 0 .. 20, NEW n \in 0 .. 20 - o, NEW x, holds(e, o, x, n)
  PROVE  holds(buf, base + o, x, n)
<1> SUFFICES ASSUME NEW k \in 1 .. n PROVE buf[(base + o) + k] = put(x, n)[k]
  BY DEF holds
<1>1. o + k \in 1 .. 20 /\ (base + o) + k = base + (o + k)
  OBVIOUS
<1>2. buf[base + (o + k)] = e[o + k]
  BY <1>1
<1>3. e[o + k] = put(x, n)[k]
  BY Zenon DEF holds
<1> QED
  BY <1>1, <1>2, <1>3, Zenon

\* Where Encode puts the number of entries and each entry.
LEMMA ReportBytes ==
  ASSUME NEW ks \in Seq(Key), NEW vs \in Seq(Value), Len(vs) = Len(ks)
  PROVE  /\ Len(Encode(ks, vs)) = 4 + 20 * Len(ks)
         /\ holds(Encode(ks, vs), 0, uint32Of(Len(ks)), 4)
         /\ \A i \in 1 .. Len(ks), m \in 1 .. 20 :
              Encode(ks, vs)[(4 + 20 * (i - 1)) + m] = entryBytes(ks[i], vs[i])[m]
<1> DEFINE n == 4 + 20 * Len(ks)
           byte(p) == IF p <= 4 THEN put(uint32Of(Len(ks)), 4)[p]
                      ELSE entryBytes(ks[1 + ((p - 5) \div 20)], vs[1 + ((p - 5) \div 20)])[1 + ((p - 5) % 20)]
           buf == [p \in 1 .. n |-> byte(p)]
<1>1. Encode(ks, vs) = buf
  BY DEF Encode
<1>2. Len(ks) \in Nat /\ n \in Nat
  OBVIOUS
<1>3. Len(buf) = n
  <2> HIDE DEF byte, n
  <2> QED
    BY <1>2
<1>4. ASSUME NEW k \in 1 .. 4 PROVE buf[0 + k] = put(uint32Of(Len(ks)), 4)[k]
  <2>1. 0 + k = k /\ k \in 1 .. n /\ k <= 4
    BY <1>2
  <2>2. buf[k] = byte(k)
    BY <2>1, Zenon
  <2> QED
    BY <2>1, <2>2
<1>5. ASSUME NEW i \in 1 .. Len(ks), NEW m \in 1 .. 20
      PROVE  buf[(4 + 20 * (i - 1)) + m] = entryBytes(ks[i], vs[i])[m]
  <2> DEFINE p == (4 + 20 * (i - 1)) + m
  <2>1. p \in 1 .. n /\ ~(p <= 4)
    BY <1>2
  <2>2. p - 5 = 20 * (i - 1) + (m - 1)
    OBVIOUS
  <2>3. 1 + ((p - 5) \div 20) = i /\ 1 + ((p - 5) % 20) = m
    BY <2>2
  <2> HIDE DEF p
  <2>4. buf[p] = byte(p)
    BY <2>1, Zenon
  <2>5. byte(p) = entryBytes(ks[i], vs[i])[m]
    BY <2>1, <2>3, Zenon
  <2> QED
    BY <2>4, <2>5, Zenon DEF p
<1> HIDE DEF buf, byte
<1> QED
  BY <1>1, <1>3, <1>4, <1>5, Zenon DEF holds

\* The entry the server makes of a key and a value.
entryOf(key, value) ==
  [SrcIP   |-> Ntohl(key.SrcIP),
   DstIP   |-> Ntohl(key.DstIP),
   SrcPort |-> key.SrcPort,
   DstPort |-> key.DstPort,
   Traffic |-> value.PacketSize]

\* Decode takes what Encode makes, and reads the entries that were put.
LEMMA DecodedReport ==
  ASSUME NEW ks \in Seq(Key), NEW vs \in Seq(Value), Len(vs) = Len(ks), Len(ks) <= MaxFlows
  PROVE  /\ decodable(Encode(ks, vs))
         /\ Decode(Encode(ks, vs)) = [i \in 1 .. Len(ks) |-> entryOf(ks[i], vs[i])]
<1> DEFINE n == Len(ks)
           buf == Encode(ks, vs)
<1>1. n \in Nat /\ n < Uint32 /\ Uint32 \in Nat
  <2>1. MaxFlows \in Nat /\ 4 + 20 * MaxFlows < Uint32
    BY WireAssumption
  <2>2. Uint32 \in Nat
    BY Doubled, WidthInNat
  <2> QED
    BY <2>1, <2>2
<1>2. /\ Len(buf) = 4 + 20 * n
      /\ holds(buf, 0, uint32Of(n), 4)
      /\ \A i \in 1 .. n, m \in 1 .. 20 : buf[(4 + 20 * (i - 1)) + m] = entryBytes(ks[i], vs[i])[m]
  BY ReportBytes
<1> HIDE DEF n, buf
<1>3. uint32Of(n) \in Word(4) /\ numberOf(uint32Of(n)) = n
  BY <1>1, NumberComesBack
<1>4. numEntries(buf) = n
  <2>1. get(buf, 0, 4) = uint32Of(n)
    BY <1>2, <1>3, GetPut
  <2> QED
    BY <1>3, <2>1 DEF numEntries
<1>5. decodable(buf)
  BY <1>1, <1>2, <1>4 DEF decodable
<1>6. ASSUME NEW i \in 1 .. n PROVE EntryAt(buf, 4 + 20 * (i - 1)) = entryOf(ks[i], vs[i])
  <2> DEFINE base == 4 + 20 * (i - 1)
             e == entryBytes(ks[i], vs[i])
             key == ks[i]
             value == vs[i]
  <2>1. key \in Key /\ value \in Value /\ base \in Nat
    BY <1>1 DEF n
  <2>2. /\ key.SrcIP \in Word(4) /\ key.DstIP \in Word(4) /\ key.SrcPort \in Word(2)
        /\ key.DstPort \in Word(2) /\ value.PacketSize \in Word(8)
    BY <2>1 DEF Key, Value
  <2>3. \A m \in 1 .. 20 : buf[base + m] = e[m]
    BY <1>2
  <2> HIDE DEF base, key, value
  <2>4. /\ holds(e, 0, key.SrcIP, 4) /\ holds(e, 4, key.DstIP, 4)
        /\ holds(e, 8, key.SrcPort, 2) /\ holds(e, 10, key.DstPort, 2)
        /\ holds(e, 12, value.PacketSize, 8)
    BY <2>1, EntryFields, Zenon DEF key, value
  <2> HIDE DEF e
  <2>5. /\ holds(buf, base + 0, key.SrcIP, 4) /\ holds(buf, base + 4, key.DstIP, 4)
        /\ holds(buf, base + 8, key.SrcPort, 2) /\ holds(buf, base + 10, key.DstPort, 2)
        /\ holds(buf, base + 12, value.PacketSize, 8)
    <3>1. /\ 0 \in 0 .. 20 /\ 4 \in 0 .. 20 /\ 8 \in 0 .. 20 /\ 10 \in 0 .. 20 /\ 12 \in 0 .. 20
          /\ 4 \in 0 .. 20 - 0 /\ 4 \in 0 .. 20 - 4 /\ 2 \in 0 .. 20 - 8 /\ 2 \in 0 .. 20 - 10
          /\ 8 \in 0 .. 20 - 12
      OBVIOUS
    <3>2. holds(buf, base + 0, key.SrcIP, 4)
      BY <2>1, <2>3, <2>4, <3>1, HoldsWithin, Zenon
    <3>3. holds(buf, base + 4, key.DstIP, 4)
      BY <2>1, <2>3, <2>4, <3>1, HoldsWithin, Zenon
    <3>4. holds(buf, base + 8, key.SrcPort, 2)
      BY <2>1, <2>3, <2>4, <3>1, HoldsWithin, Zenon
    <3>5. holds(buf, base + 10, key.DstPort, 2)
      BY <2>1, <2>3, <2>4, <3>1, HoldsWithin, Zenon
    <3>6. holds(buf, base + 12, value.PacketSize, 8)
      BY <2>1, <2>3, <2>4, <3>1, HoldsWithin, Zenon
    <3> QED
      BY <3>2, <3>3, <3>4, <3>5, <3>6
  <2>6. base + 0 = base /\ base + 4 \in Nat /\ base + 8 \in Nat /\ base + 10 \in Nat /\ base + 12 \in Nat
    BY <2>1
  <2>7. /\ get(buf, base, 4) = key.SrcIP /\ get(buf, base + 4, 4) = key.DstIP
        /\ get(buf, base + 8, 2) = key.SrcPort /\ get(buf, base + 10, 2) = key.DstPort
        /\ get(buf, base + 12, 8) = value.PacketSize
    BY <2>1, <2>2, <2>5, <2>6, GetPut
  <2>8. EntryAt(buf, base) = entryOf(key, value)
    BY <2>7, Zenon DEF EntryAt, entryOf
  <2> QED
    BY <2>8, Zenon DEF base, key, value
<1>7. Decode(buf) = [i \in 1 .. n |-> EntryAt(buf, 4 + 20 * (i - 1))]
  BY <1>4, Zenon DEF Decode
<1>8. Decode(buf) = [i \in 1 .. n |-> entryOf(ks[i], vs[i])]
  BY <1>6, <1>7, Zenon
<1> QED
  BY <1>5, <1>8, Zenon DEF n, buf

-----------------------------------------------------------------------------
(***************************************************************************)
(* Sequences that list a set.                                              *)
(***************************************************************************)

\* Nothing is listed by the empty sequence.
LEMMA NothingListed == listed(<<>>, {})
  BY DEF listed

\* What is not in a list is appended to it.
LEMMA OneMoreListed ==
  ASSUME NEW T, NEW s \in Seq(T), NEW S, listed(s, S), NEW x \in T, x \notin S
  PROVE  listed(Append(s, x), S \cup {x})
<1> DEFINE t == Append(s, x)
           n == Len(s)
<1>1. /\ n \in Nat /\ Len(t) = n + 1 /\ t[n + 1] = x
      /\ \A i \in 1 .. n : t[i] = s[i]
  OBVIOUS
<1> HIDE DEF t
<1>2. S = {s[i] : i \in 1 .. n} /\ \A i, j \in 1 .. n : s[i] = s[j] => i = j
  BY DEF listed
<1> HIDE DEF n
<1>3. \A i \in 1 .. Len(t) : i \in 1 .. n \/ i = n + 1
  BY <1>1
<1>4. \A i \in 1 .. n : i \in 1 .. Len(t)
  BY <1>1
<1>5. n + 1 \in 1 .. Len(t)
  BY <1>1
<1>6. {t[i] : i \in 1 .. Len(t)} = S \cup {x}
  <2>1. ASSUME NEW i \in 1 .. Len(t) PROVE t[i] \in S \cup {x}
    <3>1. CASE i \in 1 .. n
      BY <1>1, <1>2, <3>1, Zenon
    <3>2. CASE i = n + 1
      BY <1>1, <3>2, Zenon
    <3> QED
      BY <1>3, <3>1, <3>2, Zenon
  <2>2. ASSUME NEW y \in S PROVE \E i \in 1 .. Len(t) : t[i] = y
    <3>1. PICK i \in 1 .. n : s[i] = y
      BY <1>2, Zenon
    <3>2. i \in 1 .. Len(t) /\ t[i] = y
      BY <1>1, <1>4, <3>1, Zenon
    <3> QED
      BY <3>2, Zenon
  <2> QED
    BY <1>1, <1>5, <2>1, <2>2, Zenon
<1>7. \A i \in 1 .. n : s[i] # x
  BY <1>2
<1>8. \A i, j \in 1 .. Len(t) : t[i] = t[j] => i = j
  BY <1>1, <1>2, <1>3, <1>7, Zenon
<1>9. listed(t, S \cup {x})
  BY <1>6, <1>8, Zenon DEF listed
<1> QED
  BY <1>9, Zenon DEF t

\* The values of inOrder's recursive function, and the result.
takes(p, S, n) ==
  /\ p[0] = <<>>
  /\ \A i \in 1 .. n : p[i] = IF i \in S THEN Append(p[i - 1], i) ELSE p[i - 1]
  /\ inOrder(S, n) = p[n]

\* They are sequences of numbers.
LEMMA TakenInOrder ==
  ASSUME NEW n \in Nat, NEW S
  PROVE  \E p \in [0 .. n -> Seq(Nat)] : takes(p, S, n)
<1> DEFINE R == Seq(Nat)
           g == [i \in Nat |-> [s \in R |-> IF i \in S THEN Append(s, i) ELSE s]]
<1>1. g \in [Nat -> [R -> R]]
  <2>1. ASSUME NEW i \in Nat, NEW s \in R PROVE (IF i \in S THEN Append(s, i) ELSE s) \in R
    OBVIOUS
  <2> HIDE DEF R
  <2> QED
    BY <2>1
<1>2. PICK f \in [0 .. n -> R] : Steps(f, <<>>, g, n)
  <2>1. <<>> \in R
    OBVIOUS
  <2> HIDE DEF g, R
  <2> QED
    BY <1>1, <2>1, Iterated, Zenon
<1>3. ASSUME NEW i \in 1 .. n PROVE f[i] = IF i \in S THEN Append(f[i - 1], i) ELSE f[i - 1]
  <2>1. i \in Nat /\ f[i - 1] \in R
    OBVIOUS
  <2>2. g[i][f[i - 1]] = IF i \in S THEN Append(f[i - 1], i) ELSE f[i - 1]
    <3> HIDE DEF R
    <3> QED
      BY <2>1, Zenon
  <2> QED
    BY <1>2, <2>2, Zenon DEF Steps
<1> DEFINE Is(h) == h = [i \in 0 .. n |->
                           IF i = 0 THEN <<>> ELSE IF i \in S THEN Append(h[i - 1], i) ELSE h[i - 1]]
           p == CHOOSE h : Is(h)
<1>4. Is(f)
  <2> HIDE DEF R
  <2>1. f[0] = <<>>
    BY <1>2, Zenon DEF Steps
  <2>2. ASSUME NEW i \in 0 .. n
        PROVE  f[i] = IF i = 0 THEN <<>> ELSE IF i \in S THEN Append(f[i - 1], i) ELSE f[i - 1]
    <3>1. CASE i = 0
      BY <2>1, <3>1
    <3>2. CASE i # 0
      <4>1. i \in 1 .. n
        BY <3>2
      <4> QED
        BY <1>3, <3>2, <4>1, Zenon
    <3> QED
      BY <3>1, <3>2
  <2>3. f = [i \in 0 .. n |-> f[i]]
    BY <1>2, Zenon
  <2> QED
    BY <2>2, <2>3, Zenon
<1>5. Is(p)
  BY <1>4, Zenon
<1>6. inOrder(S, n) = p[n]
  BY DEF inOrder
<1> HIDE DEF p
<1>7. p[0] = <<>>
  BY <1>5
<1>8. ASSUME NEW i \in 1 .. n PROVE p[i] = IF i \in S THEN Append(p[i - 1], i) ELSE p[i - 1]
  <2>1. i \in 0 .. n /\ i # 0
    OBVIOUS
  <2> QED
    BY <1>5, <2>1, Zenon
<1>9. \A i \in 0 .. n : i \in {j \in 0 .. n : p[j] \in R}
  <2>1. 0 \in {j \in 0 .. n : p[j] \in R}
    <3>1. <<>> \in R /\ 0 \in 0 .. n
      OBVIOUS
    <3> QED
      BY <1>7, <3>1, Zenon
  <2>2. ASSUME NEW i \in 1 .. n, i - 1 \in {j \in 0 .. n : p[j] \in R}
        PROVE  i \in {j \in 0 .. n : p[j] \in R}
    <3>1. p[i - 1] \in R /\ i \in Nat /\ i \in 0 .. n
      BY <2>2
    <3>2. Append(p[i - 1], i) \in R
      BY <3>1
    <3>3. p[i] \in R
      BY <1>8, <3>1, <3>2, Zenon
    <3> QED
      BY <3>1, <3>3, Zenon
  <2> HIDE DEF R
  <2> QED
    BY <2>1, <2>2, UpTo
<1>10. p \in [0 .. n -> R]
  <2> HIDE DEF R
  <2> QED
    BY <1>5, <1>9
<1> QED
  BY <1>6, <1>7, <1>8, <1>10, Zenon DEF R, takes

\* inOrder lists the numbers of a set.
LEMMA InOrderLists ==
  ASSUME NEW n \in Nat, NEW S \in SUBSET (1 .. n)
  PROVE  inOrder(S, n) \in Seq(Nat) /\ Len(inOrder(S, n)) <= n /\ listed(inOrder(S, n), S)
<1>0. PICK p \in [0 .. n -> Seq(Nat)] : takes(p, S, n)
  BY TakenInOrder, Zenon
<1>1. /\ p[0] = <<>>
      /\ \A i \in 1 .. n : p[i] = IF i \in S THEN Append(p[i - 1], i) ELSE p[i - 1]
      /\ inOrder(S, n) = p[n]
  BY <1>0, Zenon DEF takes
<1> DEFINE upTo(i) == {k \in S : k <= i}
           Done == {j \in 0 .. n : Len(p[j]) <= j /\ listed(p[j], upTo(j))}
<1>7. \A k \in S : k \in Nat /\ 1 <= k /\ k <= n
  OBVIOUS
<1>2. 0 \in Done
  <2>1. upTo(0) = {} /\ 0 \in 0 .. n
    <3>1. ASSUME NEW k \in S, k <= 0 PROVE FALSE
      BY <1>7, <3>1
    <3>2. 0 \in 0 .. n
      OBVIOUS
    <3> QED
      BY <3>1, <3>2, Zenon
  <2>2. Len(p[0]) <= 0
    BY <1>1
  <2>3. listed(p[0], upTo(0))
    BY <1>1, <2>1, NothingListed, Zenon
  <2> QED
    BY <2>1, <2>2, <2>3, Zenon
<1>3. ASSUME NEW i \in 1 .. n, i - 1 \in Done PROVE i \in Done
  <2>1. i \in 0 .. n /\ i - 1 \in 0 .. n /\ p[i - 1] \in Seq(Nat) /\ i \in Nat
    OBVIOUS
  <2>2. Len(p[i - 1]) <= i - 1 /\ listed(p[i - 1], upTo(i - 1))
    BY <1>3, Zenon
  <2>3. CASE i \in S
    <3>1. p[i] = Append(p[i - 1], i)
      BY <1>1, <2>3
    <3>2. Len(p[i]) <= i
      BY <2>1, <2>2, <3>1
    <3>3. upTo(i) = upTo(i - 1) \cup {i} /\ i \notin upTo(i - 1)
      <4>1. \A k \in S : k <= i <=> k <= i - 1 \/ k = i
        BY <1>7
      <4>2. i <= i /\ ~(i <= i - 1)
        OBVIOUS
      <4> QED
        BY <2>3, <4>1, <4>2, Zenon
    <3> HIDE DEF upTo
    <3>4. listed(Append(p[i - 1], i), upTo(i - 1) \cup {i})
      BY <2>1, <2>2, <3>3, OneMoreListed, Zenon
    <3>5. listed(p[i], upTo(i))
      BY <3>1, <3>3, <3>4, Zenon
    <3> QED
      BY <2>1, <3>2, <3>5, Zenon
  <2>4. CASE i \notin S
    <3>1. p[i] = p[i - 1]
      BY <1>1, <2>4
    <3>2. Len(p[i]) <= i
      BY <2>1, <2>2, <3>1
    <3>3. upTo(i) = upTo(i - 1)
      <4>1. \A k \in S : k <= i <=> k <= i - 1
        BY <1>7, <2>4
      <4> QED
        BY <4>1, Zenon
    <3> HIDE DEF upTo
    <3> QED
      BY <2>1, <2>2, <3>1, <3>2, <3>3, Zenon
  <2> QED
    BY <2>3, <2>4
<1>4. n \in Done
  <2> HIDE DEF Done
  <2>1. \A i \in 0 .. n : i \in Done
    BY <1>2, <1>3, UpTo
  <2> QED
    BY <2>1
<1>5. upTo(n) = S
  OBVIOUS
<1>6. p[n] \in Seq(Nat)
  BY <1>1
<1> QED
  BY <1>1, <1>4, <1>5, <1>6, Zenon

-----------------------------------------------------------------------------
(***************************************************************************)
(* The map of one flush.                                                   *)
(***************************************************************************)

\* The packets of the history, and those of them that pass the hook's test.
Packet == [src: Address, dst: Address, ports: Ports, size: Sizes]

seen == {packets[i] : i \in 1 .. Len(packets)}

pass(p) == inSubnet(p.src) /\ inSubnet(p.dst)

passed == {p \in seen : pass(p)}

\* Does a slot of the map have the key and the value of a packet?
holdsAt(i, p) == keys[i] = keyOf(p) /\ values[i] = valueOf(p)

\* The two slices are of one length, and no longer than the history.
TypeOK ==
  /\ cidr \in Cidr
  /\ packets \in Seq(Packet) /\ Len(packets) <= MaxFlows
  /\ keys \in Seq(Key) /\ values \in Seq(Value)
  /\ Len(values) = Len(keys) /\ Len(keys) <= Len(packets)

\* The map has the packets that pass the test, a value beside its key.
MapHolds ==
  /\ \A i \in 1 .. Len(keys) : \E p \in passed : holdsAt(i, p)
  /\ \A p \in passed : \E i \in 1 .. Len(keys) : holdsAt(i, p)
  /\ \A i, j \in 1 .. Len(keys) : keys[i] = keys[j] => i = j

\* The body is the encoding of the map, and what the server has is its decoding.
BodySent == sent # <<>> => sent = Encode(finalKeys, finalValues)
BodyReceived == entries # <<>> => sent # <<>> /\ entries = Decode(sent)

\* The inductive invariant.
WireInv == TypeOK /\ MapHolds /\ BodySent /\ BodyReceived

\* What a packet is made of.
LEMMA PacketFields ==
  ASSUME NEW p \in Packet
  PROVE  /\ p.src \in Address /\ p.dst \in Address /\ p.src \in IPv4 /\ p.dst \in IPv4
         /\ p.ports \in Pair \X Pair /\ p.size \in Pair
         /\ p = [src |-> p.src, dst |-> p.dst, ports |-> p.ports, size |-> p.size]
  BY WireAssumption DEF Packet, IPv4, Pair

\* Its key and its value are entries of the map.
LEMMA KeyTyped ==
  ASSUME NEW p \in Packet
  PROVE  keyOf(p) \in Key /\ valueOf(p) \in Value
<1>1. load(p.src) \in Word(4) /\ load(p.dst) \in Word(4)
  BY PacketFields, InNetworkOrder
<1>2. p.ports[1] \in Pair /\ p.ports[2] \in Pair /\ p.size \in Pair
  BY PacketFields
<1>3. /\ bpf_ntohs(load16(p.ports[1])) \in Word(2) /\ bpf_ntohs(load16(p.ports[2])) \in Word(2)
      /\ uint64(bpf_ntohs(load16(p.size))) \in Word(8)
  BY <1>2, HeaderNumber, WidenedNumber
<1> QED
  BY <1>1, <1>3 DEF keyOf, valueOf, Key, Value

\* The numbers of its headers.
LEMMA PacketNumbers ==
  ASSUME NEW p \in Packet
  PROVE  /\ keyOf(p).SrcPort = numberIn(p.ports[1], 2) /\ keyOf(p).DstPort = numberIn(p.ports[2], 2)
         /\ valueOf(p).PacketSize = numberIn(p.size, 8)
<1>1. p.ports[1] \in Pair /\ p.ports[2] \in Pair /\ p.size \in Pair
  BY PacketFields
<1>2. /\ bpf_ntohs(load16(p.ports[1])) = numberIn(p.ports[1], 2)
      /\ bpf_ntohs(load16(p.ports[2])) = numberIn(p.ports[2], 2)
      /\ bpf_ntohs(load16(p.size)) = numberIn(p.size, 2)
      /\ uint64(numberIn(p.size, 2)) = numberIn(p.size, 8)
  BY <1>1, HeaderNumber, WidenedNumber, Zenon
<1> QED
  BY <1>2 DEF keyOf, valueOf

\* The entry made of a packet's key and value is its record.
LEMMA EntryOfPacket ==
  ASSUME NEW p \in Packet
  PROVE  entryOf(keyOf(p), valueOf(p)) = recordOf(p) /\ Ntohl(keyOf(p).SrcIP) = ipToUint32(p.src)
<1>1. Ntohl(load(p.src)) = ipToUint32(p.src) /\ Ntohl(load(p.dst)) = ipToUint32(p.dst)
  BY PacketFields, SameAddress
<1>2. /\ keyOf(p).SrcIP = load(p.src) /\ keyOf(p).DstIP = load(p.dst)
  BY DEF keyOf
<1> QED
  BY <1>1, <1>2, PacketNumbers, Zenon DEF entryOf, recordOf

\* A flow is known by its record.
LEMMA FlowOfRecord ==
  ASSUME NEW p \in Packet, NEW q \in Packet,
         ipToUint32(p.src) = ipToUint32(q.src), ipToUint32(p.dst) = ipToUint32(q.dst),
         numberIn(p.ports[1], 2) = numberIn(q.ports[1], 2),
         numberIn(p.ports[2], 2) = numberIn(q.ports[2], 2)
  PROVE  p.src = q.src /\ p.dst = q.dst /\ p.ports = q.ports /\ keyOf(p) = keyOf(q)
<1>1. p.src = q.src /\ p.dst = q.dst
  BY PacketFields, OneWordEach
<1>2. p.ports[1] = q.ports[1] /\ p.ports[2] = q.ports[2]
  <2>1. /\ p.ports[1] \in Pair /\ p.ports[2] \in Pair
        /\ q.ports[1] \in Pair /\ q.ports[2] \in Pair
    BY PacketFields
  <2> QED
    BY <2>1, OneNumberEach, Zenon
<1>3. p.ports = q.ports
  BY <1>2, PacketFields
<1> QED
  BY <1>1, <1>3, Zenon DEF keyOf

\* A flow is known by its key.
LEMMA FlowOfKey ==
  ASSUME NEW p \in Packet, NEW q \in Packet, keyOf(p) = keyOf(q)
  PROVE  p.src = q.src /\ p.dst = q.dst /\ p.ports = q.ports
<1>1. /\ load(p.src) = load(q.src) /\ load(p.dst) = load(q.dst)
      /\ numberIn(p.ports[1], 2) = numberIn(q.ports[1], 2)
      /\ numberIn(p.ports[2], 2) = numberIn(q.ports[2], 2)
  <2>1. load(p.src) = load(q.src) /\ load(p.dst) = load(q.dst)
    BY DEF keyOf
  <2> QED
    BY <2>1, PacketNumbers, Zenon
<1>2. ipToUint32(p.src) = ipToUint32(q.src) /\ ipToUint32(p.dst) = ipToUint32(q.dst)
  <2>1. /\ Ntohl(load(p.src)) = ipToUint32(p.src) /\ Ntohl(load(p.dst)) = ipToUint32(p.dst)
        /\ Ntohl(load(q.src)) = ipToUint32(q.src) /\ Ntohl(load(q.dst)) = ipToUint32(q.dst)
    BY PacketFields, SameAddress
  <2> QED
    BY <1>1, <2>1, Zenon
<1> QED
  BY <1>1, <1>2, FlowOfRecord, Zenon

\* The packets that have been seen are packets.
LEMMA SeenPackets ==
  ASSUME TypeOK
  PROVE  seen \in SUBSET Packet /\ passed \in SUBSET Packet
<1>1. \A i \in 1 .. Len(packets) : packets[i] \in Packet
  BY DEF TypeOK
<1> QED
  BY <1>1, Zenon DEF seen, passed

\* What passes depends on the packets and the CIDR only.
LEMMA SamePassed ==
  ASSUME cidr' = cidr, packets' = packets
  PROVE  passed' = passed
  BY DEF passed, pass, seen, inSubnet, subnet_mask, subnet_prefix

\* One packet more passes, or not.
LEMMA MorePassed ==
  ASSUME TypeOK, NEW p \in Packet, cidr' = cidr, packets' = Append(packets, p)
  PROVE  passed' = IF pass(p) THEN passed \cup {p} ELSE passed
<1> DEFINE n == Len(packets)
<1>1. /\ n \in Nat /\ Len(packets') = n + 1 /\ packets'[n + 1] = p
      /\ \A i \in 1 .. n : packets'[i] = packets[i]
  BY DEF TypeOK
<1> HIDE DEF n
<1>2. 1 .. n + 1 = (1 .. n) \cup {n + 1}
  BY <1>1
<1>3. seen = {packets[i] : i \in 1 .. n} /\ seen' = {packets'[i] : i \in 1 .. n + 1}
  BY <1>1 DEF seen, n
<1>4. seen' = seen \cup {p}
  <2>1. \A i \in 1 .. n : packets'[i] \in seen /\ packets[i] \in seen'
    BY <1>1, <1>2, <1>3, Zenon
  <2>2. p \in seen'
    BY <1>1, <1>2, <1>3, Zenon
  <2>3. ASSUME NEW q \in seen' PROVE q \in seen \cup {p}
    <3>1. PICK i \in 1 .. n + 1 : q = packets'[i]
      BY <1>3, Zenon
    <3>2. i \in 1 .. n \/ i = n + 1
      BY <1>2, Zenon
    <3> QED
      BY <1>1, <2>1, <3>1, <3>2, Zenon
  <2>4. ASSUME NEW q \in seen PROVE q \in seen'
    <3>1. PICK i \in 1 .. n : q = packets[i]
      BY <1>3, Zenon
    <3> QED
      BY <2>1, <3>1, Zenon
  <2> QED
    BY <2>2, <2>3, <2>4, Zenon
<1>5. \A q : pass(q)' <=> pass(q)
  BY DEF pass, inSubnet, subnet_mask, subnet_prefix
<1>6. passed' = {q \in seen' : pass(q)'}
  BY DEF passed
<1>7. passed' = {q \in seen \cup {p} : pass(q)}
  BY <1>4, <1>5, <1>6, Zenon
<1>8. CASE pass(p)
  BY <1>7, <1>8, Zenon DEF passed
<1>9. CASE ~pass(p)
  BY <1>7, <1>9, Zenon DEF passed
<1> QED
  BY <1>8, <1>9

\* A packet that the hook sees keeps the types.
LEMMA HookTypes ==
  ASSUME TypeOK, NEW src \in Address, NEW dst \in Address, NEW ports \in Ports, NEW size \in Sizes,
         handle_v4(src, dst, ports, size)
  PROVE  TypeOK'
<1> DEFINE p == [src |-> src, dst |-> dst, ports |-> ports, size |-> size]
<1>1. p \in Packet
  BY DEF Packet
<1>2. keyOf(p) \in Key /\ valueOf(p) \in Value
  BY <1>1, KeyTyped
<1>3. /\ packets' = Append(packets, p) /\ Len(packets) < MaxFlows /\ cidr' = cidr
      /\ \/ keys' = Append(keys, keyOf(p)) /\ values' = Append(values, valueOf(p))
         \/ keys' = keys /\ values' = values
  BY DEF handle_v4
<1> HIDE DEF p
<1>4. MaxFlows \in Nat
  BY WireAssumption
<1>5. packets' \in Seq(Packet) /\ Len(packets') = Len(packets) + 1 /\ Len(packets') <= MaxFlows
  BY <1>1, <1>3, <1>4 DEF TypeOK
<1>6. CASE keys' = Append(keys, keyOf(p)) /\ values' = Append(values, valueOf(p))
  <2>1. keys' \in Seq(Key) /\ Len(keys') = Len(keys) + 1
    BY <1>2, <1>6 DEF TypeOK
  <2>2. values' \in Seq(Value) /\ Len(values') = Len(values) + 1
    BY <1>2, <1>6 DEF TypeOK
  <2>3. /\ Len(packets) \in Nat /\ Len(keys) \in Nat /\ Len(values) = Len(keys)
        /\ Len(keys) <= Len(packets) /\ cidr \in Cidr
    BY DEF TypeOK
  <2> QED
    BY <1>3, <1>5, <2>1, <2>2, <2>3 DEF TypeOK
<1>7. CASE keys' = keys /\ values' = values
  <2>1. /\ Len(packets) \in Nat /\ Len(keys) \in Nat /\ Len(values) = Len(keys)
        /\ Len(keys) <= Len(packets) /\ cidr \in Cidr /\ keys \in Seq(Key) /\ values \in Seq(Value)
    BY DEF TypeOK
  <2> QED
    BY <1>3, <1>5, <1>7, <2>1 DEF TypeOK
<1> QED
  BY <1>3, <1>6, <1>7

\* It comes into the map if it passes the test, and is new there.
LEMMA HookMaps ==
  ASSUME TypeOK, MapHolds, NEW src \in Address, NEW dst \in Address, NEW ports \in Ports, NEW size \in Sizes,
         handle_v4(src, dst, ports, size)
  PROVE  MapHolds'
<1> DEFINE p == [src |-> src, dst |-> dst, ports |-> ports, size |-> size]
<1>1. p \in Packet /\ p.src = src /\ p.dst = dst /\ p.ports = ports
  BY DEF Packet
<1>2. packets' = Append(packets, p) /\ cidr' = cidr
  BY DEF handle_v4
<1>3. \/ pass(p) /\ keys' = Append(keys, keyOf(p)) /\ values' = Append(values, valueOf(p))
      \/ ~pass(p) /\ keys' = keys /\ values' = values
  BY <1>1 DEF handle_v4, pass
<1>4. \A q \in seen : ~(q.src = src /\ q.dst = dst /\ q.ports = ports)
  BY DEF handle_v4, seen
<1> HIDE DEF p
<1>5. passed' = IF pass(p) THEN passed \cup {p} ELSE passed
  BY <1>1, <1>2, MorePassed, Zenon
<1>6. CASE ~pass(p)
  <2>1. passed' = passed /\ keys' = keys /\ values' = values
    BY <1>3, <1>5, <1>6, Zenon
  <2> QED
    BY <2>1 DEF MapHolds, holdsAt
<1>7. CASE pass(p)
  <2> DEFINE n == Len(keys)
  <2>1. passed' = passed \cup {p} /\ keys' = Append(keys, keyOf(p)) /\ values' = Append(values, valueOf(p))
    BY <1>3, <1>5, <1>7, Zenon
  <2>2. /\ n \in Nat /\ Len(keys') = n + 1 /\ keys'[n + 1] = keyOf(p)
        /\ \A i \in 1 .. n : keys'[i] = keys[i]
    BY <2>1 DEF TypeOK
  <2>3. /\ values'[n + 1] = valueOf(p)
        /\ \A i \in 1 .. n : values'[i] = values[i]
    <3>1. Len(values) = n /\ values \in Seq(Value)
      BY DEF TypeOK
    <3> QED
      BY <2>1, <3>1
  <2> HIDE DEF n
  <2>4. \A i \in 1 .. n + 1 : i \in 1 .. n \/ i = n + 1
    BY <2>2
  <2>5. n + 1 \in 1 .. n + 1 /\ \A i \in 1 .. n : i \in 1 .. n + 1
    BY <2>2
  <2>6. \A i \in 1 .. n : \A q : holdsAt(i, q)' <=> holdsAt(i, q)
    BY <2>2, <2>3, Zenon DEF holdsAt
  <2>7. \A i : i = n + 1 => holdsAt(i, p)'
    BY <2>2, <2>3, Zenon DEF holdsAt
  <2>8. /\ \A i \in 1 .. n : \E q \in passed : holdsAt(i, q)
        /\ \A q \in passed : \E i \in 1 .. n : holdsAt(i, q)
        /\ \A i, j \in 1 .. n : keys[i] = keys[j] => i = j
    BY DEF MapHolds, n
  <2>9. ASSUME NEW i \in 1 .. n + 1 PROVE \E q \in passed' : holdsAt(i, q)'
    <3>1. CASE i \in 1 .. n
      BY <2>1, <2>6, <2>8, <3>1, Zenon
    <3>2. CASE i = n + 1
      BY <2>1, <2>7, <3>2, Zenon
    <3> QED
      BY <2>4, <3>1, <3>2, Zenon
  <2>10. ASSUME NEW q \in passed' PROVE \E i \in 1 .. n + 1 : holdsAt(i, q)'
    <3>1. CASE q \in passed
      BY <2>5, <2>6, <2>8, <3>1, Zenon
    <3>2. CASE q = p
      BY <2>5, <2>7, <3>2, Zenon
    <3> QED
      BY <2>1, <3>1, <3>2, Zenon
  <2>11. ASSUME NEW i \in 1 .. n PROVE keys[i] # keyOf(p)
    <3>1. PICK q \in passed : holdsAt(i, q)
      BY <2>8, Zenon
    <3>2. q \in Packet /\ q \in seen
      BY SeenPackets, Zenon DEF passed
    <3>3. keyOf(q) # keyOf(p)
      BY <1>1, <1>4, <3>2, FlowOfKey, Zenon
    <3> QED
      BY <3>1, <3>3, Zenon DEF holdsAt
  <2>12. ASSUME NEW i \in 1 .. n + 1, NEW j \in 1 .. n + 1, keys'[i] = keys'[j] PROVE i = j
    BY <2>2, <2>4, <2>8, <2>11, <2>12, Zenon
  <2> QED
    BY <2>2, <2>9, <2>10, <2>12, Zenon DEF MapHolds
<1> QED
  BY <1>6, <1>7

\* The invariant is inductive.
LEMMA WireInvariant == Spec => []WireInv
<1>1. Init => WireInv
  <2> SUFFICES ASSUME Init PROVE WireInv
    OBVIOUS
  <2>1. /\ cidr \in Cidr /\ packets = <<>> /\ keys = <<>> /\ values = <<>> /\ sent = <<>> /\ entries = <<>>
    BY DEF Init
  <2>2. TypeOK
    BY <2>1, WireAssumption DEF TypeOK
  <2>3. passed = {}
    BY <2>1 DEF passed, seen
  <2>4. MapHolds
    BY <2>1, <2>3 DEF MapHolds
  <2> QED
    BY <2>1, <2>2, <2>4, Zenon DEF WireInv, BodySent, BodyReceived
<1>2. WireInv /\ [Next]_vars => WireInv'
  <2> SUFFICES ASSUME WireInv, [Next]_vars PROVE WireInv'
    OBVIOUS
  <2>1. ASSUME NEW src \in Address, NEW dst \in Address, NEW ports \in Ports, NEW size \in Sizes,
               handle_v4(src, dst, ports, size)
        PROVE  WireInv'
    <3>1. sent = <<>> /\ sent' = sent /\ entries' = entries
      BY <2>1 DEF handle_v4
    <3>2. BodySent' /\ BodyReceived'
      BY <3>1 DEF WireInv, BodySent, BodyReceived
    <3> QED
      BY <2>1, <3>2, HookTypes, HookMaps, Zenon DEF WireInv
  <2>2. CASE keys' = keys /\ values' = values /\ packets' = packets /\ cidr' = cidr
    <3>1. passed' = passed
      BY <2>2, SamePassed
    <3>2. TypeOK' /\ MapHolds'
      BY <2>2, <3>1 DEF WireInv, TypeOK, MapHolds, holdsAt
    <3>3. finalKeys' = finalKeys /\ finalValues' = finalValues
      BY <2>2 DEF finalKeys, finalValues, kept
    <3>4. CASE sendDataToServer
      <4>1. sent' = Encode(finalKeys, finalValues) /\ entries' = entries /\ sent = <<>>
        BY <3>4 DEF sendDataToServer
      <4>2. entries = <<>>
        BY <4>1 DEF WireInv, BodyReceived
      <4> QED
        BY <3>2, <3>3, <4>1, <4>2, Zenon DEF WireInv, BodySent, BodyReceived
    <3>5. CASE receive
      <4>1. sent' = sent /\ sent # <<>> /\ entries' = Decode(sent)
        BY <3>5 DEF receive
      <4> QED
        BY <3>2, <3>3, <4>1, Zenon DEF WireInv, BodySent, BodyReceived
    <3>6. CASE sent' = sent /\ entries' = entries
      BY <3>2, <3>3, <3>6, Zenon DEF WireInv, BodySent, BodyReceived
    <3>7. CASE \E src, dst \in Address, ports \in Ports, size \in Sizes : handle_v4(src, dst, ports, size)
      BY <2>1, <3>7
    <3> QED
      BY <3>4, <3>5, <3>6, <3>7 DEF Next, vars
  <2>3. CASE sendDataToServer
    BY <2>2, <2>3 DEF sendDataToServer
  <2>4. CASE receive
    BY <2>2, <2>4 DEF receive
  <2>5. CASE UNCHANGED vars
    BY <2>2, <2>5 DEF vars
  <2> QED
    BY <2>1, <2>3, <2>4, <2>5 DEF Next
<1> QED
  BY <1>1, <1>2, PTL DEF Spec

-----------------------------------------------------------------------------
(***************************************************************************)
(* What reaches the server.                                                *)
(***************************************************************************)

\* Where the map has the entries of pods of the node.
onHost == {i \in 1 .. Len(keys) : Ntohl(keys[i].SrcIP) \in ipsOnHost}

\* The filter keeps these, a value beside its key.
LEMMA KeptEntries ==
  ASSUME TypeOK
  PROVE  /\ Len(kept) \in Nat /\ Len(kept) <= MaxFlows /\ listed(kept, onHost)
         /\ \A i \in 1 .. Len(kept) : kept[i] \in 1 .. Len(keys)
         /\ finalKeys \in Seq(Key) /\ Len(finalKeys) = Len(kept)
         /\ finalValues \in Seq(Value) /\ Len(finalValues) = Len(kept)
         /\ \A i \in 1 .. Len(kept) : finalKeys[i] = keys[kept[i]] /\ finalValues[i] = values[kept[i]]
<1> DEFINE n == Len(keys)
           m == Len(kept)
<1>1. n \in Nat /\ onHost \in SUBSET (1 .. n)
  BY DEF TypeOK, onHost
<1>2. kept = inOrder(onHost, n)
  BY DEF kept, onHost
<1>3. kept \in Seq(Nat) /\ m <= n /\ listed(kept, onHost)
  <2> HIDE DEF n
  <2> QED
    BY <1>1, <1>2, InOrderLists, Zenon
<1>4. m \in Nat
  BY <1>3
<1>5. m <= MaxFlows
  BY <1>1, <1>3, <1>4, WireAssumption DEF TypeOK
<1>6. ASSUME NEW i \in 1 .. m PROVE kept[i] \in 1 .. n
  BY <1>1, <1>3 DEF listed
<1>7. \A i \in 1 .. n : keys[i] \in Key /\ values[i] \in Value
  BY DEF TypeOK
<1>8. ASSUME NEW i \in 1 .. m PROVE keys[kept[i]] \in Key /\ values[kept[i]] \in Value
  BY <1>6, <1>7, Zenon
<1>9. finalKeys = [i \in 1 .. m |-> keys[kept[i]]] /\ finalValues = [i \in 1 .. m |-> values[kept[i]]]
  BY Zenon DEF finalKeys, finalValues
<1> HIDE DEF m, n
<1>10. finalKeys \in [1 .. m -> Key] /\ finalValues \in [1 .. m -> Value]
  BY <1>8, <1>9
<1>11. finalKeys \in Seq(Key) /\ Len(finalKeys) = m
  BY <1>4, <1>10
<1>12. finalValues \in Seq(Value) /\ Len(finalValues) = m
  BY <1>4, <1>10
<1>13. \A i \in 1 .. m : finalKeys[i] = keys[kept[i]] /\ finalValues[i] = values[kept[i]]
  BY <1>9, Zenon
<1> QED
  BY <1>3, <1>4, <1>5, <1>6, <1>11, <1>12, <1>13, Zenon DEF m, n

\* Decode takes the body of every report (payload.go), whatever the -subnet-cidr:
\* its length agrees with the number of entries it begins with.
THEOREM NoReportRefused == Spec => []NeverRefused
<1>1. WireInv => NeverRefused
  <2> SUFFICES ASSUME WireInv, sent # <<>> PROVE decodable(sent)
    BY DEF NeverRefused
  <2>1. TypeOK /\ sent = Encode(finalKeys, finalValues)
    BY DEF WireInv, BodySent
  <2>2. /\ finalKeys \in Seq(Key) /\ finalValues \in Seq(Value)
        /\ Len(finalValues) = Len(finalKeys) /\ Len(finalKeys) <= MaxFlows
    BY <2>1, KeptEntries
  <2> QED
    BY <2>1, <2>2, DecodedReport
<1> QED
  BY <1>1, WireInvariant, PTL

\* What passes the hook's test is what the CIDR has.
LEMMA PassedIsCounted ==
  ASSUME \A c \in Cidr : isNetwork(c), TypeOK
  PROVE  counted = passed
<1>1. cidr \in Cidr /\ isNetwork(cidr)
  BY DEF TypeOK
<1>2. \A p \in seen : p.src \in Address /\ p.dst \in Address
  BY SeenPackets, PacketFields
<1>3. ASSUME NEW p \in seen PROVE (member(p.src) /\ member(p.dst)) <=> pass(p)
  BY <1>1, <1>2, TestIsMembership, Zenon DEF pass
<1> QED
  BY <1>3, Zenon DEF counted, passed, seen

\* If each -subnet-cidr is a network address, the eBPF map has exactly the flows
\* between two addresses of the subnet, each once: subnet_prefix and subnet_mask
\* (agent.go) and handle_v4's comparison in network order (kubezonnet.c) amount to
\* a comparison of leading bits.
THEOREM SubnetCounted ==
  ASSUME \A c \in Cidr : isNetwork(c)
  PROVE  Spec => []CountsTheSubnet
<1>1. WireInv => CountsTheSubnet
  <2> SUFFICES ASSUME WireInv PROVE CountsTheSubnet
    OBVIOUS
  <2>1. TypeOK /\ MapHolds
    BY DEF WireInv
  <2>2. counted = passed
    BY <2>1, PassedIsCounted
  <2>3. {keys[i] : i \in 1 .. Len(keys)} = {keyOf(p) : p \in passed}
    <3>1. ASSUME NEW i \in 1 .. Len(keys) PROVE \E p \in passed : keys[i] = keyOf(p)
      BY <2>1, Zenon DEF MapHolds, holdsAt
    <3>2. ASSUME NEW p \in passed PROVE \E i \in 1 .. Len(keys) : keys[i] = keyOf(p)
      BY <2>1, Zenon DEF MapHolds, holdsAt
    <3> QED
      BY <3>1, <3>2
  <2> QED
    BY <2>1, <2>2, <2>3, Zenon DEF CountsTheSubnet, listed, MapHolds
<1> QED
  BY <1>1, WireInvariant, PTL

\* If each -subnet-cidr is a network address, the server decodes exactly the flows
\* of the subnet that leave a pod of the agent's node, each once, with the numbers
\* that the packet's headers have for its ports and its length and under the words
\* ipToUint32 gives its addresses, through the loads and bpf_ntohs of the hook
\* (kubezonnet.c), the filter (agent.go), Encode and Decode (payload.go).
THEOREM ServerGetsTheFlows ==
  ASSUME \A c \in Cidr : isNetwork(c)
  PROVE  Spec => []ServerSeesAddresses
<1>1. WireInv => ServerSeesAddresses
  <2> DEFINE local == {q \in passed : q.src \in PodsOnHost}
             m == Len(kept)
  <2> SUFFICES ASSUME WireInv, entries # <<>> PROVE listed(entries, {recordOf(p) : p \in local})
    <3>1. TypeOK => counted = passed
      BY PassedIsCounted
    <3> QED
      BY <3>1, Zenon DEF WireInv, ServerSeesAddresses, recordOf
  <2>1. TypeOK /\ MapHolds /\ entries = Decode(Encode(finalKeys, finalValues))
    BY DEF WireInv, BodySent, BodyReceived
  <2>2. /\ m \in Nat /\ m <= MaxFlows /\ listed(kept, onHost)
        /\ \A i \in 1 .. m : kept[i] \in 1 .. Len(keys)
        /\ finalKeys \in Seq(Key) /\ Len(finalKeys) = m
        /\ finalValues \in Seq(Value) /\ Len(finalValues) = m
        /\ \A i \in 1 .. m : finalKeys[i] = keys[kept[i]] /\ finalValues[i] = values[kept[i]]
    BY <2>1, KeptEntries, Zenon
  <2>3. /\ \A k \in 1 .. Len(keys) : \E p \in passed : holdsAt(k, p)
        /\ \A p \in passed : \E k \in 1 .. Len(keys) : holdsAt(k, p)
        /\ \A k, l \in 1 .. Len(keys) : keys[k] = keys[l] => k = l
    BY <2>1, Zenon DEF MapHolds
  <2>4. onHost = {kept[i] : i \in 1 .. m} /\ \A i, j \in 1 .. m : kept[i] = kept[j] => i = j
    BY <2>2, Zenon DEF listed
  <2> HIDE DEF m
  <2>5. entries = [i \in 1 .. m |-> entryOf(finalKeys[i], finalValues[i])]
    BY <2>1, <2>2, DecodedReport
  <2>6. Len(entries) = m /\ \A i \in 1 .. m : entries[i] = entryOf(keys[kept[i]], values[kept[i]])
    <3>1. Len(entries) = m
      BY <2>2, <2>5
    <3> QED
      BY <2>2, <2>5, <3>1, Zenon
  <2>7. ASSUME NEW k \in 1 .. Len(keys), NEW p \in passed, holdsAt(k, p)
        PROVE  entryOf(keys[k], values[k]) = recordOf(p) /\ (k \in onHost <=> p.src \in PodsOnHost)
    <3>1. p \in Packet
      BY <2>1, SeenPackets, Zenon
    <3>2. keys[k] = keyOf(p) /\ values[k] = valueOf(p)
      BY <2>7, Zenon DEF holdsAt
    <3>3. entryOf(keys[k], values[k]) = recordOf(p) /\ Ntohl(keys[k].SrcIP) = ipToUint32(p.src)
      BY <3>1, <3>2, EntryOfPacket, Zenon
    <3>4. PodsOnHost \in SUBSET IPv4 /\ p.src \in IPv4
      BY <3>1, PacketFields, WireAssumption DEF IPv4
    <3>5. ipToUint32(p.src) \in ipsOnHost <=> p.src \in PodsOnHost
      BY <3>4, OneWordEach, Zenon DEF ipsOnHost
    <3> QED
      BY <3>3, <3>5, Zenon DEF onHost
  <2>8. ASSUME NEW i \in 1 .. m PROVE \E p \in local : holdsAt(kept[i], p) /\ entries[i] = recordOf(p)
    <3>1. kept[i] \in 1 .. Len(keys) /\ kept[i] \in onHost
      BY <2>2, <2>4, Zenon
    <3>2. PICK p \in passed : holdsAt(kept[i], p)
      BY <2>3, <3>1, Zenon
    <3>3. entries[i] = recordOf(p) /\ p.src \in PodsOnHost
      BY <2>6, <2>7, <3>1, <3>2, Zenon
    <3> QED
      BY <3>2, <3>3, Zenon
  <2>9. ASSUME NEW p \in local PROVE \E i \in 1 .. m : entries[i] = recordOf(p)
    <3>1. PICK k \in 1 .. Len(keys) : holdsAt(k, p)
      BY <2>3, Zenon
    <3>2. k \in onHost
      BY <2>7, <3>1, Zenon
    <3>3. PICK i \in 1 .. m : k = kept[i]
      BY <2>4, <3>2, Zenon
    <3>4. entries[i] = recordOf(p)
      BY <2>6, <2>7, <3>1, <3>3, Zenon
    <3> QED
      BY <3>4, Zenon
  <2>10. ASSUME NEW i \in 1 .. m, NEW j \in 1 .. m, entries[i] = entries[j] PROVE i = j
    <3>1. PICK p \in local : holdsAt(kept[i], p) /\ entries[i] = recordOf(p)
      BY <2>8, Zenon
    <3>2. PICK q \in local : holdsAt(kept[j], q) /\ entries[j] = recordOf(q)
      BY <2>8, Zenon
    <3>3. p \in Packet /\ q \in Packet
      BY <2>1, SeenPackets, Zenon
    <3>4. recordOf(p) = recordOf(q)
      BY <2>10, <3>1, <3>2, Zenon
    <3>5. keyOf(p) = keyOf(q)
      <4>1. /\ ipToUint32(p.src) = ipToUint32(q.src) /\ ipToUint32(p.dst) = ipToUint32(q.dst)
            /\ numberIn(p.ports[1], 2) = numberIn(q.ports[1], 2)
            /\ numberIn(p.ports[2], 2) = numberIn(q.ports[2], 2)
        BY <3>4 DEF recordOf
      <4> QED
        BY <3>3, <4>1, FlowOfRecord, Zenon
    <3>6. keys[kept[i]] = keys[kept[j]]
      BY <3>1, <3>2, <3>5, Zenon DEF holdsAt
    <3>7. kept[i] = kept[j]
      BY <2>2, <2>3, <3>6, Zenon
    <3> QED
      BY <2>4, <3>7, Zenon
  <2>11. {entries[i] : i \in 1 .. m} = {recordOf(p) : p \in local}
    <3> HIDE DEF local
    <3>1. ASSUME NEW i \in 1 .. m PROVE \E p \in local : entries[i] = recordOf(p)
      BY <2>8, Zenon
    <3> QED
      BY <2>9, <3>1
  <2> QED
    BY <2>6, <2>10, <2>11, Zenon DEF listed
<1> QED
  BY <1>1, WireInvariant, PTL
==============================================================================
