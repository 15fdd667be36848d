---------------------------- MODULE PacketProofs ----------------------------
(***************************************************************************)
(* Theorems about Packet, for every frame, every answer and every limit:   *)
(* the arithmetic of the checksum, the sums of the loops, what is in the   *)
(* buffer at each step, the name that is copied out of the question, and   *)
(* the bytes of the reply.                                                 *)
(***************************************************************************)
EXTENDS Packet, Inductions, TLAPS

Base == 65536
Ones == 65535
Word == {n \in Nat : n < Base}
Sum32 == {s \in Nat : s < Base * Base}

\* What the sum over the checked bytes is where the checksum is right
Verifies(n) == \E k \in Nat : n = Ones * k

\* The second addition: what the first one has carried goes into the low half, and
\* sixteen bits hold the result.
Twice(once) == (once + (once \div Base)) % Base

\* Division by 2^16 and its remainder
LEMMA DivMod ==
    ASSUME NEW s \in Nat
    PROVE  /\ s \div Base \in Nat
           /\ s % Base \in Word
           /\ s = Base * (s \div Base) + (s % Base)
BY SMT DEF Word, Base, Ones

\* There is one way to divide.
LEMMA OneQuotient ==
    ASSUME NEW s \in Nat, s >= Base, s < Base + Base,
           NEW q \in Nat, NEW r \in Word, s = Base * q + r
    PROVE  q = 1 /\ r = s - Base
BY SMT DEF Word, Base, Ones

LEMMA NoQuotient ==
    ASSUME NEW s \in Nat, s < Base,
           NEW q \in Nat, NEW r \in Word, s = Base * q + r
    PROVE  q = 0 /\ r = s
BY SMT DEF Word, Base, Ones

LEMMA HighIsWord ==
    ASSUME NEW s \in Sum32, NEW q \in Nat, NEW r \in Word, s = Base * q + r
    PROVE  q \in Word
BY SMT DEF Sum32, Word, Base

\* Without a carry the second addition changes nothing.
LEMMA TwiceWithoutCarry ==
    ASSUME NEW once \in Nat, once < Base
    PROVE  Twice(once) = once
<1>1. once \div Base = 0 /\ once % Base = once
  BY DivMod, NoQuotient, Zenon
<1>2. once + 0 = once
  BY SMT
<1> QED
  BY <1>1, <1>2, Zenon DEF Twice

\* With one it leaves none.
LEMMA TwiceWithCarry ==
    ASSUME NEW once \in Nat, once >= Base, once < Base + Ones
    PROVE  Twice(once) = once - Ones
<1>1. once < Base + Base
  BY SMT DEF Base, Ones
<1>2. once \div Base = 1
  BY <1>1, DivMod, OneQuotient, Zenon
<1>3. PICK next \in Nat : next = once + 1
  BY SMT
<1>4. next >= Base /\ next < Base + Base /\ next - Base = once - Ones
  BY <1>3, SMT DEF Base, Ones
<1>5. next % Base = next - Base
  <2>1. next \div Base \in Nat /\ next % Base \in Word
    BY <1>3, DivMod, Zenon
  <2>2. next = Base * (next \div Base) + (next % Base)
    BY <1>3, DivMod, Zenon
  <2> QED
    BY <1>3, <1>4, <2>1, <2>2, OneQuotient, Zenon
<1>6. Twice(once) = next % Base
  BY <1>2, <1>3, SMT DEF Twice, Base
<1> QED
  BY <1>4, <1>5, <1>6, Zenon

LEMMA Multiple ==
    ASSUME NEW n, NEW k \in Nat, n = Ones * k
    PROVE  Verifies(n)
BY Zenon DEF Verifies

\* What is stored completes the sum, in the two cases of the carry.
LEMMA CompletedWithoutCarry ==
    ASSUME NEW high \in Word, NEW low \in Word, high + low < Base
    PROVE  /\ Ones - (high + low) \in Word
           /\ Verifies((Base * high + low) + (Ones - (high + low)))
<1>1. Ones - (high + low) \in Word
  BY SMT DEF Word, Base, Ones
<1>2. PICK k \in Nat : k = high + 1
  BY SMT DEF Word, Base, Ones
<1>3. (Base * high + low) + (Ones - (high + low)) = Ones * k
  BY <1>2, SMT DEF Word, Base, Ones
<1> QED
  BY <1>1, <1>2, <1>3, Multiple, Zenon

LEMMA CompletedWithCarry ==
    ASSUME NEW high \in Word, NEW low \in Word, high + low >= Base
    PROVE  /\ Ones - ((high + low) - Ones) \in Word
           /\ Verifies((Base * high + low) + (Ones - ((high + low) - Ones)))
<1>1. Ones - ((high + low) - Ones) \in Word
  BY SMT DEF Word, Base, Ones
<1>2. PICK k \in Nat : k = high + 2
  BY SMT DEF Word, Base, Ones
<1>3. (Base * high + low) + (Ones - ((high + low) - Ones)) = Ones * k
  BY <1>2, SMT DEF Word, Base, Ones
<1> QED
  BY <1>1, <1>2, <1>3, Multiple, Zenon

\* Packet's arithmetic in these names
LEMMA Unfolded ==
    ASSUME NEW sum
    PROVE  /\ Carried(sum) = (sum \div Base) + (sum % Base)
           /\ Complement(sum) = Ones - Twice(Carried(sum))
BY SMT DEF Complement, Twice, Carried, Base, Ones

\* update_udp_checksum() and update_ip_checksum(): whatever 32-bit sum the loops
\* have made, two additions of the carries are enough, and the 16 bits that are
\* stored complete it to a multiple of 2^16 - 1, which is what a receiver asks for.
THEOREM ChecksumCompletes ==
    ASSUME NEW sum \in Sum32
    PROVE  /\ Complement(sum) \in Word
           /\ Verifies(sum + Complement(sum))
<1> DEFINE high == sum \div Base
           low == sum % Base
<1>1. sum \in Nat
  BY Zenon DEF Sum32
<1>2. high \in Nat /\ low \in Word /\ sum = Base * high + low
  BY <1>1, DivMod, Zenon
<1>3. high \in Word
  BY <1>2, HighIsWord, Zenon
<1>4. Complement(sum) = Ones - Twice(high + low)
  BY Unfolded, Zenon
<1> HIDE DEF high, low
<1>5. high + low \in Nat /\ high + low < Base + Ones
  <2>1. ASSUME NEW h \in Word, NEW l \in Word
        PROVE  h + l \in Nat /\ h + l < Base + Ones
    BY SMT DEF Word, Base, Ones
  <2> QED
    BY <1>2, <1>3, <2>1, Zenon
<1>6. CASE high + low >= Base
  <2>1. Complement(sum) = Ones - ((high + low) - Ones)
    BY <1>4, <1>5, <1>6, TwiceWithCarry, Zenon
  <2> QED
    BY <1>2, <1>3, <1>6, <2>1, CompletedWithCarry, Zenon
<1>7. CASE high + low < Base
  <2>1. Complement(sum) = Ones - (high + low)
    BY <1>4, <1>5, <1>7, TwiceWithoutCarry, Zenon
  <2> QED
    BY <1>2, <1>3, <1>7, <2>1, CompletedWithoutCarry, Zenon
<1>8. high + low >= Base \/ high + low < Base
  BY <1>5, SMT DEF Base
<1> QED
  BY <1>6, <1>7, <1>8, Zenon
-----------------------------------------------------------------------------
(* What the loops over the buffer add up                                     *)

\* The words that Words() adds up
WordsOf(buf, at, count) ==
    [n \in 1 .. count |-> buf[at + 2 * n - 2] + 256 * buf[at + 2 * n - 1]]

LEMMA WordsAre ==
    ASSUME NEW buf, NEW at \in Nat, NEW count \in Nat,
           WordsOf(buf, at, count) \in [1 .. count -> Nat]
    PROVE  Words(buf, at, count) = Sums(count, WordsOf(buf, at, count))[count]
<1> DEFINE t == WordsOf(buf, at, count)
           Made(f) == f = [n \in 0 .. count |->
               IF n = 0 THEN 0 ELSE f[n - 1] + (buf[at + 2 * n - 2] + 256 * buf[at + 2 * n - 1])]
           f == CHOOSE f : Made(f)
<1>1. ASSUME NEW g PROVE Made(g) <=> AreSums(g, count, t)
  <2>1. ASSUME NEW n \in 0 .. count
        PROVE  (IF n = 0 THEN 0 ELSE g[n - 1] + (buf[at + 2 * n - 2] + 256 * buf[at + 2 * n - 1]))
               = (IF n = 0 THEN 0 ELSE g[n - 1] + t[n])
    <3>1. n # 0 => n \in 1 .. count
      OBVIOUS
    <3> QED
      BY <3>1, Zenon DEF WordsOf
  <2> HIDE DEF t
  <2> QED
    BY <2>1, Zenon DEF AreSums
<1>2. AreSums(Sums(count, t), count, t)
  BY SumsAre
<1>3. Made(f)
  <2> HIDE DEF Made
  <2> QED
    BY <1>1, <1>2
<1>4. Words(buf, at, count) = f[count]
  BY Zenon DEF Words
<1> HIDE DEF f, Made
<1> QED
  BY <1>1, <1>3, <1>4, SumsUnique

\* The numbers that ByteSum adds up
BytesOf(buf, at, len) ==
    [n \in 1 .. len |-> IF n % 2 = 1 THEN buf[at + n - 1] ELSE 256 * buf[at + n - 1]]

LEMMA BytesAre ==
    ASSUME NEW buf, NEW at \in Nat, NEW len \in Nat,
           BytesOf(buf, at, len) \in [1 .. len -> Nat]
    PROVE  ByteSum(buf, at, len) = Sums(len, BytesOf(buf, at, len))[len]
<1> DEFINE t == BytesOf(buf, at, len)
           Made(f) == f = [n \in 0 .. len |->
               IF n = 0 THEN 0
               ELSE f[n - 1] + (IF n % 2 = 1 THEN buf[at + n - 1] ELSE 256 * buf[at + n - 1])]
           f == CHOOSE f : Made(f)
<1>1. ASSUME NEW g PROVE Made(g) <=> AreSums(g, len, t)
  <2>1. ASSUME NEW n \in 0 .. len
        PROVE  (IF n = 0 THEN 0
                ELSE g[n - 1] + (IF n % 2 = 1 THEN buf[at + n - 1] ELSE 256 * buf[at + n - 1]))
               = (IF n = 0 THEN 0 ELSE g[n - 1] + t[n])
    <3>1. n # 0 => n \in 1 .. len
      OBVIOUS
    <3> QED
      BY <3>1, Zenon DEF BytesOf
  <2> HIDE DEF t
  <2> QED
    BY <2>1, Zenon DEF AreSums
<1>2. AreSums(Sums(len, t), len, t)
  BY SumsAre
<1>3. Made(f)
  <2> HIDE DEF Made
  <2> QED
    BY <1>1, <1>2
<1>4. ByteSum(buf, at, len) = f[len]
  BY Zenon DEF ByteSum
<1> HIDE DEF f, Made
<1> QED
  BY <1>1, <1>3, <1>4, SumsUnique

\* A stretch of the buffer that holds bytes
Holds(buf, at, len) == \A k \in at .. at + len - 1 : buf[k] \in Byte

LEMMA BytesType ==
    ASSUME NEW buf, NEW at \in Nat, NEW len \in Nat, Holds(buf, at, len)
    PROVE  BytesOf(buf, at, len) \in [1 .. len -> Nat]
<1>1. SUFFICES ASSUME NEW n \in 1 .. len
               PROVE  (IF n % 2 = 1 THEN buf[at + n - 1] ELSE 256 * buf[at + n - 1]) \in Nat
  BY Zenon DEF BytesOf
<1>2. at + n - 1 \in at .. at + len - 1
  OBVIOUS
<1>3. buf[at + n - 1] \in Nat
  BY <1>2 DEF Holds, Byte
<1> QED
  BY <1>3

\* A word is its two bytes.
LEMMA WordsAreBytes ==
    ASSUME NEW buf, NEW at \in Nat, NEW count \in Nat, Holds(buf, at, 2 * count)
    PROVE  Words(buf, at, count) = ByteSum(buf, at, 2 * count)
<1> DEFINE t == BytesOf(buf, at, 2 * count)
           u == WordsOf(buf, at, count)
<1>1. 2 * count \in Nat
  OBVIOUS
<1>2. t \in [1 .. 2 * count -> Nat]
  BY <1>1, BytesType
<1>3. ASSUME NEW n \in 1 .. count
      PROVE  u[n] \in Nat /\ u[n] = t[2 * n - 1] + t[2 * n]
  <2>1. /\ 2 * n - 1 \in 1 .. 2 * count /\ (2 * n - 1) % 2 = 1
        /\ 2 * n \in 1 .. 2 * count /\ (2 * n) % 2 = 0
        /\ at + (2 * n - 1) - 1 = at + 2 * n - 2
        /\ at + (2 * n) - 1 = at + 2 * n - 1
        /\ at + 2 * n - 2 \in at .. at + 2 * count - 1
        /\ at + 2 * n - 1 \in at .. at + 2 * count - 1
    OBVIOUS
  <2>2. t[2 * n - 1] = buf[at + 2 * n - 2]
    BY <2>1 DEF BytesOf
  <2>3. t[2 * n] = 256 * buf[at + 2 * n - 1]
    BY <2>1 DEF BytesOf
  <2>4. u[n] = buf[at + 2 * n - 2] + 256 * buf[at + 2 * n - 1]
    BY DEF WordsOf
  <2>5. buf[at + 2 * n - 2] \in Nat /\ buf[at + 2 * n - 1] \in Nat
    BY <2>1 DEF Holds, Byte
  <2> QED
    BY <2>2, <2>3, <2>4, <2>5
<1>4. u \in [1 .. count -> Nat]
  BY <1>3 DEF WordsOf
<1>5. Words(buf, at, count) = Sums(count, u)[count]
  BY <1>4, WordsAre
<1>6. ByteSum(buf, at, 2 * count) = Sums(2 * count, t)[2 * count]
  BY <1>1, <1>2, BytesAre
<1>7. Sums(2 * count, t)[2 * count] = Sums(count, u)[count]
  <2> HIDE DEF t, u
  <2> QED
    BY <1>2, <1>3, <1>4, SumsPairs
<1> QED
  BY <1>5, <1>6, <1>7, Zenon

\* The sum of a stretch is the sum of its parts, where the first has whole words.
Cut(at, len, N, behind, M) == N % 2 = 0 /\ behind = at + N /\ len = N + M

LEMMA ByteSumSplit ==
    ASSUME NEW buf, NEW at \in Nat, NEW len \in Nat, NEW N \in Nat, NEW behind \in Nat, NEW M \in Nat,
           Cut(at, len, N, behind, M), Holds(buf, at, len)
    PROVE  ByteSum(buf, at, len) = ByteSum(buf, at, N) + ByteSum(buf, behind, M)
<1> USE DEF Cut
<1> DEFINE t == BytesOf(buf, at, N)
           u == BytesOf(buf, behind, M)
           w == BytesOf(buf, at, len)
<1>1. /\ Holds(buf, at, N) /\ Holds(buf, behind, M)
  BY DEF Holds
<1>2. /\ t \in [1 .. N -> Nat] /\ u \in [1 .. M -> Nat] /\ w \in [1 .. len -> Nat]
  BY <1>1, BytesType
<1>3. ASSUME NEW n \in 1 .. N PROVE w[n] = t[n]
  <2>1. n \in 1 .. len
    OBVIOUS
  <2> QED
    BY <2>1 DEF BytesOf
<1>4. ASSUME NEW n \in 1 .. M PROVE w[N + n] = u[n]
  <2>1. /\ N + n \in 1 .. len /\ (N + n) % 2 = n % 2
        /\ at + (N + n) - 1 = behind + n - 1
    OBVIOUS
  <2> QED
    BY <2>1, Zenon DEF BytesOf
<1>5. /\ ByteSum(buf, at, N) = Sums(N, t)[N]
      /\ ByteSum(buf, behind, M) = Sums(M, u)[M]
      /\ ByteSum(buf, at, len) = Sums(len, w)[len]
  BY <1>1, <1>2, BytesAre
<1>6. Sums(len, w)[len] = Sums(N, t)[N] + Sums(M, u)[M]
  <2> HIDE DEF t, u, w
  <2>1. w \in [1 .. N + M -> Nat]
    BY <1>2
  <2>2. Sums(N + M, w)[N + M] = Sums(N, t)[N] + Sums(M, u)[M]
    BY <1>2, <1>3, <1>4, <2>1, SumsSplit
  <2>3. len = N + M
    OBVIOUS
  <2> QED
    BY <2>2, <2>3, Zenon
<1> QED
  BY <1>5, <1>6, Zenon

\* A sum depends on the bytes only.
Alike(buf, buf2, a, b, n) == \A k \in 0 .. n - 1 : buf[a + k] = buf2[b + k]

LEMMA ByteSumSame ==
    ASSUME NEW buf, NEW buf2, NEW at \in Nat, NEW at2 \in Nat, NEW len \in Nat,
           Holds(buf, at, len), Alike(buf, buf2, at, at2, len)
    PROVE  ByteSum(buf, at, len) = ByteSum(buf2, at2, len)
<1> USE DEF Alike
<1>1. Holds(buf2, at2, len)
  <2>1. ASSUME NEW k \in at2 .. at2 + len - 1 PROVE buf2[k] \in Byte
    <3>1. k - at2 \in 0 .. len - 1 /\ at2 + (k - at2) = k /\ at + (k - at2) \in at .. at + len - 1
      OBVIOUS
    <3> QED
      BY <3>1 DEF Holds
  <2> QED
    BY <2>1 DEF Holds
<1>2. BytesOf(buf, at, len) = BytesOf(buf2, at2, len)
  <2>1. ASSUME NEW n \in 1 .. len PROVE buf[at + n - 1] = buf2[at2 + n - 1]
    <3>1. n - 1 \in 0 .. len - 1 /\ at + (n - 1) = at + n - 1 /\ at2 + (n - 1) = at2 + n - 1
      OBVIOUS
    <3> QED
      BY <3>1
  <2> QED
    BY <2>1, Zenon DEF BytesOf
<1>3. /\ ByteSum(buf, at, len) = Sums(len, BytesOf(buf, at, len))[len]
      /\ ByteSum(buf2, at2, len) = Sums(len, BytesOf(buf2, at2, len))[len]
  BY <1>1, BytesType, BytesAre
<1> QED
  BY <1>2, <1>3, Zenon

LEMMA ByteSumBound ==
    ASSUME NEW buf, NEW at \in Nat, NEW len \in Nat, Holds(buf, at, len)
    PROVE  ByteSum(buf, at, len) \in Nat /\ ByteSum(buf, at, len) <= 65280 * len
<1> DEFINE t == BytesOf(buf, at, len)
<1>1. t \in [1 .. len -> Nat]
  BY BytesType
<1>2. ASSUME NEW n \in 1 .. len PROVE t[n] <= 65280
  <2>1. at + n - 1 \in at .. at + len - 1
    OBVIOUS
  <2>2. buf[at + n - 1] \in Nat /\ buf[at + n - 1] <= 255
    BY <2>1 DEF Holds, Byte
  <2>3. t[n] = IF n % 2 = 1 THEN buf[at + n - 1] ELSE 256 * buf[at + n - 1]
    BY DEF BytesOf
  <2> QED
    BY <2>2, <2>3
<1>3. ByteSum(buf, at, len) = Sums(len, t)[len]
  BY <1>1, BytesAre
<1>4. PICK B \in Nat : B = 65280
  OBVIOUS
<1>5. Sums(len, t)[len] \in Nat /\ Sums(len, t)[len] <= B * len
  <2> HIDE DEF t
  <2> QED
    <3>1. \A n \in 1 .. len : t[n] <= B
      BY <1>2, <1>4
    <3> QED
      BY <1>1, <3>1, SumsBound
<1> QED
  BY <1>3, <1>4, <1>5

\* Two bytes are a word.
LEMMA WordIs ==
    ASSUME NEW buf, NEW at \in Nat, Holds(buf, at, 2)
    PROVE  ByteSum(buf, at, 2) = buf[at] + 256 * buf[at + 1]
<1> DEFINE t == BytesOf(buf, at, 2)
<1>1. buf[at] \in Nat /\ buf[at + 1] \in Nat
  BY DEF Holds, Byte
<1>2. t \in [1 .. 2 -> Nat]
  BY BytesType
<1>3. t[1] = buf[at] /\ t[2] = 256 * buf[at + 1]
  <2>1. 1 \in 1 .. 2 /\ 2 \in 1 .. 2 /\ 1 % 2 = 1 /\ 2 % 2 = 0 /\ at + 1 - 1 = at /\ at + 2 - 1 = at + 1
    OBVIOUS
  <2> QED
    BY <2>1 DEF BytesOf
<1>4. ByteSum(buf, at, 2) = Sums(2, t)[2]
  BY <1>2, BytesAre
<1>5. Sums(2, t)[2] = t[1] + t[2]
  <2> HIDE DEF t
  <2>1. PICK f : f = Sums(2, t)
    OBVIOUS
  <2>2. f \in [0 .. 2 -> Nat] /\ f[0] = 0 /\ \A n \in 1 .. 2 : f[n] = f[n - 1] + t[n]
    BY <1>2, <2>1, SumsAre
  <2>3. f[1] = f[1 - 1] + t[1] /\ f[2] = f[2 - 1] + t[2]
    BY <2>2
  <2>4. f[2] = t[1] + t[2]
    BY <1>2, <2>2, <2>3
  <2> QED
    BY <2>1, <2>4
<1> QED
  BY <1>3, <1>4, <1>5

\* Some words, and the bytes behind them
LEMMA WordsAndRest ==
    ASSUME NEW buf, NEW at \in Nat, NEW len \in Nat, NEW c \in Nat, NEW behind \in Nat, NEW M \in Nat,
           Cut(at, len, 2 * c, behind, M), Holds(buf, at, len)
    PROVE  ByteSum(buf, at, len) = Words(buf, at, c) + ByteSum(buf, behind, M)
<1>1. PICK N \in Nat : N = 2 * c
  OBVIOUS
<1>2. Cut(at, len, N, behind, M)
  BY <1>1
<1>3. Holds(buf, at, 2 * c)
  BY DEF Holds, Cut
<1>4. ByteSum(buf, at, len) = ByteSum(buf, at, N) + ByteSum(buf, behind, M)
  BY <1>1, <1>2, ByteSumSplit
<1>5. Words(buf, at, c) = ByteSum(buf, at, 2 * c)
  BY <1>3, WordsAreBytes
<1> QED
  BY <1>1, <1>4, <1>5, Zenon

\* SumOf: three loops, and the odd byte
LEMMA SumOfIs ==
    ASSUME NEW buf, NEW at \in Nat, NEW len \in Nat, Holds(buf, at, len)
    PROVE  SumOf(buf, at, len) = ByteSum(buf, at, len)
<1> DEFINE Rest(rest) == ByteSum(buf, at + len - rest, rest)
           Turn(f, rest) ==
               LET p == at + len - rest IN
               IF rest >= 32 THEN Words(buf, p, 16) + f[rest - 32]
               ELSE IF rest >= 8 THEN Words(buf, p, 4) + f[rest - 8]
               ELSE IF rest > 1 THEN Words(buf, p, 1) + f[rest - 2]
               ELSE IF rest = 1 THEN buf[p] ELSE 0
           Made(f) == f = [rest \in 0 .. len |-> Turn(f, rest)]
           f == CHOOSE f : Made(f)
<1>1. ASSUME NEW rest \in 0 .. len, NEW c \in Nat, 2 * c <= rest
      PROVE  Rest(rest) = Words(buf, at + len - rest, c) + Rest(rest - 2 * c)
  <2>1. PICK M \in Nat : M = rest - 2 * c
    BY <1>1
  <2>2. PICK p \in Nat : p = at + len - rest
    OBVIOUS
  <2>3. PICK behind \in Nat : behind = at + len - M
    BY <2>1
  <2>4. rest \in Nat /\ Cut(p, rest, 2 * c, behind, M)
    BY <2>1, <2>2, <2>3 DEF Cut
  <2>5. Holds(buf, p, rest)
    BY <2>1, <2>2 DEF Holds
  <2>6. ByteSum(buf, p, rest) = Words(buf, p, c) + ByteSum(buf, behind, M)
    BY <2>1, <2>2, <2>3, <2>4, <2>5, WordsAndRest
  <2> QED
    BY <2>1, <2>2, <2>3, <2>6, Zenon
<1>2. Rest(0) = 0
  <2>1. PICK p \in Nat : p = at + len - 0
    OBVIOUS
  <2>2. BytesOf(buf, p, 0) \in [1 .. 0 -> Nat]
    BY BytesType DEF Holds
  <2>3. ByteSum(buf, p, 0) = Sums(0, BytesOf(buf, p, 0))[0]
    BY <2>2, BytesAre
  <2>4. Sums(0, BytesOf(buf, p, 0))[0] = 0
    BY <2>2, SumsAre
  <2> QED
    BY <2>1, <2>3, <2>4, Zenon
<1>3. len >= 1 => Rest(1) = buf[at + len - 1]
  <2>1. SUFFICES ASSUME len >= 1 PROVE Rest(1) = buf[at + len - 1]
    OBVIOUS
  <2>2. PICK p \in Nat : p = at + len - 1
    BY <2>1
  <2> DEFINE t == BytesOf(buf, p, 1)
  <2>3. Holds(buf, p, 1) /\ buf[p] \in Nat
    BY <2>1, <2>2 DEF Holds, Byte
  <2>4. t \in [1 .. 1 -> Nat]
    BY <2>3, BytesType
  <2>5. ByteSum(buf, p, 1) = Sums(1, t)[1]
    BY <2>4, BytesAre
  <2>6. t[1] = buf[p]
    <3>1. 1 \in 1 .. 1 /\ 1 % 2 = 1 /\ p + 1 - 1 = p
      OBVIOUS
    <3> QED
      BY <3>1, Zenon DEF BytesOf
  <2>7. Sums(1, t)[1] = Sums(1, t)[0] + t[1] /\ Sums(1, t)[0] = 0
    <3> HIDE DEF t
    <3>1. \A n \in 1 .. 1 : Sums(1, t)[n] = Sums(1, t)[n - 1] + t[n]
      BY <2>4, SumsAre
    <3>2. Sums(1, t)[0] = 0
      BY <2>4, SumsAre
    <3>3. 1 \in 1 .. 1 /\ 1 - 1 = 0
      OBVIOUS
    <3> QED
      BY <3>1, <3>2, <3>3
  <2>8. Sums(1, t)[1] = buf[p]
    <3> HIDE DEF t
    <3> QED
      BY <2>3, <2>6, <2>7
  <2> QED
    BY <2>2, <2>5, <2>8, Zenon
<1>4. PICK g : g = [rest \in 0 .. len |-> Rest(rest)]
  OBVIOUS
<1> HIDE DEF Rest
<1>5. ASSUME NEW h, NEW rest \in 0 .. len, \A r \in 0 .. len : r < rest => h[r] = Rest(r)
      PROVE  Turn(h, rest) = Rest(rest)
  <2>1. CASE rest >= 32
    <3>1. rest - 32 \in 0 .. len /\ rest - 32 < rest /\ 2 * 16 <= rest /\ 2 * 16 = 32
      BY <2>1
    <3>2. Rest(rest) = Words(buf, at + len - rest, 16) + Rest(rest - 32)
      BY <1>1, <3>1
    <3> QED
      BY <1>5, <2>1, <3>1, <3>2
  <2>2. CASE ~(rest >= 32) /\ rest >= 8
    <3>1. rest - 8 \in 0 .. len /\ rest - 8 < rest /\ 2 * 4 <= rest /\ 2 * 4 = 8
      BY <2>2
    <3>2. Rest(rest) = Words(buf, at + len - rest, 4) + Rest(rest - 8)
      BY <1>1, <3>1
    <3> QED
      BY <1>5, <2>2, <3>1, <3>2
  <2>3. CASE ~(rest >= 32) /\ ~(rest >= 8) /\ rest > 1
    <3>1. rest - 2 \in 0 .. len /\ rest - 2 < rest /\ 2 * 1 <= rest /\ 2 * 1 = 2
      BY <2>3
    <3>2. Rest(rest) = Words(buf, at + len - rest, 1) + Rest(rest - 2)
      BY <1>1, <3>1
    <3> QED
      BY <1>5, <2>3, <3>1, <3>2
  <2>4. CASE rest = 1
    BY <1>3, <2>4
  <2>5. CASE rest = 0
    BY <1>2, <2>5
  <2> QED
    BY <2>1, <2>2, <2>3, <2>4, <2>5
<1> HIDE DEF Turn
<1>6. Made(g)
  <2>1. ASSUME NEW rest \in 0 .. len PROVE Turn(g, rest) = Rest(rest)
    BY <1>4, <1>5
  <2> QED
    BY <1>4, <2>1, Zenon
<1>7. Made(f)
  <2> HIDE DEF Made
  <2> QED
    BY <1>6
<1>8. SumOf(buf, at, len) = f[len]
  BY Zenon DEF SumOf, Turn
<1> HIDE DEF f
<1> DEFINE S == {n \in 0 .. len : \A r \in 0 .. n : f[r] = Rest(r)}
<1>9. ASSUME NEW n \in 0 .. len, \A r \in 0 .. len : r < n => f[r] = Rest(r) PROVE f[n] = Rest(n)
  BY <1>5, <1>7, <1>9
<1>10. 0 \in S
  BY <1>9
<1>11. ASSUME NEW n \in 1 .. len, n - 1 \in S PROVE n \in S
  <2>1. \A r \in 0 .. len : r < n => f[r] = Rest(r)
    BY <1>11
  <2>2. f[n] = Rest(n)
    BY <1>9, <2>1
  <2> QED
    BY <2>1, <2>2
<1>12. 0 .. len \subseteq S
  <2> HIDE DEF S
  <2> QED
    BY <1>10, <1>11, BoundedInduction
<1>13. f[len] = Rest(len)
  BY <1>12
<1>14. at + len - len = at
  OBVIOUS
<1> QED
  BY <1>8, <1>13, <1>14, Zenon DEF Rest
-----------------------------------------------------------------------------
(* Types                                                                     *)

Buffer == [0 .. Size - 1 -> Byte]

LEMMA PutType ==
    ASSUME NEW D, NEW buf \in [D -> Byte], NEW at \in Int, NEW bytes \in Seq(Byte)
    PROVE  Put(buf, at, bytes) \in [D -> Byte]
<1>1. ASSUME NEW k \in D, k \in at .. at + Len(bytes) - 1 PROVE bytes[k - at + 1] \in Byte
  <2>1. k - at + 1 \in 1 .. Len(bytes)
    BY <1>1
  <2> QED
    BY <2>1
<1> QED
  BY <1>1 DEF Put

\* A field that lies in the buffer
IsField(f) == f.at \in Nat /\ f.len \in Nat
Inside(hdr, f) == hdr \in Nat /\ IsField(f) /\ hdr + f.at + f.len <= Size

LEMMA GetType ==
    ASSUME NEW buf \in Buffer, NEW hdr, NEW f, Inside(hdr, f), Size \in Nat
    PROVE  /\ Get(buf, hdr, f) \in Seq(Byte)
           /\ Len(Get(buf, hdr, f)) = f.len
<1>1. ASSUME NEW k \in 1 .. f.len PROVE buf[hdr + f.at + k - 1] \in Byte
  <2>1. hdr + f.at + k - 1 \in 0 .. Size - 1
    BY DEF Inside, IsField
  <2> QED
    BY <2>1 DEF Buffer
<1>2. f.len \in Nat
  BY DEF Inside, IsField
<1> QED
  BY <1>1, <1>2 DEF Get

LEMMA SetType ==
    ASSUME NEW buf \in Buffer, NEW hdr \in Nat, NEW f, IsField(f), NEW bytes \in Seq(Byte)
    PROVE  Set(buf, hdr, f, bytes) \in Buffer
<1>1. hdr + f.at \in Int
  BY DEF IsField
<1> QED
  BY <1>1, PutType DEF Set, Buffer

LEMMA SwappedType ==
    ASSUME NEW buf \in Buffer, NEW hdr \in Nat, NEW f, NEW g, Inside(hdr, f), Inside(hdr, g), Size \in Nat
    PROVE  Swapped(buf, hdr, f, g) \in Buffer
<1>1. Get(buf, hdr, f) \in Seq(Byte) /\ Get(buf, hdr, g) \in Seq(Byte)
  BY GetType
<1>2. IsField(f) /\ IsField(g)
  BY DEF Inside
<1>3. Set(buf, hdr, f, Get(buf, hdr, g)) \in Buffer
  BY <1>1, <1>2, SetType
<1> QED
  BY <1>1, <1>2, <1>3, SetType DEF Swapped

LEMMA ByteOf ==
    ASSUME NEW w \in Int
    PROVE  w % 256 \in Byte /\ (w \div 256) % 256 \in Byte
BY DEF Byte

\* So many bytes
Bytes(n) == {s \in Seq(Byte) : Len(s) = n}

LEMMA BytesInARow ==
    ASSUME NEW m \in Nat, NEW n \in Nat, NEW s \in Bytes(m), NEW t \in Bytes(n)
    PROVE  s \o t \in Bytes(m + n)
<1>1. s \in Seq(Byte) /\ t \in Seq(Byte) /\ Len(s) = m /\ Len(t) = n
  BY DEF Bytes
<1>2. s \o t \in Seq(Byte) /\ Len(s \o t) = Len(s) + Len(t)
  BY <1>1, ConcatProperties
<1> QED
  BY <1>1, <1>2 DEF Bytes

LEMMA HostType ==
    ASSUME NEW w \in Int
    PROVE  Host(w) \in Bytes(2) /\ Net(w) \in Bytes(2)
<1>1. w % 256 \in Byte /\ (w \div 256) % 256 \in Byte
  BY ByteOf
<1> QED
  BY <1>1 DEF Host, Net, Bytes

LEMMA Net32Type ==
    ASSUME NEW w \in Nat
    PROVE  Net32(w) \in Bytes(4)
<1>1. w \div 65536 \in Int /\ w % 65536 \in Int
  OBVIOUS
<1>2. PICK s \in Bytes(2) : s = Net(w \div 65536)
  BY <1>1, HostType
<1>3. PICK t \in Bytes(2) : t = Net(w % 65536)
  BY <1>1, HostType
<1>4. s \o t \in Bytes(4)
  <2>1. s \o t \in Bytes(2 + 2)
    BY <1>2, <1>3, BytesInARow
  <2> QED
    BY <2>1
<1> QED
  BY <1>2, <1>3, <1>4, SMT DEF Net32

LEMMA Uint16Type ==
    ASSUME NEW w \in uint16_t
    PROVE  w \in Int
BY DEF uint16_t

LEMMA NumberType ==
    ASSUME NEW a \in Byte, NEW b \in Byte
    PROVE  Number(<<a, b>>) \in uint16_t
BY DEF Number, Byte, uint16_t

LEMMA AnswersType ==
    /\ Answers # {}
    /\ Garbage \subseteq Byte
    /\ \A rr \in Answers : rr.ttl \in Nat /\ rr.ip4 \in Bytes(4)
<1>1. /\ Answers # {}
      /\ Answers \subseteq [ttl : Nat, ip4 : [1 .. 4 -> Byte]]
      /\ Garbage \subseteq Byte
  BY PacketAssumption
<1>2. \A rr \in [ttl : Nat, ip4 : [1 .. 4 -> Byte]] : rr.ttl \in Nat /\ rr.ip4 \in [1 .. 4 -> Byte]
  OBVIOUS
<1>3. ASSUME NEW s \in [1 .. 4 -> Byte] PROVE s \in Bytes(4)
  <2>1. s \in Seq(Byte) /\ Len(s) = 4
    <3>1. PICK n \in Nat : n = 4
      OBVIOUS
    <3>2. s \in [1 .. n -> Byte]
      BY <3>1
    <3>3. s \in Seq(Byte) /\ Len(s) = n
      BY <3>2
    <3> QED
      BY <3>1, <3>3
  <2> QED
    BY <2>1 DEF Bytes
<1> QED
  BY <1>1, <1>2, <1>3

LEMMA AnswerType ==
    ASSUME NEW rr \in Answers, q_type \in [type : uint16_t, rr_class : uint16_t]
    PROVE  Answer(rr) \in Bytes(16)
<1>1. rr.ttl \in Nat /\ rr.ip4 \in Bytes(4)
  BY AnswersType
<1>2. q_type.type \in Int /\ q_type.rr_class \in Int
  <2>1. q_type.type \in uint16_t /\ q_type.rr_class \in uint16_t
    OBVIOUS
  <2> QED
    BY <2>1, Uint16Type
<1>3. PICK a \in Bytes(2) : a = Net(49164)
  BY HostType
<1>4. PICK b \in Bytes(2) : b = Net(q_type.type)
  BY <1>2, HostType
<1>5. PICK c \in Bytes(2) : c = Net(q_type.rr_class)
  BY <1>2, HostType
<1>6. PICK d \in Bytes(4) : d = Net32(rr.ttl)
  BY <1>1, Net32Type
<1>7. PICK e \in Bytes(2) : e = Net(4)
  BY HostType
<1>8. PICK f \in Bytes(4) : f = rr.ip4
  BY <1>1
<1>9. Answer(rr) = a \o b \o c \o d \o e \o f
  BY <1>3, <1>4, <1>5, <1>6, <1>7, <1>8, SMT DEF Answer
<1>10. a \o b \in Bytes(4)
  <2>1. a \o b \in Bytes(2 + 2)
    BY <1>3, <1>4, BytesInARow
  <2> QED
    BY <2>1
<1>11. a \o b \o c \in Bytes(6)
  <2>1. a \o b \o c \in Bytes(4 + 2)
    BY <1>5, <1>10, BytesInARow
  <2> QED
    BY <2>1
<1>12. a \o b \o c \o d \in Bytes(10)
  <2>1. a \o b \o c \o d \in Bytes(6 + 4)
    BY <1>6, <1>11, BytesInARow
  <2> QED
    BY <2>1
<1>13. a \o b \o c \o d \o e \in Bytes(12)
  <2>1. a \o b \o c \o d \o e \in Bytes(10 + 2)
    BY <1>7, <1>12, BytesInARow
  <2> QED
    BY <2>1
<1>14. a \o b \o c \o d \o e \o f \in Bytes(16)
  <2>1. a \o b \o c \o d \o e \o f \in Bytes(12 + 4)
    BY <1>8, <1>13, BytesInARow
  <2> QED
    BY <2>1
<1> QED
  BY <1>9, <1>14, Zenon

\* What one state after another keeps of the frame and of the room behind it: until
\* the answer is written the lengths are those of the frame; the loop over the labels
\* leaves the frame by one label at the most; behind the question there is room for
\* an answer.
Parsing == pc \in {"parse_pkt", "parse_dns", "get_query_domain"}
Asked == pc \in {"query_zone", "cons_dns"}
Replying == pc \in {"update_udp_hdr", "update_ip_hdr", "update_eth_hdr", "sent"}

RoomInv ==
    /\ TypeOK
    /\ query \in Frames
    /\ Parsing => data_len = query.data_len
    /\ pc \in {"parse_pkt", "parse_dns"} => scan_len = 0
    /\ pc = "parse_dns" => cur_pos = dns_hdr /\ cur_pos < data_len
    /\ pc = "get_query_domain" =>
          /\ cur_pos = dns_hdr + DNS_HDR_LEN
          /\ cur_pos + DNS_QUERY_LEN <= data_len
          /\ scan_len <= (data_len - cur_pos) + LABEL_LEN_MAX
    /\ Asked => /\ dns_hdr + 17 <= cur_pos /\ cur_pos <= Size - 19
                /\ cur_pos <= dns_hdr + DOMAIN_LEN_MAX + 16
    /\ Replying => dns_hdr + 33 <= cur_pos /\ cur_pos <= Size - 3 /\ data_len = cur_pos

LEMMA FrameType ==
    ASSUME query \in Frames
    PROVE  /\ query.data \in Buffer
           /\ query.data_len \in Nat
           /\ query.data_len <= Size - LABEL_LEN_MAX - 24
BY PacketAssumption DEF Buffer

LEMMA SizeType ==
    /\ Size \in Nat /\ Size >= 82 /\ Size < 65536
    /\ LABEL_LEN_MAX \in Nat /\ LABEL_LEN_MAX >= 1 /\ LABEL_LEN_MAX <= 127
    /\ DOMAIN_LEN_MAX \in Nat /\ DOMAIN_LEN_MAX >= LABEL_LEN_MAX + 2
    /\ CHAR_MAX \in Nat /\ CHAR_MAX >= LABEL_LEN_MAX
    /\ COPY_LEN \in Nat /\ COPY_LEN >= 4
BY PacketAssumption DEF ETH_HDR_LEN, UDP_HDR_LEN

LEMMA RoomInit == Init => RoomInv
<1>1. SUFFICES ASSUME Init PROVE RoomInv
  OBVIOUS
<1>2. /\ query.data \in Buffer /\ query.data_len \in Nat
      /\ query.data_len <= Size - LABEL_LEN_MAX - 24
  BY <1>1, FrameType DEF Init
<1>3. data_len \in 0 .. Size
  BY <1>1, <1>2, SizeType DEF Init
<1>4. udp_hdr \in {ETH_HDR_LEN + 4 * k : k \in 0 .. 15}
  <2>1. ETH_HDR_LEN = ETH_HDR_LEN + 4 * 0
    BY DEF ETH_HDR_LEN
  <2> QED
    BY <1>1, <2>1 DEF Init
<1>5. domain \in [0 .. DOMAIN_LEN_MAX - 1 -> Byte]
  <2>1. PICK b \in Garbage : domain = [k \in 0 .. DOMAIN_LEN_MAX - 1 |-> b]
    BY <1>1 DEF Init
  <2>2. b \in Byte
    BY <2>1, PacketAssumption
  <2> QED
    BY <2>1, <2>2
<1>6. rr_res \in Answers
  <2>1. Answers # {}
    BY PacketAssumption
  <2> QED
    BY <1>1, <2>1 DEF Init
<1>7. q_type \in [type : uint16_t, rr_class : uint16_t]
  BY <1>1 DEF Init, uint16_t
<1>8. cur_pos \in 0 .. Size /\ scan_len \in 0 .. DOMAIN_LEN_MAX - 1 /\ zero \in Byte
  BY <1>1, SizeType DEF Init, Byte
<1>9. TypeOK
  <2>1. InReach
    BY <1>1, SizeType DEF Init, InReach, dns_hdr, ETH_HDR_LEN, UDP_HDR_LEN, DNS_HDR_LEN, DNS_QUERY_LEN
  <2> QED
    BY <1>1, <1>2, <1>3, <1>4, <1>5, <1>6, <1>7, <1>8, <2>1 DEF Init, TypeOK, PC, Buffer
<1> QED
  BY <1>1, <1>9 DEF Init, RoomInv, Parsing, Asked, Replying

\* What the type invariant says of the numbers
LEMMA Numbers ==
    ASSUME RoomInv
    PROVE  /\ data \in Buffer
           /\ data_len \in Nat /\ data_len <= Size
           /\ udp_hdr \in Nat /\ udp_hdr >= 14 /\ udp_hdr <= 74
           /\ cur_pos \in Nat /\ cur_pos <= Size
           /\ scan_len \in Nat /\ scan_len < DOMAIN_LEN_MAX
           /\ dns_hdr \in Nat /\ dns_hdr = udp_hdr + 8
<1>1. /\ data \in Buffer /\ data_len \in 0 .. Size /\ cur_pos \in 0 .. Size
      /\ scan_len \in 0 .. DOMAIN_LEN_MAX - 1
  BY DEF RoomInv, TypeOK, Buffer
<1>2. PICK k \in 0 .. 15 : udp_hdr = ETH_HDR_LEN + 4 * k
  BY DEF RoomInv, TypeOK
<1>3. udp_hdr \in Nat /\ udp_hdr >= 14 /\ udp_hdr <= 74
  BY <1>2 DEF ETH_HDR_LEN
<1> QED
  BY <1>1, <1>3, SizeType DEF dns_hdr, UDP_HDR_LEN

LEMMA Farther ==
    ASSUME NEW c \in Int, NEW u \in Int, NEW d \in Int
    PROVE  c <= (u + 8) + d + 16 => c <= (u + 8) + 12 + d + 4 + 16
OBVIOUS

LEMMA Furthest ==
    ASSUME NEW c \in Int, NEW u \in Int, NEW d \in Int, NEW n \in Int, NEW m \in Int,
           c <= (u + 8) + d + 32
    PROVE  /\ c <= (u + 8) + 12 + d + 4 + 16
           /\ m < c + n - 4 => m < (u + 8) + 12 + d + 4 + 16 + n - 4
OBVIOUS

\* A place that is no further from a header, while nothing is copied
LEMMA StaysInReach ==
    ASSUME pc' # "overrun", udp_hdr' \in Int, cur_pos' \in Int,
           cur_pos' <= (udp_hdr' + 8) + DOMAIN_LEN_MAX + 16
    PROVE  InReach'
<1>1. PICK c \in Int, u \in Int, d \in Nat : c = cur_pos' /\ u = udp_hdr' /\ d = DOMAIN_LEN_MAX
  BY SizeType
<1>2. c <= (u + 8) + 12 + d + 4 + 16
  <2>1. c <= (u + 8) + d + 16
    BY <1>1, Zenon
  <2> QED
    BY <2>1, Farther
<1>3. dns_hdr' = u + 8
  BY <1>1 DEF dns_hdr, UDP_HDR_LEN
<1>4. cur_pos' <= dns_hdr' + 12 + DOMAIN_LEN_MAX + 4 + 16
  BY <1>1, <1>2, <1>3
<1> QED
  BY <1>4, Zenon DEF InReach, DNS_HDR_LEN, DNS_QUERY_LEN

\* Where neither moves
LEMMA SameReach ==
    ASSUME RoomInv, pc' # "overrun", UNCHANGED <<udp_hdr, cur_pos>>
    PROVE  InReach'
<1>1. InReach /\ dns_hdr' = dns_hdr
  BY DEF RoomInv, TypeOK, dns_hdr
<1> QED
  BY <1>1 DEF InReach

LEMMA ParsePktRoom == RoomInv /\ parse_pkt => RoomInv'
<1>1. SUFFICES ASSUME RoomInv, parse_pkt PROVE RoomInv'
  OBVIOUS
<1> USE <1>1
<1>2. /\ pc = "parse_pkt"
      /\ UNCHANGED <<data, data_len, scan_len, domain, q_type, rr_res, zero, query>>
      /\ pc' \in {"parse_dns", "dropped"}
  BY DEF parse_pkt, asked
<1>3. \/ pc' = "dropped" /\ UNCHANGED <<udp_hdr, cur_pos>>
      \/ /\ udp_hdr' = ip_hdr + ihl(data) * 4
         /\ cur_pos' = udp_hdr' + UDP_HDR_LEN
         /\ pc' = "parse_dns" => data_len > cur_pos'
  BY DEF parse_pkt
<1>4. PICK k \in 0 .. 15 : k = ihl(data)
  <2>1. data[ip_hdr] \in Byte
    <3>1. 14 \in 0 .. Size - 1
      BY SizeType
    <3> QED
      BY <3>1, Numbers DEF ip_hdr, ETH_HDR_LEN, Buffer
  <2> QED
    BY <2>1 DEF ihl, Byte
<1>5. udp_hdr' \in {ETH_HDR_LEN + 4 * j : j \in 0 .. 15}
  <2>1. udp_hdr \in {ETH_HDR_LEN + 4 * j : j \in 0 .. 15}
    BY DEF RoomInv, TypeOK
  <2>2. ip_hdr + ihl(data) * 4 = ETH_HDR_LEN + 4 * k
    BY <1>4 DEF ip_hdr, ETH_HDR_LEN
  <2>3. k \in 0 .. 15
    BY <1>4
  <2>4. CASE pc' = "dropped" /\ UNCHANGED <<udp_hdr, cur_pos>>
    BY <2>1, <2>4
  <2>5. CASE udp_hdr' = ip_hdr + ihl(data) * 4
    BY <2>2, <2>3, <2>5
  <2> QED
    BY <1>3, <2>4, <2>5
<1>6. cur_pos' \in 0 .. Size
  <2>1. cur_pos \in 0 .. Size
    BY DEF RoomInv, TypeOK
  <2>2. ip_hdr + ihl(data) * 4 + UDP_HDR_LEN \in 0 .. Size
    BY <1>4, SizeType DEF ip_hdr, ETH_HDR_LEN, UDP_HDR_LEN
  <2> QED
    BY <1>3, <2>1, <2>2
<1>7. pc' = "parse_dns" => cur_pos' = dns_hdr' /\ cur_pos' < data_len'
  <2>1. cur_pos' \in Int /\ data_len \in Int
    BY <1>6, Numbers
  <2> QED
    BY <1>2, <1>3, <2>1 DEF dns_hdr
<1>8. TypeOK'
  <2>1. InReach'
    <3>1. CASE UNCHANGED <<udp_hdr, cur_pos>>
      BY <1>2, <3>1, SameReach
    <3>2. CASE udp_hdr' = ip_hdr + ihl(data) * 4 /\ cur_pos' = udp_hdr' + UDP_HDR_LEN
      <4>1. udp_hdr' \in Int /\ cur_pos' = udp_hdr' + 8
        BY <1>4, <3>2 DEF ip_hdr, ETH_HDR_LEN, UDP_HDR_LEN
      <4>2. PICK c \in Int, u \in Int, d \in Nat : c = cur_pos' /\ u = udp_hdr' /\ d = DOMAIN_LEN_MAX
        <5>1. cur_pos' \in Int
          BY <1>6
        <5>2. DOMAIN_LEN_MAX \in Nat
          BY SizeType
        <5> QED
          BY <4>1, <5>1, <5>2, Zenon
      <4>3. c = u + 8
        BY <4>1, <4>2, Zenon
      <4>4. c <= (u + 8) + d + 16
        BY <4>3
      <4> QED
        BY <1>2, <4>2, <4>4, Zenon, StaysInReach
    <3> QED
      BY <1>3, <3>1, <3>2
  <2> QED
    BY <1>2, <1>5, <1>6, <1>7, <2>1 DEF RoomInv, TypeOK, PC
<1>9. data_len' = query.data_len' /\ scan_len' = 0
  BY <1>2 DEF RoomInv, Parsing
<1> QED
  BY <1>2, <1>7, <1>8, <1>9 DEF RoomInv, Parsing, Asked, Replying

LEMMA ParseDnsRoom == RoomInv /\ parse_dns => RoomInv'
<1>1. SUFFICES ASSUME RoomInv, parse_dns PROVE RoomInv'
  OBVIOUS
<1> USE <1>1
<1>2. /\ pc = "parse_dns"
      /\ UNCHANGED <<data, data_len, udp_hdr, scan_len, domain, q_type, rr_res, zero, query>>
      /\ pc' \in {"get_query_domain", "dropped"}
  BY DEF parse_dns, asked
<1>3. \/ pc' = "dropped" /\ UNCHANGED cur_pos
      \/ cur_pos' = dns_hdr + DNS_HDR_LEN /\ data_len >= dns_hdr + DNS_HDR_LEN + DNS_QUERY_LEN
  BY DEF parse_dns, HeaderPasses
<1>4. /\ cur_pos' \in 0 .. Size
      /\ pc' = "get_query_domain" => /\ cur_pos' = dns_hdr + DNS_HDR_LEN
                                     /\ cur_pos' + DNS_QUERY_LEN <= data_len
  BY <1>2, <1>3, Numbers, SizeType DEF DNS_HDR_LEN, DNS_QUERY_LEN
<1>5. dns_hdr' = dns_hdr
  BY <1>2 DEF dns_hdr
<1>6. TypeOK'
  <2>1. InReach'
    <3>1. CASE UNCHANGED cur_pos
      BY <1>2, <3>1, SameReach
    <3>2. CASE cur_pos' = dns_hdr + DNS_HDR_LEN
      <4>1. cur_pos' = (udp_hdr' + 8) + 12 /\ udp_hdr' \in Int /\ cur_pos' \in Int
        BY <1>2, <3>2, Numbers DEF DNS_HDR_LEN
      <4> QED
        BY <1>2, <4>1, SizeType, StaysInReach
    <3> QED
      BY <1>3, <3>1, <3>2
  <2> QED
    BY <1>2, <1>4, <2>1 DEF RoomInv, TypeOK, PC
<1>7. data_len' = query.data_len' /\ scan_len' = 0
  BY <1>2 DEF RoomInv, Parsing
<1>8. pc' = "get_query_domain" => scan_len' <= (data_len' - cur_pos') + LABEL_LEN_MAX
  BY <1>2, <1>4, <1>7, Numbers, SizeType DEF DNS_QUERY_LEN
<1> QED
  BY <1>2, <1>4, <1>5, <1>6, <1>7, <1>8 DEF RoomInv, Parsing, Asked, Replying

\* Four bytes behind a place are two numbers.
LEMMA ReadTypeType ==
    ASSUME NEW behind \in Nat, behind + 3 < Size, data \in Buffer, Size \in Nat, read_type(behind)
    PROVE  q_type' \in [type : uint16_t, rr_class : uint16_t]
<1>1. ASSUME NEW k \in 0 .. 3 PROVE data[behind + k] \in Byte
  <2>1. behind + k \in 0 .. Size - 1
    OBVIOUS
  <2> QED
    BY <2>1 DEF Buffer
<1>2. data[behind] \in Byte /\ data[behind + 1] \in Byte /\ data[behind + 2] \in Byte /\ data[behind + 3] \in Byte
  <2>1. behind + 0 = behind
    OBVIOUS
  <2> QED
    BY <1>1, <2>1
<1>3. /\ Number(<<data[behind], data[behind + 1]>>) \in uint16_t
      /\ Number(<<data[behind + 2], data[behind + 3]>>) \in uint16_t
  BY <1>2, NumberType
<1> QED
  BY <1>3, Zenon DEF read_type

\* The label that is copied lies in the buffer.
LEMMA LabelType ==
    ASSUME NEW at \in Nat, NEW n \in Nat, at + n < Size, data \in Buffer, Size \in Nat
    PROVE  /\ [k \in 1 .. n |-> data[at + k]] \in Seq(Byte)
           /\ Append([k \in 1 .. n |-> data[at + k]], DOT) \in Seq(Byte)
<1>1. ASSUME NEW k \in 1 .. n PROVE data[at + k] \in Byte
  <2>1. at + k \in 0 .. Size - 1
    OBVIOUS
  <2> QED
    BY <2>1 DEF Buffer
<1>2. PICK s : s = [k \in 1 .. n |-> data[at + k]]
  OBVIOUS
<1>3. s \in Seq(Byte)
  BY <1>1, <1>2
<1>4. DOT \in Byte
  BY DEF DOT, Byte
<1>5. Append(s, DOT) \in Seq(Byte)
  BY <1>3, <1>4
<1> QED
  BY <1>2, <1>3, <1>5

\* The four ways of a turn of the loop
Leave(at) ==
    /\ ~(scan_len < data_len - cur_pos)
    /\ read_type(at + 1)
    /\ UNCHANGED <<scan_len, domain>>
End(at) ==
    /\ scan_len < data_len - cur_pos /\ data[at] = 0
    /\ domain' = Put(domain, scan_len, IF scan_len = 0 THEN <<DOT, 0>> ELSE << 0 >>)
    /\ read_type(at + 1)
    /\ UNCHANGED scan_len
Refuse(at) ==
    /\ scan_len < data_len - cur_pos
    /\ data[at] > CHAR_MAX \/ (data[at] \in 1 .. CHAR_MAX /\ TooLong(scan_len, data[at]))
    /\ pc' \in {"dropped", "dead"}
    /\ UNCHANGED <<cur_pos, scan_len, domain, q_type>>
Copy(at) ==
    /\ scan_len < data_len - cur_pos /\ data[at] \in 1 .. CHAR_MAX /\ ~TooLong(scan_len, data[at])
    /\ domain' = Put(domain, scan_len, Append([k \in 1 .. data[at] |-> data[at + k]], DOT))
    /\ scan_len' = scan_len + data[at] + 1
    /\ UNCHANGED <<pc, cur_pos, q_type>>

LEMMA TurnIs ==
    ASSUME get_query_domain
    PROVE  /\ pc = "get_query_domain"
           /\ UNCHANGED <<data, data_len, udp_hdr, rr_res, zero, query>>
           /\ \E at : /\ at = cur_pos + scan_len
                      /\ Leave(at) \/ End(at) \/ Refuse(at) \/ Copy(at)
<1>1. PICK at : at = cur_pos + scan_len
  OBVIOUS
<1>2. Leave(at) \/ End(at) \/ Refuse(at) \/ Copy(at)
  BY <1>1 DEF get_query_domain, Leave, End, Refuse, Copy
<1>3. pc = "get_query_domain" /\ UNCHANGED <<data, data_len, udp_hdr, rr_res, zero, query>>
  BY DEF get_query_domain
<1> QED
  BY <1>1, <1>2, <1>3, Zenon

LEMMA TurnRoom == RoomInv /\ get_query_domain => RoomInv'
<1>1. SUFFICES ASSUME RoomInv, get_query_domain PROVE RoomInv'
  OBVIOUS
<1> USE <1>1
<1>2. /\ pc = "get_query_domain"
      /\ UNCHANGED <<data, data_len, udp_hdr, rr_res, zero, query>>
  BY TurnIs
<1>3. PICK at : /\ at = cur_pos + scan_len
                /\ Leave(at) \/ End(at) \/ Refuse(at) \/ Copy(at)
  BY TurnIs
<1>4. /\ query \in Frames
      /\ data_len = query.data_len
      /\ cur_pos = dns_hdr + DNS_HDR_LEN
      /\ cur_pos + DNS_QUERY_LEN <= data_len
      /\ scan_len <= (data_len - cur_pos) + LABEL_LEN_MAX
      /\ domain \in [0 .. DOMAIN_LEN_MAX - 1 -> Byte]
      /\ q_type \in [type : uint16_t, rr_class : uint16_t]
      /\ udp_hdr \in {ETH_HDR_LEN + 4 * k : k \in 0 .. 15}
      /\ rr_res \in Answers
      /\ zero \in Byte
      /\ data_len \in 0 .. Size
      /\ data \in [0 .. Size - 1 -> Byte]
      /\ query.data \in [0 .. Size - 1 -> Byte]
  BY <1>2 DEF RoomInv, TypeOK, Parsing
<1>5. /\ data_len <= Size - LABEL_LEN_MAX - 24
      /\ cur_pos <= dns_hdr + DOMAIN_LEN_MAX + 16
  <2>1. cur_pos = dns_hdr + 12
    BY <1>4 DEF DNS_HDR_LEN
  <2>2. cur_pos <= dns_hdr + DOMAIN_LEN_MAX + 16
    BY <2>1, Numbers, SizeType
  <2> QED
    BY <1>4, <2>2, FrameType
<1>6. /\ at \in Nat /\ at <= Size - 24 /\ at - LABEL_LEN_MAX <= data_len
      /\ at >= dns_hdr + 12 /\ dns_hdr' = dns_hdr
  <2>1. at = cur_pos + scan_len
    BY <1>3
  <2>2. cur_pos = dns_hdr + 12 /\ scan_len <= (data_len - cur_pos) + LABEL_LEN_MAX
    BY <1>4 DEF DNS_HDR_LEN
  <2>3. dns_hdr' = dns_hdr
    BY <1>2 DEF dns_hdr
  <2> QED
    BY <1>5, <2>1, <2>2, <2>3, Numbers, SizeType
<1>7. data[at] \in Byte /\ data[at] \in Nat
  <2>1. at \in 0 .. Size - 1
    BY <1>6, SizeType
  <2>2. data \in Buffer
    BY Numbers
  <2>3. data[at] \in Byte
    BY <2>1, <2>2 DEF Buffer
  <2> QED
    BY <2>3 DEF Byte
<1>8. ASSUME read_type(at + 1)
      PROVE  /\ pc' = "query_zone" /\ cur_pos' = at + 5
             /\ cur_pos' \in 0 .. Size
             /\ dns_hdr + 17 <= cur_pos' /\ cur_pos' <= Size - 19
             /\ cur_pos' <= dns_hdr + DOMAIN_LEN_MAX + 16
             /\ q_type' \in [type : uint16_t, rr_class : uint16_t]
  <2>1. pc' = "query_zone" /\ cur_pos' = at + 5
    BY <1>6, <1>8 DEF read_type, DNS_QUERY_LEN
  <2>2. /\ cur_pos' \in 0 .. Size
        /\ dns_hdr + 17 <= cur_pos' /\ cur_pos' <= Size - 19
        /\ cur_pos' <= dns_hdr + DOMAIN_LEN_MAX + 16
    <3>1. at = dns_hdr + 12 + scan_len
      BY <1>3, <1>4 DEF DNS_HDR_LEN
    <3> QED
      BY <1>6, <2>1, <3>1, SizeType, Numbers
  <2>3. at + 1 \in Nat /\ (at + 1) + 3 < Size
    BY <1>6, SizeType
  <2>4. q_type' \in [type : uint16_t, rr_class : uint16_t]
    BY <1>8, <2>3, ReadTypeType, SizeType, Numbers
  <2> QED
    BY <2>1, <2>2, <2>4
<1>9. ASSUME scan_len' \in 0 .. DOMAIN_LEN_MAX - 1,
             domain' \in [0 .. DOMAIN_LEN_MAX - 1 -> Byte],
             q_type' \in [type : uint16_t, rr_class : uint16_t],
             cur_pos' \in 0 .. Size,
             cur_pos' <= dns_hdr + DOMAIN_LEN_MAX + 16,
             pc' \in PC, pc' # "parse_dns", pc' # "overrun"
      PROVE  TypeOK'
  <2>1. cur_pos' \in Int /\ udp_hdr' \in Int /\ cur_pos' <= (udp_hdr' + 8) + DOMAIN_LEN_MAX + 16
    BY <1>2, <1>9, Numbers
  <2>2. InReach'
    BY <1>9, <2>1, StaysInReach
  <2> QED
    BY <1>2, <1>4, <1>9, <2>2 DEF TypeOK
<1>10. CASE Leave(at) \/ End(at)
  <2>1. read_type(at + 1) /\ UNCHANGED scan_len
    BY <1>10 DEF Leave, End
  <2>2. domain' \in [0 .. DOMAIN_LEN_MAX - 1 -> Byte]
    <3>1. PICK s \in Seq(Byte) : s = IF scan_len = 0 THEN <<DOT, 0>> ELSE << 0 >>
      <4>1. DOT \in Byte /\ 0 \in Byte
        BY DEF DOT, Byte
      <4>2. <<DOT, 0>> \in Seq(Byte) /\ << 0 >> \in Seq(Byte)
        BY <4>1
      <4> QED
        BY <4>2, Zenon
    <3>2. scan_len \in Int
      BY Numbers
    <3>3. Put(domain, scan_len, s) \in [0 .. DOMAIN_LEN_MAX - 1 -> Byte]
      BY <1>4, <3>1, <3>2, PutType
    <3> QED
      BY <1>4, <1>10, <3>1, <3>3 DEF Leave, End
  <2>3. scan_len' \in 0 .. DOMAIN_LEN_MAX - 1
    BY <2>1 DEF RoomInv, TypeOK
  <2>4. TypeOK'
    BY <1>8, <1>9, <2>1, <2>2, <2>3 DEF PC
  <2> QED
    BY <1>2, <1>4, <1>6, <1>8, <2>1, <2>4 DEF RoomInv, Parsing, Asked, Replying
<1>11. CASE Refuse(at)
  <2>1. pc' \in {"dropped", "dead"} /\ UNCHANGED <<cur_pos, scan_len, domain, q_type>>
    BY <1>11 DEF Refuse
  <2>2. cur_pos' <= dns_hdr + DOMAIN_LEN_MAX + 16
    BY <1>5, <2>1
  <2>3. TypeOK'
    BY <1>9, <2>1, <2>2 DEF RoomInv, TypeOK, PC
  <2> QED
    BY <1>2, <1>4, <2>1, <2>3 DEF RoomInv, Parsing, Asked, Replying
<1>12. CASE Copy(at)
  <2>1. /\ scan_len < data_len - cur_pos /\ ~TooLong(scan_len, data[at])
        /\ domain' = Put(domain, scan_len, Append([k \in 1 .. data[at] |-> data[at + k]], DOT))
        /\ scan_len' = scan_len + data[at] + 1
        /\ UNCHANGED <<pc, cur_pos, q_type>>
    BY <1>12 DEF Copy
  <2>2. data[at] <= LABEL_LEN_MAX /\ scan_len + data[at] + 1 < DOMAIN_LEN_MAX
    BY <1>7, <2>1, Numbers, SizeType DEF TooLong
  <2>3. scan_len' \in 0 .. DOMAIN_LEN_MAX - 1 /\ scan_len' <= (data_len - cur_pos) + LABEL_LEN_MAX
    BY <1>7, <2>1, <2>2, Numbers, SizeType
  <2>4. domain' \in [0 .. DOMAIN_LEN_MAX - 1 -> Byte]
    <3>1. PICK n \in Nat : n = data[at]
      BY <1>7
    <3>2. at + n < Size
      <4>1. at = cur_pos + scan_len
        BY <1>3
      <4>2. scan_len < data_len - cur_pos
        BY <2>1
      <4>3. n <= LABEL_LEN_MAX
        BY <2>2, <3>1
      <4> QED
        BY <1>5, <4>1, <4>2, <4>3, Numbers, SizeType
    <3>3. Append([k \in 1 .. n |-> data[at + k]], DOT) \in Seq(Byte)
      <4>1. data \in Buffer /\ Size \in Nat
        BY Numbers, SizeType
      <4> QED
        BY <1>6, <3>2, <4>1, LabelType
    <3>4. scan_len \in Int
      BY Numbers
    <3> QED
      BY <1>4, <2>1, <3>1, <3>3, <3>4, PutType
  <2>5. TypeOK'
    <3>1. cur_pos' <= dns_hdr + DOMAIN_LEN_MAX + 16
      BY <1>5, <2>1
    <3> QED
      BY <1>2, <1>4, <1>9, <2>1, <2>3, <2>4, <3>1 DEF RoomInv, TypeOK, PC
  <2> QED
    BY <1>2, <1>4, <1>6, <2>1, <2>3, <2>5 DEF RoomInv, Parsing, Asked, Replying
<1> QED
  BY <1>3, <1>10, <1>11, <1>12

LEMMA QueryZoneRoom == RoomInv /\ query_zone => RoomInv'
<1>1. SUFFICES ASSUME RoomInv, query_zone PROVE RoomInv'
  OBVIOUS
<1>2. /\ pc = "query_zone" /\ pc' \in {"cons_dns", "not_found"} /\ rr_res' \in Answers
      /\ UNCHANGED <<data, data_len, udp_hdr, cur_pos, scan_len, domain, q_type, zero, query>>
  BY <1>1 DEF query_zone, RoomInv, TypeOK
<1>3. TypeOK'
  <2>1. InReach'
    BY <1>1, <1>2, SameReach
  <2> QED
    BY <1>1, <1>2, <2>1 DEF RoomInv, TypeOK, PC
<1>4. dns_hdr' = dns_hdr
  BY <1>2 DEF dns_hdr
<1> QED
  BY <1>1, <1>2, <1>3, <1>4 DEF RoomInv, Parsing, Asked, Replying

LEMMA Field ==
    /\ IsField(flags) /\ IsField(udp_len) /\ IsField(udp_check) /\ IsField(sport) /\ IsField(dport)
    /\ IsField(tot_len) /\ IsField(ip_check) /\ IsField(saddr) /\ IsField(daddr)
    /\ IsField(dmac) /\ IsField(smac)
BY DEF IsField, flags, udp_len, udp_check, sport, dport, tot_len, ip_check, saddr, daddr, dmac, smac

\* What memcpy() overwrites behind the answer
Behind == cur_pos + 16 .. cur_pos + 11 + COPY_LEN

\* The question with the flags of an answer
Flagged == Set(data, dns_hdr, flags, Net(33024))

\* What memcpy() leaves, whatever it copies behind the answer
LEMMA AnswerWritten ==
    ASSUME RoomInv, cons_dns
    PROVE  \E b \in Garbage, buf \in Buffer, answer \in Bytes(16) :
              /\ buf = Flagged
              /\ answer = Answer(rr_res)
              /\ data' = [k \in 0 .. Size - 1 |->
                             IF k \in Behind THEN b
                             ELSE Put(buf, cur_pos, answer)[k]]
              /\ pc' # "update_udp_hdr" =>
                    pc' = "overrun" /\ Size < cur_pos + 12 + COPY_LEN
<1>1. PICK buf : buf = Flagged
  OBVIOUS
<1>2. Net(33024) \in Seq(Byte)
  BY HostType DEF Bytes
<1>3. buf \in Buffer
  BY <1>1, <1>2, Numbers, Field, SetType DEF Flagged
<1>4. PICK answer \in Bytes(16) : answer = Answer(rr_res)
  <2>1. rr_res \in Answers /\ q_type \in [type : uint16_t, rr_class : uint16_t]
    BY DEF RoomInv, TypeOK
  <2> QED
    BY <2>1, AnswerType
<1>5. add_dns_answer(buf)
  BY <1>1 DEF cons_dns, Flagged
<1>6. PICK end : end = cur_pos + Len(Answer(rr_res))
  OBVIOUS
<1>7. end .. end + COPY_LEN - 5 = Behind /\ end + COPY_LEN - 4 = cur_pos + 12 + COPY_LEN
  <2>1. Len(Answer(rr_res)) = 16
    BY <1>4, Zenon DEF Bytes
  <2>2. PICK c \in Int : c = cur_pos /\ end = c + 16
    BY <1>6, <2>1, Numbers
  <2>3. PICK copied \in Int : copied = COPY_LEN
    BY SizeType
  <2>4. end + copied - 5 = c + 11 + copied /\ end + copied - 4 = c + 12 + copied
    BY <2>2, Z3
  <2> QED
    BY <2>2, <2>3, <2>4, Zenon DEF Behind
<1>8. DOMAIN buf = 0 .. Size - 1
  BY <1>3 DEF Buffer
<1>9. PICK b \in Garbage :
          data' = [k \in DOMAIN buf |-> IF k \in end .. end + COPY_LEN - 5 THEN b
                                        ELSE Put(buf, cur_pos, Answer(rr_res))[k]]
  BY <1>5, <1>6 DEF add_dns_answer
<1>10. data' = [k \in 0 .. Size - 1 |->
                   IF k \in Behind THEN b
                   ELSE Put(buf, cur_pos, answer)[k]]
  BY <1>4, <1>7, <1>8, <1>9
<1>11. b \in Garbage
  BY <1>9
<1>12. pc' # "update_udp_hdr" => pc' = "overrun" /\ Size < cur_pos + 12 + COPY_LEN
  <2>1. \/ pc' = "update_udp_hdr"
        \/ end + COPY_LEN - 4 > Size /\ pc' = "overrun"
    BY <1>5, <1>6 DEF add_dns_answer
  <2> QED
    BY <1>7, <2>1, Numbers, SizeType
<1> QED
  BY <1>1, <1>3, <1>4, <1>10, <1>11, <1>12, Zenon

LEMMA ConsDnsRoom == RoomInv /\ cons_dns => RoomInv'
<1>1. SUFFICES ASSUME RoomInv, cons_dns PROVE RoomInv'
  OBVIOUS
<1> USE <1>1
<1>2. /\ pc = "cons_dns"
      /\ cur_pos' = cur_pos + Len(Answer(rr_res)) /\ data_len' = cur_pos'
      /\ UNCHANGED <<udp_hdr, scan_len, domain, q_type, rr_res, zero, query>>
  BY DEF cons_dns, asked
<1>3. PICK b \in Garbage, buf \in Buffer, answer \in Bytes(16) :
          /\ answer = Answer(rr_res)
          /\ data' = [k \in 0 .. Size - 1 |->
                         IF k \in Behind THEN b
                         ELSE Put(buf, cur_pos, answer)[k]]
          /\ pc' # "update_udp_hdr" => pc' = "overrun" /\ Size < cur_pos + 12 + COPY_LEN
  BY AnswerWritten
<1>4. b \in Byte /\ Put(buf, cur_pos, answer) \in Buffer
  <2>1. cur_pos \in Int /\ answer \in Seq(Byte)
    BY <1>3, Numbers DEF Bytes
  <2> QED
    BY <1>3, <2>1, PutType, AnswersType DEF Buffer
<1>5. data' \in [0 .. Size - 1 -> Byte]
  BY <1>3, <1>4 DEF Buffer
<1>6. /\ cur_pos' = cur_pos + 16 /\ dns_hdr + 17 <= cur_pos /\ cur_pos <= Size - 19
      /\ cur_pos <= dns_hdr + DOMAIN_LEN_MAX + 16
  BY <1>2, <1>3 DEF Bytes, RoomInv, Asked
<1>7. /\ cur_pos' \in 0 .. Size
      /\ dns_hdr + 33 <= cur_pos' /\ cur_pos' <= Size - 3
  BY <1>6, Numbers, SizeType
<1>8. dns_hdr' = dns_hdr
  BY <1>2 DEF dns_hdr
<1>9. pc' \in {"update_udp_hdr", "overrun"}
  BY <1>3
<1>10. InReach'
  <2>1. /\ cur_pos' <= (udp_hdr' + 8) + DOMAIN_LEN_MAX + 32
        /\ udp_hdr' \in Int /\ cur_pos' \in Int
    BY <1>2, <1>6, Numbers, SizeType
  <2>2. pc' = "overrun" => Size < cur_pos' + COPY_LEN - 4
    BY <1>3, <1>6, Numbers, SizeType
  <2>3. PICK c \in Int, u \in Int, d \in Nat, n \in Nat, m \in Nat :
            c = cur_pos' /\ u = udp_hdr' /\ d = DOMAIN_LEN_MAX /\ n = COPY_LEN /\ m = Size
    BY <2>1, SizeType
  <2>4. c <= (u + 8) + d + 32 /\ (pc' = "overrun" => m < c + n - 4)
    BY <2>1, <2>2, <2>3, Zenon
  <2>5. c <= (u + 8) + 12 + d + 4 + 16 /\ (pc' = "overrun" => m < (u + 8) + 12 + d + 4 + 16 + n - 4)
    BY <2>4, Furthest
  <2>6. dns_hdr' = u + 8
    BY <2>3 DEF dns_hdr, UDP_HDR_LEN
  <2> QED
    BY <2>3, <2>5, <2>6, Zenon DEF InReach, DNS_HDR_LEN, DNS_QUERY_LEN
<1>11. TypeOK'
  BY <1>2, <1>5, <1>7, <1>9, <1>10 DEF RoomInv, TypeOK, PC
<1> QED
  BY <1>2, <1>7, <1>8, <1>9, <1>11 DEF RoomInv, Parsing, Asked, Replying

\* Sums of the two headers
LEMMA TwoBytes ==
    ASSUME NEW buf, NEW at \in Nat, Holds(buf, at, 2)
    PROVE  Words(buf, at, 1) = ByteSum(buf, at, 2)
<1>1. PICK n \in Nat : n = 1
  OBVIOUS
<1>2. PICK m \in Nat : m = 2
  OBVIOUS
<1>3. m = 2 * n /\ 2 * n = 2
  BY <1>1, <1>2
<1>4. Holds(buf, at, 2 * n)
  BY <1>3
<1>5. Words(buf, at, n) = ByteSum(buf, at, 2 * n)
  BY <1>4, WordsAreBytes
<1>6. Words(buf, at, n) = ByteSum(buf, at, m)
  BY <1>3, <1>5
<1> QED
  BY <1>1, <1>2, <1>6

LEMMA EightBytes ==
    ASSUME NEW buf, NEW at \in Nat, Holds(buf, at, 8)
    PROVE  Words(buf, at, 4) = ByteSum(buf, at, 8)
<1>1. PICK n \in Nat : n = 4
  OBVIOUS
<1>2. PICK m \in Nat : m = 8
  OBVIOUS
<1>3. m = 2 * n /\ 2 * n = 8
  BY <1>1, <1>2
<1>4. Holds(buf, at, 2 * n)
  BY <1>3
<1>5. Words(buf, at, n) = ByteSum(buf, at, 2 * n)
  BY <1>4, WordsAreBytes
<1>6. Words(buf, at, n) = ByteSum(buf, at, m)
  BY <1>3, <1>5
<1> QED
  BY <1>1, <1>2, <1>6

LEMMA UdpTotalIs ==
    ASSUME NEW buf \in Buffer, NEW buf2 \in Buffer, NEW udp \in Nat, NEW len \in Nat,
           NEW unset \in Byte, udp >= 14, udp <= 74, len >= 8, udp + len <= Size
    PROVE  /\ PseudoSum(buf, udp, unset) + UdpSum(buf2, udp, len)
              = ByteSum(buf, 26, 8) + unset + 256 * buf[23] + ByteSum(buf, udp + 4, 2)
                    + ByteSum(buf2, udp, len)
           /\ PseudoSum(buf, udp, unset) + UdpSum(buf2, udp, len) \in Sum32
           /\ ByteSum(buf, 26, 8) \in Nat /\ ByteSum(buf, udp + 4, 2) \in Nat
           /\ ByteSum(buf2, udp, len) \in Nat /\ buf[23] \in Nat
<1>1. Size \in Nat /\ Size < 65536 /\ Size >= 82
  BY SizeType
<1>2. /\ Holds(buf, 26, 8) /\ Holds(buf, udp + 4, 2) /\ Holds(buf2, udp, len)
      /\ Holds(buf2, udp, 8) /\ Holds(buf2, udp + 8, len - 8)
  <2>1. Holds(buf, 26, 8) /\ Holds(buf, udp + 4, 2)
    BY <1>1 DEF Holds, Buffer
  <2>2. Holds(buf2, udp, len) /\ Holds(buf2, udp, 8)
    BY <1>1 DEF Holds, Buffer
  <2>3. Holds(buf2, udp + 8, len - 8)
    BY <1>1 DEF Holds, Buffer
  <2> QED
    BY <2>1, <2>2, <2>3
<1>3. PICK a \in Nat : a = ByteSum(buf, 26, 8) /\ a <= 65280 * 8
  BY <1>2, ByteSumBound
<1>4. PICK b \in Nat : b = ByteSum(buf, udp + 4, 2) /\ b <= 65280 * 2
  <2>1. udp + 4 \in Nat
    OBVIOUS
  <2> QED
    BY <1>2, <2>1, ByteSumBound
<1>5. PICK c \in Nat : c = ByteSum(buf2, udp, len) /\ c <= 65280 * len
  BY <1>2, ByteSumBound
<1>6. Words(buf, 26, 4) = a
  BY <1>2, <1>3, EightBytes
<1>7. Words(buf, udp + 4, 1) = b
  <2>1. PICK at \in Nat : at = udp + 4
    OBVIOUS
  <2>2. Words(buf, at, 1) = ByteSum(buf, at, 2)
    BY <1>2, <2>1, TwoBytes
  <2> QED
    BY <1>4, <2>1, <2>2
<1>8. Words(buf2, udp, 4) + SumOf(buf2, udp + 8, len - 8) = c
  <2>1. PICK N \in Nat : N = 8
    OBVIOUS
  <2>2. PICK at \in Nat : at = udp + 8
    OBVIOUS
  <2>3. PICK M \in Nat : M = len - 8
    OBVIOUS
  <2>4. Cut(udp, len, N, at, M)
    BY <2>1, <2>2, <2>3 DEF Cut
  <2>5. ByteSum(buf2, udp, len) = ByteSum(buf2, udp, N) + ByteSum(buf2, at, M)
    BY <1>2, <2>4, ByteSumSplit
  <2>6. SumOf(buf2, at, M) = ByteSum(buf2, at, M)
    BY <1>2, <2>2, <2>3, SumOfIs
  <2>7. Words(buf2, udp, 4) = ByteSum(buf2, udp, N)
    BY <1>2, <2>1, EightBytes
  <2>8. c = ByteSum(buf2, udp, len)
    BY <1>5
  <2>9. Words(buf2, udp, 4) + SumOf(buf2, at, M) = c
    BY <2>5, <2>6, <2>7, <2>8, Zenon
  <2> QED
    BY <2>2, <2>3, <2>9, Zenon
<1>9. PICK p \in Nat : p = buf[23] /\ p <= 255
  <2>1. 23 \in 0 .. Size - 1
    BY <1>1
  <2> QED
    BY <2>1 DEF Buffer, Byte
<1>10. PseudoSum(buf, udp, unset) = a + unset + 256 * p + b
  BY <1>6, <1>7, <1>9 DEF PseudoSum, saddr, protocol, udp_len, ip_hdr, ETH_HDR_LEN
<1>11. UdpSum(buf2, udp, len) = c
  BY <1>8, Zenon DEF UdpSum, UDP_HDR_LEN
<1>12. (a + unset + 256 * p + b) + c = a + unset + 256 * p + b + c
  OBVIOUS
<1>13. a + unset + 256 * p + b + c \in Sum32
  <2>1. len <= 65521
    BY <1>1
  <2>2. c <= 65280 * 65521
    BY <1>5, <2>1
  <2> QED
    BY <1>3, <1>4, <1>9, <2>2 DEF Sum32, Base, Byte
<1> QED
  BY <1>3, <1>4, <1>5, <1>9, <1>10, <1>11, <1>12, <1>13
-----------------------------------------------------------------------------
(* What the headers are after a step, byte by byte                           *)

\* A buffer that is another one but for two bytes in a row
Written(new, old, at, a, b) ==
    /\ new \in Buffer
    /\ new[at] = a /\ new[at + 1] = b
    /\ \A k \in 0 .. Size - 1 : k # at /\ k # at + 1 => new[k] = old[k]

\* Where a field of two bytes is
IsAt(at, hdr, f) == at \in Nat /\ at = hdr + f.at /\ at + 1 < Size

LEMMA SetTwo ==
    ASSUME NEW old \in Buffer, NEW hdr \in Nat, NEW f, NEW at, IsAt(at, hdr, f),
           NEW a \in Byte, NEW b \in Byte
    PROVE  Written(Set(old, hdr, f, <<a, b>>), old, at, a, b)
<1>1. PICK s \in Seq(Byte) : s = <<a, b>> /\ Len(s) = 2 /\ s[1] = a /\ s[2] = b
  <2>1. <<a, b>> \in Seq(Byte) /\ Len(<<a, b>>) = 2 /\ <<a, b>>[1] = a /\ <<a, b>>[2] = b
    OBVIOUS
  <2> QED
    BY <2>1, Zenon
<1>2. PICK new : new = Put(old, at, s)
  OBVIOUS
<1>3. at \in Int /\ at >= 0 /\ at + 1 < Size /\ Size \in Nat
  BY SizeType DEF IsAt
<1>4. new \in Buffer
  BY <1>1, <1>2, <1>3, PutType DEF Buffer
<1>5. ASSUME NEW k \in 0 .. Size - 1
      PROVE  new[k] = IF k \in at .. at + 1 THEN s[k - at + 1] ELSE old[k]
  <2>1. k \in DOMAIN old /\ at + Len(s) - 1 = at + 1
    BY <1>1, <1>3 DEF Buffer
  <2> QED
    BY <1>2, <2>1, Zenon DEF Put
<1>6. at \in 0 .. Size - 1 /\ at + 1 \in 0 .. Size - 1 /\ at - at + 1 = 1 /\ (at + 1) - at + 1 = 2
  BY <1>3
<1>7. at \in at .. at + 1 /\ at + 1 \in at .. at + 1
  BY <1>3
<1>8. new[at] = a
  BY <1>1, <1>5, <1>6, <1>7
<1>9. new[at + 1] = b
  BY <1>1, <1>5, <1>6, <1>7
<1>10. ASSUME NEW k \in 0 .. Size - 1, k # at, k # at + 1 PROVE new[k] = old[k]
  <2>1. k \notin at .. at + 1
    BY <1>3, <1>10
  <2> QED
    BY <1>5, <2>1
<1> QED
  BY <1>1, <1>2, <1>4, <1>8, <1>9, <1>10 DEF Written, Set, IsAt

LEMMA GetTwo ==
    ASSUME NEW buf \in Buffer, NEW hdr \in Nat, NEW f, f.len = 2, NEW at, IsAt(at, hdr, f)
    PROVE  /\ Get(buf, hdr, f) = <<buf[at], buf[at + 1]>>
           /\ buf[at] \in Byte /\ buf[at + 1] \in Byte
<1> USE DEF IsAt
<1>1. at \in 0 .. Size - 1 /\ at + 1 \in 0 .. Size - 1
  BY SizeType
<1>2. buf[at] \in Byte /\ buf[at + 1] \in Byte
  BY <1>1 DEF Buffer
<1>3. Get(buf, hdr, f) = [k \in 1 .. 2 |-> buf[at + k - 1]]
  BY DEF Get
<1>4. at + 1 - 1 = at /\ at + 2 - 1 = at + 1
  BY <1>1
<1>5. [k \in 1 .. 2 |-> buf[at + k - 1]] = <<buf[at + 1 - 1], buf[at + 2 - 1]>>
  OBVIOUS
<1> QED
  BY <1>2, <1>3, <1>4, <1>5

\* The two bytes of a length and of a checksum
LEMMA HostBytes ==
    ASSUME NEW w \in Int
    PROVE  /\ Host(w) = <<Host(w)[1], Host(w)[2]>>
           /\ Host(w)[1] = w % 256 /\ Host(w)[2] = (w \div 256) % 256
           /\ Host(w)[1] \in Byte /\ Host(w)[2] \in Byte
<1>1. Host(w)[1] = w % 256 /\ Host(w)[2] = (w \div 256) % 256
  BY DEF Host
<1> QED
  BY <1>1, ByteOf DEF Host

\* The UDP header with its length, and the ports at each other's place; the
\* source port is still in the field of the checksum.  Then the latter is cleared.
Turned(buf, udp, len) ==
    LET long == Set(buf, udp, udp_len, Host(len))
        saved == Set(long, udp, udp_check, Get(long, udp, sport))
        moved == Set(saved, udp, sport, Get(saved, udp, dport))
    IN  Set(moved, udp, dport, Get(moved, udp, udp_check))
Cleared(buf, udp, len) == Set(Turned(buf, udp, len), udp, udp_check, <<0, 0>>)

IsTurned(t, buf, udp, len) ==
    /\ t \in Buffer
    /\ t[udp] = buf[udp + 2] /\ t[udp + 1] = buf[udp + 3]
    /\ t[udp + 2] = buf[udp] /\ t[udp + 3] = buf[udp + 1]
    /\ t[udp + 4] = Host(len)[1] /\ t[udp + 5] = Host(len)[2]
    /\ \A k \in 0 .. Size - 1 : k \notin udp .. udp + 7 => t[k] = buf[k]

LEMMA TurnedIs ==
    ASSUME NEW buf \in Buffer, NEW udp \in Nat, NEW len \in Int, udp + 8 <= Size,
           NEW t, t = Turned(buf, udp, len)
    PROVE  IsTurned(t, buf, udp, len)
<1>1. PICK p2, p4, p6 : p2 = udp + 2 /\ p4 = udp + 4 /\ p6 = udp + 6
  OBVIOUS
<1>2. /\ sport.at = 0 /\ dport.at = 2 /\ udp_len.at = 4 /\ udp_check.at = 6
      /\ sport.len = 2 /\ dport.len = 2 /\ udp_check.len = 2
  BY DEF sport, dport, udp_len, udp_check
<1>3. Size \in Nat
  BY SizeType
<1>4. /\ IsAt(udp, udp, sport) /\ IsAt(p2, udp, dport)
      /\ IsAt(p4, udp, udp_len) /\ IsAt(p6, udp, udp_check)
  BY <1>1, <1>2, <1>3 DEF IsAt
<1>5. PICK long : long = Set(buf, udp, udp_len, Host(len))
  OBVIOUS
<1>6. PICK saved : saved = Set(long, udp, udp_check, Get(long, udp, sport))
  OBVIOUS
<1>7. PICK moved : moved = Set(saved, udp, sport, Get(saved, udp, dport))
  OBVIOUS
<1>8. t = Set(moved, udp, dport, Get(moved, udp, udp_check))
  BY <1>5, <1>6, <1>7, Zenon DEF Turned
<1>9. Written(long, buf, p4, Host(len)[1], Host(len)[2])
  <2>1. PICK a \in Byte, b \in Byte : a = Host(len)[1] /\ b = Host(len)[2] /\ Host(len) = <<a, b>>
    BY HostBytes
  <2>2. Written(Set(buf, udp, udp_len, <<a, b>>), buf, p4, a, b)
    BY <1>2, <1>4, SetTwo
  <2> QED
    BY <1>5, <2>1, <2>2
<1>10. Written(saved, long, p6, long[udp], long[udp + 1])
  <2>1. long \in Buffer
    BY <1>9 DEF Written
  <2>2. PICK a \in Byte, b \in Byte : a = long[udp] /\ b = long[udp + 1] /\ Get(long, udp, sport) = <<a, b>>
    BY <1>2, <1>4, <2>1, GetTwo
  <2>3. Written(Set(long, udp, udp_check, <<a, b>>), long, p6, a, b)
    BY <1>2, <1>4, <2>1, SetTwo
  <2> QED
    BY <1>6, <2>2, <2>3
<1>11. Written(moved, saved, udp, saved[p2], saved[p2 + 1])
  <2>1. saved \in Buffer
    BY <1>10 DEF Written
  <2>2. PICK a \in Byte, b \in Byte : a = saved[p2] /\ b = saved[p2 + 1] /\ Get(saved, udp, dport) = <<a, b>>
    BY <1>2, <1>4, <2>1, GetTwo
  <2>3. Written(Set(saved, udp, sport, <<a, b>>), saved, udp, a, b)
    BY <1>2, <1>4, <2>1, SetTwo
  <2> QED
    BY <1>7, <2>2, <2>3
<1>12. Written(t, moved, p2, moved[p6], moved[p6 + 1])
  <2>1. moved \in Buffer
    BY <1>11 DEF Written
  <2>2. PICK a \in Byte, b \in Byte : a = moved[p6] /\ b = moved[p6 + 1] /\ Get(moved, udp, udp_check) = <<a, b>>
    BY <1>2, <1>4, <2>1, GetTwo
  <2>3. Written(Set(moved, udp, dport, <<a, b>>), moved, p2, a, b)
    BY <1>2, <1>4, <2>1, SetTwo
  <2> QED
    BY <1>8, <2>2, <2>3
<1>13. /\ udp \in 0 .. Size - 1 /\ udp + 1 \in 0 .. Size - 1 /\ p2 \in 0 .. Size - 1 /\ p2 + 1 \in 0 .. Size - 1
       /\ p4 \in 0 .. Size - 1 /\ p4 + 1 \in 0 .. Size - 1 /\ p6 \in 0 .. Size - 1 /\ p6 + 1 \in 0 .. Size - 1
  BY <1>1, <1>3
<1>14. t[p2] = buf[udp] /\ t[p2 + 1] = buf[udp + 1]
  <2>1. t[p2] = moved[p6] /\ t[p2 + 1] = moved[p6 + 1]
    BY <1>12 DEF Written
  <2>2. moved[p6] = saved[p6] /\ moved[p6 + 1] = saved[p6 + 1]
    BY <1>1, <1>11, <1>13 DEF Written
  <2>3. saved[p6] = long[udp] /\ saved[p6 + 1] = long[udp + 1]
    BY <1>10 DEF Written
  <2>4. long[udp] = buf[udp] /\ long[udp + 1] = buf[udp + 1]
    BY <1>1, <1>9, <1>13 DEF Written
  <2> QED
    BY <2>1, <2>2, <2>3, <2>4, Zenon
<1>15. t[udp] = buf[p2] /\ t[udp + 1] = buf[p2 + 1]
  <2>1. t[udp] = moved[udp] /\ t[udp + 1] = moved[udp + 1]
    BY <1>1, <1>12, <1>13 DEF Written
  <2>2. moved[udp] = saved[p2] /\ moved[udp + 1] = saved[p2 + 1]
    BY <1>11 DEF Written
  <2>3. saved[p2] = long[p2] /\ saved[p2 + 1] = long[p2 + 1]
    BY <1>1, <1>10, <1>13 DEF Written
  <2>4. long[p2] = buf[p2] /\ long[p2 + 1] = buf[p2 + 1]
    BY <1>1, <1>9, <1>13 DEF Written
  <2> QED
    BY <2>1, <2>2, <2>3, <2>4, Zenon
<1>16. t[p4] = Host(len)[1] /\ t[p4 + 1] = Host(len)[2]
  <2>1. t[p4] = moved[p4] /\ t[p4 + 1] = moved[p4 + 1]
    BY <1>1, <1>12, <1>13 DEF Written
  <2>2. moved[p4] = saved[p4] /\ moved[p4 + 1] = saved[p4 + 1]
    BY <1>1, <1>11, <1>13 DEF Written
  <2>3. saved[p4] = long[p4] /\ saved[p4 + 1] = long[p4 + 1]
    BY <1>1, <1>10, <1>13 DEF Written
  <2>4. long[p4] = Host(len)[1] /\ long[p4 + 1] = Host(len)[2]
    BY <1>9 DEF Written
  <2> QED
    BY <2>1, <2>2, <2>3, <2>4, Zenon
<1>17. ASSUME NEW k \in 0 .. Size - 1, k \notin udp .. udp + 7 PROVE t[k] = buf[k]
  <2>1. /\ k # udp /\ k # udp + 1 /\ k # p2 /\ k # p2 + 1
        /\ k # p4 /\ k # p4 + 1 /\ k # p6 /\ k # p6 + 1
    BY <1>1, <1>17
  <2> QED
    BY <1>9, <1>10, <1>11, <1>12, <2>1 DEF Written
<1>18. p2 + 1 = udp + 3 /\ p4 + 1 = udp + 5
  BY <1>1
<1>19. t \in Buffer
  BY <1>12 DEF Written
<1> QED
  BY <1>1, <1>14, <1>15, <1>16, <1>17, <1>18, <1>19 DEF IsTurned

\* Two fields of n bytes each, at places a and b
Beside(a, b, n, hdr, f, g) ==
    /\ a \in Nat /\ b \in Nat /\ n \in Nat /\ hdr \in Nat /\ IsField(f) /\ IsField(g)
    /\ a = hdr + f.at /\ b = hdr + g.at /\ n = f.len /\ n = g.len
    /\ a + n <= b /\ b + n <= Size

LEMMA SwappedIs ==
    ASSUME NEW buf \in Buffer, NEW a, NEW b, NEW n, NEW hdr, NEW f, NEW g,
           Beside(a, b, n, hdr, f, g), NEW t, t = Swapped(buf, hdr, f, g)
    PROVE  /\ t \in Buffer
           /\ \A k \in 0 .. Size - 1 :
                 t[k] = IF k \in a .. a + n - 1 THEN buf[k + (b - a)]
                        ELSE IF k \in b .. b + n - 1 THEN buf[k - (b - a)] ELSE buf[k]
<1>1. a \in Nat /\ b \in Nat /\ n \in Nat /\ a + n <= b /\ b + n <= Size /\ Size \in Nat
  BY SizeType DEF Beside
<1>2. Inside(hdr, f) /\ Inside(hdr, g) /\ hdr \in Nat
  BY <1>1 DEF Beside, Inside, IsField
<1>3. PICK F, G : F = Get(buf, hdr, f) /\ G = Get(buf, hdr, g)
  OBVIOUS
<1>4. F \in Seq(Byte) /\ G \in Seq(Byte) /\ Len(F) = n /\ Len(G) = n
  BY <1>1, <1>2, <1>3, GetType DEF Beside
<1>5. F = [k \in 1 .. n |-> buf[a + k - 1]] /\ G = [k \in 1 .. n |-> buf[b + k - 1]]
  BY <1>3, Zenon DEF Get, Beside
<1>6. PICK s : s = Put(buf, a, G)
  OBVIOUS
<1>7. t = Put(s, b, F)
  BY <1>3, <1>6, Zenon DEF Swapped, Set, Beside
<1>8. s \in Buffer /\ t \in Buffer
  <2>1. a \in Int /\ b \in Int
    BY <1>1
  <2>2. s \in Buffer
    BY <1>4, <1>6, <2>1, PutType DEF Buffer
  <2>3. Put(s, b, F) \in Buffer
    <3>1. s \in [0 .. Size - 1 -> Byte]
      BY <2>2 DEF Buffer
    <3>2. Put(s, b, F) \in [0 .. Size - 1 -> Byte]
      BY <1>4, <2>1, <3>1, PutType
    <3> QED
      BY <3>2 DEF Buffer
  <2> QED
    BY <1>7, <2>2, <2>3, Zenon
<1>9. ASSUME NEW k \in 0 .. Size - 1
      PROVE  /\ s[k] = IF k \in a .. a + n - 1 THEN G[k - a + 1] ELSE buf[k]
             /\ t[k] = IF k \in b .. b + n - 1 THEN F[k - b + 1] ELSE s[k]
  <2>1. DOMAIN buf = 0 .. Size - 1 /\ DOMAIN s = 0 .. Size - 1
    BY <1>8 DEF Buffer
  <2>2. s[k] = IF k \in a .. a + Len(G) - 1 THEN G[k - a + 1] ELSE buf[k]
    BY <1>6, <2>1, Zenon DEF Put
  <2>3. t[k] = IF k \in b .. b + Len(F) - 1 THEN F[k - b + 1] ELSE s[k]
    BY <1>7, <2>1, Zenon DEF Put
  <2> QED
    BY <1>4, <2>2, <2>3
<1>10. ASSUME NEW k \in 0 .. Size - 1
       PROVE  t[k] = IF k \in a .. a + n - 1 THEN buf[k + (b - a)]
                     ELSE IF k \in b .. b + n - 1 THEN buf[k - (b - a)] ELSE buf[k]
  <2>1. CASE k \in a .. a + n - 1
    <3>1. k \notin b .. b + n - 1 /\ k - a + 1 \in 1 .. n /\ b + (k - a + 1) - 1 = k + (b - a)
      BY <1>1, <2>1
    <3>2. G[k - a + 1] = buf[b + (k - a + 1) - 1]
      BY <1>5, <3>1
    <3> QED
      BY <1>9, <2>1, <3>1, <3>2
  <2>2. CASE k \in b .. b + n - 1
    <3>1. k \notin a .. a + n - 1 /\ k - b + 1 \in 1 .. n /\ a + (k - b + 1) - 1 = k - (b - a)
      BY <1>1, <2>2
    <3>2. F[k - b + 1] = buf[a + (k - b + 1) - 1]
      BY <1>5, <3>1
    <3> QED
      BY <1>9, <2>2, <3>1, <3>2
  <2>3. CASE k \notin a .. a + n - 1 /\ k \notin b .. b + n - 1
    BY <1>9, <2>3
  <2> QED
    BY <2>1, <2>2, <2>3
<1> QED
  BY <1>8, <1>10

\* update_udp_hdr(): t is the header turned round, and c that without its checksum.
LEMMA UdpStep ==
    ASSUME RoomInv, update_udp_hdr
    PROVE  \E t \in Buffer, c \in Buffer, sum \in Sum32 :
              /\ t = Turned(data, udp_hdr, cur_pos - udp_hdr)
              /\ Written(c, t, udp_hdr + 6, 0, 0)
              /\ sum = ByteSum(t, 26, 8) + zero' + 256 * t[23] + ByteSum(t, udp_hdr + 4, 2)
                           + ByteSum(c, udp_hdr, cur_pos - udp_hdr)
              /\ Complement(sum) \in Word
              /\ Written(data', c, udp_hdr + 6, Host(Complement(sum))[1], Host(Complement(sum))[2])
<1>1. pc = "update_udp_hdr" /\ zero' \in Byte
  BY AnswersType DEF update_udp_hdr
<1>2. /\ data \in Buffer /\ udp_hdr \in Nat /\ udp_hdr >= 14 /\ udp_hdr <= 74
      /\ cur_pos \in Nat /\ cur_pos <= Size /\ udp_hdr + 41 <= cur_pos
      /\ Size \in Nat
  BY <1>1, Numbers, SizeType DEF RoomInv, Replying
<1>3. PICK len \in Nat : len = cur_pos - udp_hdr /\ len >= 8 /\ udp_hdr + len <= Size
  BY <1>2
<1>4. PICK t : t = Turned(data, udp_hdr, len)
  OBVIOUS
<1>5. t \in Buffer
  <2>1. udp_hdr + 8 <= Size /\ len \in Int
    BY <1>2, <1>3
  <2> QED
    BY <1>2, <1>4, <2>1, TurnedIs DEF IsTurned
<1>6. PICK c : c = Cleared(data, udp_hdr, len)
  OBVIOUS
<1>7. PICK p6 \in Nat : p6 = udp_hdr + 6 /\ IsAt(p6, udp_hdr, udp_check)
  BY <1>2, <1>3 DEF IsAt, udp_check
<1>8. Written(c, t, p6, 0, 0)
  <2>1. 0 \in Byte
    BY DEF Byte
  <2>2. c = Set(t, udp_hdr, udp_check, <<0, 0>>)
    BY <1>4, <1>6, Zenon DEF Cleared
  <2> QED
    BY <1>2, <1>5, <1>7, <2>1, <2>2, SetTwo
<1>9. c \in Buffer
  BY <1>8 DEF Written
<1>10. PICK sum : sum = PseudoSum(t, udp_hdr, zero') + UdpSum(c, udp_hdr, len)
  OBVIOUS
<1>11. /\ sum \in Sum32
       /\ sum = ByteSum(t, 26, 8) + zero' + 256 * t[23] + ByteSum(t, udp_hdr + 4, 2)
                    + ByteSum(c, udp_hdr, len)
  BY <1>1, <1>2, <1>3, <1>5, <1>9, <1>10, UdpTotalIs
<1>12. Complement(sum) \in Word
  BY <1>11, ChecksumCompletes
<1>13. data' = Set(c, udp_hdr, udp_check, Host(Complement(sum)))
  <2>1. len = cur_pos - udp_hdr
    BY <1>3
  <2> QED
    BY <1>4, <1>6, <1>10, <2>1, Zenon DEF update_udp_hdr, Turned, Cleared
<1>14. Written(data', c, p6, Host(Complement(sum))[1], Host(Complement(sum))[2])
  <2>1. Complement(sum) \in Int
    BY <1>12 DEF Word
  <2>2. PICK x \in Byte, y \in Byte :
            /\ x = Host(Complement(sum))[1] /\ y = Host(Complement(sum))[2]
            /\ Host(Complement(sum)) = <<x, y>>
    BY <2>1, HostBytes
  <2>3. Written(Set(c, udp_hdr, udp_check, <<x, y>>), c, p6, x, y)
    BY <1>2, <1>7, <1>9, SetTwo
  <2> QED
    BY <1>13, <2>2, <2>3
<1>15. t = Turned(data, udp_hdr, cur_pos - udp_hdr)
  BY <1>3, <1>4
<1> QED
  BY <1>3, <1>5, <1>7, <1>8, <1>9, <1>11, <1>12, <1>14, <1>15

\* update_ip_hdr(): what changes is the length, the checksum and the addresses.
LEMMA IpStep ==
    ASSUME RoomInv, update_ip_hdr
    PROVE  /\ data' \in Buffer
           /\ data'[16] = Host(cur_pos - 14)[1] /\ data'[17] = Host(cur_pos - 14)[2]
           /\ \A k \in 0 .. Size - 1 :
                 k \notin {16, 17, 24, 25} =>
                     data'[k] = IF k \in 26 .. 29 THEN data[k + 4]
                                ELSE IF k \in 30 .. 33 THEN data[k - 4] ELSE data[k]
<1>1. data \in Buffer /\ cur_pos \in Nat /\ Size \in Nat /\ Size >= 82 /\ Size < 65536
  BY Numbers, SizeType
<1>2. cur_pos - ip_hdr = cur_pos - 14 /\ ip_hdr = 14 /\ ip_hdr \in Nat
  BY DEF ip_hdr, ETH_HDR_LEN
<1>3. PICK long : long = Set(data, ip_hdr, tot_len, Host(cur_pos - ip_hdr))
  OBVIOUS
<1>4. Written(long, data, 16, Host(cur_pos - 14)[1], Host(cur_pos - 14)[2])
  <2>1. cur_pos - 14 \in Int
    BY <1>1
  <2>2. PICK x \in Byte, y \in Byte :
            /\ x = Host(cur_pos - 14)[1] /\ y = Host(cur_pos - 14)[2]
            /\ Host(cur_pos - 14) = <<x, y>>
    BY <2>1, HostBytes
  <2>3. IsAt(16, ip_hdr, tot_len)
    BY <1>1, <1>2 DEF IsAt, tot_len
  <2>4. Written(Set(data, ip_hdr, tot_len, <<x, y>>), data, 16, x, y)
    BY <1>1, <1>2, <2>3, SetTwo
  <2> QED
    BY <1>2, <1>3, <2>2, <2>4
<1>5. PICK turned : turned = Swapped(long, ip_hdr, saddr, daddr)
  OBVIOUS
<1>6. /\ turned \in Buffer
      /\ \A k \in 0 .. Size - 1 :
            turned[k] = IF k \in 26 .. 29 THEN long[k + 4]
                        ELSE IF k \in 30 .. 33 THEN long[k - 4] ELSE long[k]
  <2>1. PICK a, b, n : a = 26 /\ b = 30 /\ n = 4
    OBVIOUS
  <2>2. Beside(a, b, n, ip_hdr, saddr, daddr)
    BY <1>1, <1>2, <2>1 DEF Beside, IsField, saddr, daddr
  <2>3. long \in Buffer
    BY <1>4 DEF Written
  <2>4. /\ turned \in Buffer
        /\ \A k \in 0 .. Size - 1 :
              turned[k] = IF k \in a .. a + n - 1 THEN long[k + (b - a)]
                          ELSE IF k \in b .. b + n - 1 THEN long[k - (b - a)] ELSE long[k]
    BY <1>5, <2>2, <2>3, SwappedIs
  <2>5. a + n - 1 = 29 /\ b + n - 1 = 33 /\ b - a = 4 /\ a = 26 /\ b = 30
    BY <2>1
  <2> QED
    BY <2>4, <2>5
<1>7. PICK cleared : cleared = Set(turned, ip_hdr, ip_check, <<0, 0>>)
  OBVIOUS
<1>8. IsAt(24, ip_hdr, ip_check)
  BY <1>1, <1>2 DEF IsAt, ip_check
<1>9. Written(cleared, turned, 24, 0, 0)
  <2>1. 0 \in Byte
    BY DEF Byte
  <2> QED
    BY <1>2, <1>6, <1>7, <1>8, <2>1, SetTwo
<1>10. cleared \in Buffer
  BY <1>9 DEF Written
<1>11. PICK sum : sum = SumOf(cleared, ip_hdr, ihl(cleared))
  OBVIOUS
<1>12. sum \in Sum32
  <2>1. PICK n \in Nat : n = ihl(cleared) /\ n <= 15
    <3>1. cleared[14] \in Byte
      BY <1>1, <1>10 DEF Buffer
    <3> QED
      BY <1>2, <3>1 DEF ihl, Byte
  <2>2. Holds(cleared, 14, n)
    BY <1>1, <1>10, <2>1 DEF Holds, Buffer
  <2>3. sum = ByteSum(cleared, 14, n)
    BY <1>2, <1>11, <2>1, <2>2, SumOfIs
  <2>4. sum \in Nat /\ sum <= 65280 * n
    BY <2>2, <2>3, ByteSumBound
  <2> QED
    BY <2>1, <2>4 DEF Sum32, Base
<1>13. Complement(sum) \in Int
  <2>1. Complement(sum) \in Word
    BY <1>12, ChecksumCompletes
  <2> QED
    BY <2>1 DEF Word
<1>14. data' = Set(cleared, ip_hdr, ip_check, Host(Complement(sum)))
  BY <1>3, <1>5, <1>7, <1>11, Zenon DEF update_ip_hdr
<1>15. PICK x \in Byte, y \in Byte : Written(data', cleared, 24, x, y)
  <2>1. PICK x \in Byte, y \in Byte : Host(Complement(sum)) = <<x, y>>
    BY <1>13, HostBytes
  <2>2. Written(Set(cleared, ip_hdr, ip_check, <<x, y>>), cleared, 24, x, y)
    BY <1>2, <1>8, <1>10, SetTwo
  <2> QED
    BY <1>14, <2>1, <2>2
<1>16. data' \in Buffer
  BY <1>15 DEF Written
<1>17. ASSUME NEW k \in 0 .. Size - 1, k # 24, k # 25
       PROVE  data'[k] = IF k \in 26 .. 29 THEN long[k + 4]
                         ELSE IF k \in 30 .. 33 THEN long[k - 4] ELSE long[k]
  <2>1. data'[k] = cleared[k] /\ cleared[k] = turned[k]
    BY <1>9, <1>15, <1>17 DEF Written
  <2> QED
    BY <1>6, <2>1
<1>18. ASSUME NEW k \in 0 .. Size - 1, k \notin {16, 17, 24, 25}
       PROVE  data'[k] = IF k \in 26 .. 29 THEN data[k + 4]
                         ELSE IF k \in 30 .. 33 THEN data[k - 4] ELSE data[k]
  <2>1. ASSUME NEW j \in 0 .. Size - 1, j \notin {16, 17} PROVE long[j] = data[j]
    BY <1>4, <2>1 DEF Written
  <2>2. CASE k \in 26 .. 29
    <3>1. k + 4 \in 0 .. Size - 1 /\ k + 4 \notin {16, 17}
      BY <1>1, <2>2
    <3> QED
      BY <1>17, <1>18, <2>1, <2>2, <3>1
  <2>3. CASE k \in 30 .. 33
    <3>1. k - 4 \in 0 .. Size - 1 /\ k - 4 \notin {16, 17} /\ k \notin 26 .. 29
      BY <1>1, <2>3
    <3> QED
      BY <1>17, <1>18, <2>1, <2>3, <3>1
  <2>4. CASE k \notin 26 .. 29 /\ k \notin 30 .. 33
    BY <1>17, <1>18, <2>1, <2>4
  <2> QED
    BY <2>2, <2>3, <2>4
<1>19. data'[16] = Host(cur_pos - 14)[1] /\ data'[17] = Host(cur_pos - 14)[2]
  <2>1. 16 \in 0 .. Size - 1 /\ 17 \in 0 .. Size - 1 /\ 16 + 1 = 17
    BY <1>1
  <2>2. data'[16] = long[16] /\ data'[17] = long[17]
    BY <1>17, <2>1
  <2>3. long[16] = Host(cur_pos - 14)[1] /\ long[16 + 1] = Host(cur_pos - 14)[2]
    BY <1>4 DEF Written
  <2> QED
    BY <2>1, <2>2, <2>3
<1> QED
  BY <1>16, <1>18, <1>19

\* update_eth_hdr(): the addresses change places.
LEMMA EthStep ==
    ASSUME RoomInv, update_eth_hdr
    PROVE  /\ data' \in Buffer
           /\ \A k \in 0 .. Size - 1 :
                 data'[k] = IF k \in 0 .. 5 THEN data[k + 6]
                            ELSE IF k \in 6 .. 11 THEN data[k - 6] ELSE data[k]
<1>1. PICK a, b, n : a = 0 /\ b = 6 /\ n = 6
  OBVIOUS
<1>2. Beside(a, b, n, 0, dmac, smac)
  BY <1>1, SizeType DEF Beside, IsField, dmac, smac
<1>3. data \in Buffer /\ data' = Swapped(data, 0, dmac, smac)
  BY Numbers DEF update_eth_hdr
<1>4. /\ data' \in Buffer
      /\ \A k \in 0 .. Size - 1 :
            data'[k] = IF k \in a .. a + n - 1 THEN data[k + (b - a)]
                       ELSE IF k \in b .. b + n - 1 THEN data[k - (b - a)] ELSE data[k]
  BY <1>2, <1>3, SwappedIs
<1>5. a + n - 1 = 5 /\ b + n - 1 = 11 /\ b - a = 6 /\ a = 0 /\ b = 6
  BY <1>1
<1> QED
  BY <1>4, <1>5

LEMMA UdpRoom == RoomInv /\ update_udp_hdr => RoomInv'
<1>1. SUFFICES ASSUME RoomInv, update_udp_hdr PROVE RoomInv'
  OBVIOUS
<1>2. /\ pc = "update_udp_hdr" /\ pc' = "update_ip_hdr" /\ zero' \in Byte
      /\ UNCHANGED <<data_len, udp_hdr, cur_pos, scan_len, domain, q_type, rr_res, query>>
  BY <1>1, AnswersType DEF update_udp_hdr, asked
<1>3. data' \in Buffer
  BY <1>1, UdpStep DEF Written
<1>4. TypeOK'
  <2>1. InReach'
    BY <1>1, <1>2, SameReach
  <2> QED
    BY <1>1, <1>2, <1>3, <2>1 DEF RoomInv, TypeOK, PC, Buffer
<1>5. dns_hdr' = dns_hdr
  BY <1>2 DEF dns_hdr
<1> QED
  BY <1>1, <1>2, <1>4, <1>5 DEF RoomInv, Parsing, Asked, Replying

LEMMA IpRoom == RoomInv /\ update_ip_hdr => RoomInv'
<1>1. SUFFICES ASSUME RoomInv, update_ip_hdr PROVE RoomInv'
  OBVIOUS
<1>2. /\ pc = "update_ip_hdr" /\ pc' = "update_eth_hdr"
      /\ UNCHANGED <<data_len, udp_hdr, cur_pos, scan_len, domain, q_type, rr_res, zero, query>>
  BY <1>1 DEF update_ip_hdr, asked
<1>3. data' \in Buffer
  BY <1>1, IpStep
<1>4. TypeOK'
  <2>1. InReach'
    BY <1>1, <1>2, SameReach
  <2> QED
    BY <1>1, <1>2, <1>3, <2>1 DEF RoomInv, TypeOK, PC, Buffer
<1>5. dns_hdr' = dns_hdr
  BY <1>2 DEF dns_hdr
<1> QED
  BY <1>1, <1>2, <1>4, <1>5 DEF RoomInv, Parsing, Asked, Replying

LEMMA EthRoom == RoomInv /\ update_eth_hdr => RoomInv'
<1>1. SUFFICES ASSUME RoomInv, update_eth_hdr PROVE RoomInv'
  OBVIOUS
<1>2. /\ pc = "update_eth_hdr" /\ pc' = "sent"
      /\ UNCHANGED <<data_len, udp_hdr, cur_pos, scan_len, domain, q_type, rr_res, zero, query>>
  BY <1>1 DEF update_eth_hdr, asked
<1>3. data' \in Buffer
  BY <1>1, EthStep
<1>4. TypeOK'
  <2>1. InReach'
    BY <1>1, <1>2, SameReach
  <2> QED
    BY <1>1, <1>2, <1>3, <2>1 DEF RoomInv, TypeOK, PC, Buffer
<1>5. dns_hdr' = dns_hdr
  BY <1>2 DEF dns_hdr
<1> QED
  BY <1>1, <1>2, <1>4, <1>5 DEF RoomInv, Parsing, Asked, Replying

LEMMA RoomStep == RoomInv /\ [Next]_vars => RoomInv'
<1>1. RoomInv /\ UNCHANGED vars => RoomInv'
  <2>1. SUFFICES ASSUME RoomInv, UNCHANGED vars PROVE RoomInv'
    OBVIOUS
  <2>2. UNCHANGED <<pc, data, data_len, udp_hdr, cur_pos, scan_len, domain, q_type, rr_res, zero, query>>
    BY <2>1 DEF vars, asked
  <2>3. TypeOK'
    BY <2>1, <2>2 DEF RoomInv, TypeOK, InReach, dns_hdr
  <2> QED
    BY <2>1, <2>2, <2>3 DEF RoomInv, Parsing, Asked, Replying, dns_hdr
<1> QED
  BY <1>1, ParsePktRoom, ParseDnsRoom, TurnRoom, QueryZoneRoom, ConsDnsRoom, UdpRoom, IpRoom, EthRoom
     DEF Next

LEMMA RoomAlways == Spec => []RoomInv
BY RoomInit, RoomStep, PTL DEF Spec

\* Whatever the frame, its bytes and the lookup, every byte, number and checksum has its
\* type, all that is read and all of the answer lies in the buffer, as the loop over the
\* labels leaves the frame by one label at the most; and only where the buffer ends less
\* than COPY_LEN bytes behind the longest reply can the copying of an address pass its end.
THEOREM Types == Spec => []TypeOK
<1>1. RoomInv => TypeOK
  BY DEF RoomInv
<1> QED
  BY <1>1, RoomAlways, PTL
-----------------------------------------------------------------------------
(* What the buffer holds at each step of the reply                           *)

old == query.data
UdpDone == pc \in {"update_ip_hdr", "update_eth_hdr", "sent"}
IpDone == pc \in {"update_eth_hdr", "sent"}

EthPart ==
    \A k \in 0 .. 13 :
        data[k] = IF pc # "sent" THEN old[k]
                  ELSE IF k \in 0 .. 5 THEN old[k + 6]
                  ELSE IF k \in 6 .. 11 THEN old[k - 6] ELSE old[k]

IpPart ==
    /\ IpDone => data[16] = Host(cur_pos - 14)[1] /\ data[17] = Host(cur_pos - 14)[2]
    /\ \A k \in 14 .. udp_hdr - 1 :
          IpDone /\ k \notin {16, 17, 24, 25} =>
              data[k] = IF k \in 26 .. 29 THEN old[k + 4]
                        ELSE IF k \in 30 .. 33 THEN old[k - 4] ELSE old[k]
    /\ \A k \in 14 .. udp_hdr - 1 : ~IpDone => data[k] = old[k]

UdpPart ==
    /\ UdpDone =>
          /\ data[udp_hdr] = old[udp_hdr + 2] /\ data[udp_hdr + 1] = old[udp_hdr + 3]
          /\ data[udp_hdr + 2] = old[udp_hdr] /\ data[udp_hdr + 3] = old[udp_hdr + 1]
          /\ data[udp_hdr + 4] = Host(cur_pos - udp_hdr)[1]
          /\ data[udp_hdr + 5] = Host(cur_pos - udp_hdr)[2]
    /\ \A k \in udp_hdr .. udp_hdr + 7 : ~UdpDone => data[k] = old[k]

\* The DNS part is what cons_dns() has made of it.
DnsPart ==
    /\ data[dns_hdr + 2] = 129 /\ data[dns_hdr + 3] = 0
    /\ \A k \in dns_hdr .. cur_pos - 17 :
          k # dns_hdr + 2 /\ k # dns_hdr + 3 => data[k] = old[k]
    /\ \A k \in 1 .. 16 : data[cur_pos - 17 + k] = Answer(rr_res)[k]

Parts == EthPart /\ IpPart /\ UdpPart /\ DnsPart

Beyond == pc \in {"parse_dns", "get_query_domain"} \/ Asked \/ Replying

PartsInv ==
    /\ RoomInv
    /\ Parsing \/ Asked => data = old
    /\ Beyond => udp_hdr = Dns - UDP_HDR_LEN /\ old[23] = 17
    /\ Replying /\ PlainHeader => Parts

LEMMA PartsInit == Init => PartsInv
<1>1. SUFFICES ASSUME Init PROVE PartsInv
  OBVIOUS
<1>2. pc = "parse_pkt" /\ data = old
  BY <1>1 DEF Init, old
<1> QED
  BY <1>1, <1>2, RoomInit DEF PartsInv, Beyond, Asked, Replying

LEMMA PartsParsePkt == PartsInv /\ parse_pkt => PartsInv'
<1>1. SUFFICES ASSUME PartsInv, parse_pkt PROVE PartsInv'
  OBVIOUS
<1>2. RoomInv /\ RoomInv'
  BY <1>1, ParsePktRoom DEF PartsInv
<1>3. /\ pc = "parse_pkt" /\ pc' \in {"parse_dns", "dropped"}
      /\ data' = data /\ old' = old /\ data = old
  BY <1>1 DEF parse_pkt, PartsInv, Parsing, old
<1>4. pc' = "parse_dns" => udp_hdr' = ip_hdr + ihl(old) * 4 /\ old[23] = 17
  <2>1. SUFFICES ASSUME pc' = "parse_dns"
                 PROVE  udp_hdr' = ip_hdr + ihl(old) * 4 /\ old[23] = 17
    OBVIOUS
  <2>2. udp_hdr' = ip_hdr + ihl(data) * 4 /\ IsDns(ip_hdr + ihl(data) * 4)
    BY <1>1, <2>1 DEF parse_pkt
  <2>3. Get(data, ip_hdr, protocol) = << 17 >>
    BY <2>2 DEF IsDns
  <2>4. data[23] = 17
    <3>1. Get(data, ip_hdr, protocol) = [k \in 1 .. 1 |-> data[14 + 9 + k - 1]]
      BY DEF Get, ip_hdr, ETH_HDR_LEN, protocol
    <3>2. Get(data, ip_hdr, protocol)[1] = data[14 + 9 + 1 - 1]
      BY <3>1
    <3>3. Get(data, ip_hdr, protocol)[1] = 17
      BY <2>3
    <3>4. PICK j \in Nat : j = 14 + 9 + 1 - 1 /\ j = 23
      OBVIOUS
    <3>5. data[j] = 17
      BY <3>2, <3>3, <3>4
    <3> QED
      BY <3>4, <3>5
  <2> QED
    BY <1>3, <2>2, <2>4
<1>5. Dns' = Dns /\ (pc' = "parse_dns" => udp_hdr' = Dns - UDP_HDR_LEN)
  <2>1. Dns' = Dns
    BY <1>3 DEF Dns, old
  <2>2. ihl(old) \in Nat
    <3>1. old[14] \in Byte
      <4>1. 14 \in 0 .. Size - 1
        BY SizeType
      <4> QED
        BY <1>2, <1>3, <4>1, Numbers DEF Buffer
    <3> QED
      BY <3>1 DEF ihl, Byte, ip_hdr, ETH_HDR_LEN
  <2> QED
    BY <1>4, <2>1, <2>2 DEF Dns, UDP_HDR_LEN, ip_hdr, ETH_HDR_LEN, old
<1> QED
  BY <1>2, <1>3, <1>4, <1>5 DEF PartsInv, Beyond, Asked, Replying

\* The steps that read
LEMMA PartsReading ==
    ASSUME PartsInv, RoomInv', Beyond, ~Replying, ~Replying', UNCHANGED <<data, query, udp_hdr>>
    PROVE  PartsInv'
<1>1. old' = old /\ Dns' = Dns
  BY DEF old, Dns
<1>2. data = old
  BY DEF PartsInv, Beyond, Replying, Asked, Parsing
<1>3. udp_hdr = Dns - UDP_HDR_LEN /\ old[23] = 17
  BY DEF PartsInv
<1> QED
  BY <1>1, <1>2, <1>3 DEF PartsInv

LEMMA PartsParseDns == PartsInv /\ (parse_dns \/ get_query_domain \/ query_zone) => PartsInv'
<1>1. SUFFICES ASSUME PartsInv, parse_dns \/ get_query_domain \/ query_zone PROVE PartsInv'
  OBVIOUS
<1>2. RoomInv'
  BY <1>1, ParseDnsRoom, TurnRoom, QueryZoneRoom DEF PartsInv
<1>3. pc \in {"parse_dns", "get_query_domain", "query_zone"}
  BY <1>1 DEF parse_dns, get_query_domain, query_zone
<1>4. UNCHANGED <<data, query, udp_hdr>>
  BY <1>1 DEF parse_dns, get_query_domain, query_zone
<1>5. pc' \in {"get_query_domain", "query_zone", "cons_dns", "dropped", "dead", "not_found"}
  <2>1. CASE parse_dns
    BY <2>1 DEF parse_dns
  <2>2. CASE get_query_domain
    BY <2>2, TurnIs DEF Leave, End, Refuse, Copy, read_type
  <2>3. CASE query_zone
    BY <2>3 DEF query_zone
  <2> QED
    BY <1>1, <2>1, <2>2, <2>3
<1>6. Beyond /\ ~Replying /\ ~Replying'
  BY <1>3, <1>5 DEF Beyond, Asked, Replying
<1> QED
  BY <1>1, <1>2, <1>4, <1>6, PartsReading

\* An ihl of five or more: the UDP header begins behind the addresses.
LEMMA PlainIs ==
    ASSUME PartsInv, Beyond, PlainHeader
    PROVE  /\ udp_hdr \in Nat /\ udp_hdr >= 34 /\ udp_hdr <= 74
           /\ dns_hdr = udp_hdr + 8 /\ dns_hdr \in Nat
           /\ cur_pos \in Nat /\ cur_pos <= Size
           /\ Size \in Nat /\ Size >= 82
           /\ data \in Buffer /\ old \in Buffer
<1>1. RoomInv
  BY DEF PartsInv
<1>2. old \in Buffer
  BY <1>1 DEF RoomInv, TypeOK, old, Buffer
<1>3. PICK n \in Nat : n = ihl(old) /\ n >= 5
  <2>1. 14 \in 0 .. Size - 1
    BY SizeType
  <2>2. old[14] \in Byte
    BY <1>2, <2>1 DEF Buffer
  <2> QED
    BY <2>2 DEF ihl, Byte, ip_hdr, ETH_HDR_LEN, PlainHeader, old
<1>4. udp_hdr = 14 + n * 4
  <2>1. udp_hdr = Dns - UDP_HDR_LEN
    BY DEF PartsInv
  <2> QED
    BY <1>3, <2>1 DEF Dns, UDP_HDR_LEN, ip_hdr, ETH_HDR_LEN, old
<1>5. udp_hdr >= 34
  BY <1>3, <1>4
<1> QED
  BY <1>1, <1>2, <1>5, Numbers, SizeType

LEMMA PartsConsDns == PartsInv /\ cons_dns => PartsInv'
<1>1. SUFFICES ASSUME PartsInv, cons_dns PROVE PartsInv'
  OBVIOUS
<1>2. RoomInv /\ RoomInv'
  BY <1>1, ConsDnsRoom DEF PartsInv
<1>3. /\ pc = "cons_dns" /\ pc' \in {"update_udp_hdr", "overrun"}
      /\ cur_pos' = cur_pos + Len(Answer(rr_res))
      /\ UNCHANGED <<udp_hdr, q_type, rr_res, query>>
  <2>1. pc' # "update_udp_hdr" => pc' = "overrun"
    BY <1>1, <1>2, AnswerWritten
  <2> QED
    BY <1>1, <2>1 DEF cons_dns, asked
<1>4. /\ data = old /\ old' = old /\ Dns' = Dns /\ dns_hdr' = dns_hdr /\ PlainHeader' = PlainHeader
      /\ udp_hdr = Dns - UDP_HDR_LEN /\ old[23] = 17 /\ Beyond
  BY <1>1, <1>3 DEF PartsInv, old, Dns, dns_hdr, PlainHeader, Asked, Beyond
<1>5. ASSUME PlainHeader PROVE Parts'
  <2>1. PICK b \in Garbage, buf \in Buffer, answer \in Bytes(16) :
            /\ buf = Flagged
            /\ answer = Answer(rr_res)
            /\ data' = [k \in 0 .. Size - 1 |->
                           IF k \in Behind THEN b ELSE Put(buf, cur_pos, answer)[k]]
    BY <1>1, <1>2, AnswerWritten
  <2>2. /\ udp_hdr \in Nat /\ udp_hdr >= 34 /\ udp_hdr <= 74 /\ dns_hdr = udp_hdr + 8
        /\ cur_pos \in Nat /\ Size \in Nat /\ Size >= 82
        /\ dns_hdr + 17 <= cur_pos /\ cur_pos <= Size - 19
        /\ data \in Buffer
    BY <1>1, <1>2, <1>3, <1>4, <1>5, PlainIs DEF RoomInv, Asked
  <2>3. Written(buf, data, dns_hdr + 2, 129, 0)
    <3>1. 129 \in Byte /\ 0 \in Byte /\ Net(33024) = <<129, 0>>
      BY DEF Byte, Net
    <3>2. PICK at \in Nat : at = dns_hdr + 2 /\ IsAt(at, dns_hdr, flags)
      BY <2>2 DEF IsAt, flags
    <3>3. dns_hdr \in Nat
      BY <2>2
    <3>4. Written(Set(data, dns_hdr, flags, <<129, 0>>), data, at, 129, 0)
      BY <2>2, <3>1, <3>2, <3>3, SetTwo
    <3> QED
      BY <2>1, <3>1, <3>2, <3>4 DEF Flagged
  <2>4. answer \in Seq(Byte) /\ Len(answer) = 16 /\ cur_pos' = cur_pos + 16
    BY <1>3, <2>1 DEF Bytes
  <2>5. ASSUME NEW k \in 0 .. Size - 1, k < cur_pos PROVE data'[k] = buf[k]
    <3>1. k \notin Behind
      BY <2>2, <2>5 DEF Behind
    <3>2. k \notin cur_pos .. cur_pos + Len(answer) - 1
      BY <2>2, <2>5
    <3>3. DOMAIN buf = 0 .. Size - 1
      BY <2>1 DEF Buffer
    <3>4. Put(buf, cur_pos, answer)[k] = buf[k]
      BY <3>2, <3>3, Zenon DEF Put
    <3> QED
      BY <2>1, <3>1, <3>4
  <2>6. ASSUME NEW k \in 1 .. 16 PROVE data'[cur_pos' - 17 + k] = Answer(rr_res)[k]
    <3>1. PICK j \in 0 .. Size - 1 : j = cur_pos' - 17 + k
      BY <2>2, <2>4
    <3>2. j \notin Behind /\ j \in cur_pos .. cur_pos + Len(answer) - 1 /\ j - cur_pos + 1 = k
      BY <2>2, <2>4, <3>1 DEF Behind
    <3>3. DOMAIN buf = 0 .. Size - 1
      BY <2>1 DEF Buffer
    <3>4. Put(buf, cur_pos, answer)[j] = answer[j - cur_pos + 1]
      BY <3>2, <3>3, Zenon DEF Put
    <3>5. data'[j] = answer[k]
      BY <2>1, <3>2, <3>4
    <3> QED
      BY <2>1, <3>1, <3>5
  <2>7. ASSUME NEW k \in 0 .. Size - 1, k < cur_pos, k # dns_hdr + 2, k # dns_hdr + 3
        PROVE  data'[k] = old[k]
    <3>1. data'[k] = buf[k]
      BY <2>5, <2>7
    <3>2. k # dns_hdr + 2 /\ k # (dns_hdr + 2) + 1
      BY <2>2, <2>7
    <3>3. buf[k] = data[k]
      BY <2>3, <3>2 DEF Written
    <3> QED
      BY <1>4, <3>1, <3>3
  <2>8. pc' # "sent" /\ ~IpDone' /\ ~UdpDone'
    BY <1>3 DEF IpDone, UdpDone
  <2>9. ASSUME NEW k \in 0 .. udp_hdr + 7 PROVE data'[k] = old'[k]
    <3>1. k \in 0 .. Size - 1 /\ k < cur_pos /\ k # dns_hdr + 2 /\ k # dns_hdr + 3
      BY <2>2
    <3> QED
      BY <1>4, <2>7, <3>1
  <2>10. EthPart'
    BY <2>2, <2>8, <2>9 DEF EthPart
  <2>11. IpPart'
    BY <1>3, <2>2, <2>8, <2>9 DEF IpPart
  <2>12. UdpPart'
    BY <1>3, <2>2, <2>8, <2>9 DEF UdpPart
  <2>13. DnsPart'
    <3>1. data'[dns_hdr + 2] = 129 /\ data'[dns_hdr + 3] = 0
      <4>1. /\ dns_hdr + 2 \in 0 .. Size - 1 /\ dns_hdr + 2 < cur_pos
            /\ dns_hdr + 3 \in 0 .. Size - 1 /\ dns_hdr + 3 < cur_pos /\ (dns_hdr + 2) + 1 = dns_hdr + 3
        BY <2>2
      <4>2. data'[dns_hdr + 2] = buf[dns_hdr + 2] /\ data'[dns_hdr + 3] = buf[dns_hdr + 3]
        BY <2>5, <4>1
      <4>3. buf[dns_hdr + 2] = 129 /\ buf[(dns_hdr + 2) + 1] = 0
        BY <2>3 DEF Written
      <4> QED
        BY <4>1, <4>2, <4>3
    <3>2. ASSUME NEW k \in dns_hdr .. cur_pos' - 17, k # dns_hdr + 2, k # dns_hdr + 3
          PROVE  data'[k] = old'[k]
      <4>1. k \in 0 .. Size - 1 /\ k < cur_pos
        BY <2>2, <2>4
      <4> QED
        BY <1>4, <2>7, <3>2, <4>1
    <3>3. Answer(rr_res)' = Answer(rr_res)
      BY <1>3 DEF Answer
    <3> QED
      BY <1>4, <2>6, <3>1, <3>2, <3>3 DEF DnsPart
  <2> QED
    BY <2>10, <2>11, <2>12, <2>13 DEF Parts
<1>6. ~Parsing' /\ ~Asked' /\ udp_hdr' = Dns' - UDP_HDR_LEN /\ old'[23] = 17
  BY <1>3, <1>4 DEF Parsing, Asked
<1> QED
  BY <1>2, <1>4, <1>5, <1>6 DEF PartsInv

\* What the DNS part is does not change once it is written.
LEMMA DnsPartStays ==
    ASSUME DnsPart, UNCHANGED <<cur_pos, dns_hdr, q_type, rr_res, query>>,
           cur_pos \in Nat, dns_hdr \in Nat, dns_hdr + 33 <= cur_pos,
           \A k \in dns_hdr .. cur_pos - 1 : data'[k] = data[k]
    PROVE  DnsPart'
<1>1. Answer(rr_res)' = Answer(rr_res)
  BY DEF Answer
<1>2. old' = old
  BY DEF old
<1>3. data'[dns_hdr + 2] = 129 /\ data'[dns_hdr + 3] = 0
  <2>1. dns_hdr + 2 \in dns_hdr .. cur_pos - 1 /\ dns_hdr + 3 \in dns_hdr .. cur_pos - 1
    OBVIOUS
  <2> QED
    BY <2>1 DEF DnsPart
<1>4. ASSUME NEW k \in dns_hdr .. cur_pos - 17, k # dns_hdr + 2, k # dns_hdr + 3
      PROVE  data'[k] = old[k]
  <2>1. k \in dns_hdr .. cur_pos - 1
    OBVIOUS
  <2> QED
    BY <1>4, <2>1 DEF DnsPart
<1>5. ASSUME NEW k \in 1 .. 16 PROVE data'[cur_pos - 17 + k] = Answer(rr_res)[k]
  <2>1. cur_pos - 17 + k \in dns_hdr .. cur_pos - 1
    OBVIOUS
  <2> QED
    BY <2>1 DEF DnsPart
<1> QED
  BY <1>1, <1>2, <1>3, <1>4, <1>5 DEF DnsPart

\* The steps that turn the headers
LEMMA PartsTurning ==
    ASSUME PartsInv, RoomInv', Replying, Replying', PlainHeader => Parts',
           UNCHANGED <<query, udp_hdr>>
    PROVE  PartsInv'
<1>1. old' = old /\ Dns' = Dns /\ PlainHeader' = PlainHeader
  BY DEF old, Dns, PlainHeader
<1>2. udp_hdr = Dns - UDP_HDR_LEN /\ old[23] = 17
  BY DEF PartsInv, Beyond
<1>3. ~Parsing' /\ ~Asked'
  BY DEF Replying, Parsing, Asked
<1> QED
  BY <1>1, <1>2, <1>3 DEF PartsInv

LEMMA PartsUdp == PartsInv /\ update_udp_hdr => PartsInv'
<1>1. SUFFICES ASSUME PartsInv, update_udp_hdr PROVE PartsInv'
  OBVIOUS
<1>2. RoomInv /\ RoomInv'
  BY <1>1, UdpRoom DEF PartsInv
<1>3. /\ pc = "update_udp_hdr" /\ pc' = "update_ip_hdr"
      /\ UNCHANGED <<udp_hdr, cur_pos, q_type, rr_res, query>>
  BY <1>1 DEF update_udp_hdr, asked
<1>4. old' = old /\ dns_hdr' = dns_hdr /\ Beyond /\ Replying /\ Replying'
  BY <1>3 DEF old, dns_hdr, Beyond, Replying
<1>5. ASSUME PlainHeader PROVE Parts'
  <2>1. /\ udp_hdr \in Nat /\ udp_hdr >= 34 /\ udp_hdr <= 74 /\ dns_hdr = udp_hdr + 8
        /\ cur_pos \in Nat /\ cur_pos <= Size /\ Size \in Nat /\ Size >= 82
        /\ data \in Buffer
    BY <1>1, <1>4, <1>5, PlainIs
  <2>2. EthPart /\ IpPart /\ UdpPart /\ DnsPart /\ dns_hdr + 33 <= cur_pos
    BY <1>1, <1>2, <1>4, <1>5 DEF PartsInv, Parts, RoomInv
  <2>3. PICK t \in Buffer, c \in Buffer, sum \in Sum32 :
            /\ t = Turned(data, udp_hdr, cur_pos - udp_hdr)
            /\ Written(c, t, udp_hdr + 6, 0, 0)
            /\ Written(data', c, udp_hdr + 6, Host(Complement(sum))[1], Host(Complement(sum))[2])
    BY <1>1, <1>2, UdpStep
  <2>4. /\ t[udp_hdr] = data[udp_hdr + 2] /\ t[udp_hdr + 1] = data[udp_hdr + 3]
        /\ t[udp_hdr + 2] = data[udp_hdr] /\ t[udp_hdr + 3] = data[udp_hdr + 1]
        /\ t[udp_hdr + 4] = Host(cur_pos - udp_hdr)[1] /\ t[udp_hdr + 5] = Host(cur_pos - udp_hdr)[2]
        /\ \A k \in 0 .. Size - 1 : k \notin udp_hdr .. udp_hdr + 7 => t[k] = data[k]
    <3>1. PICK len \in Int : len = cur_pos - udp_hdr
      BY <2>1
    <3>2. udp_hdr + 8 <= Size /\ udp_hdr \in Nat /\ data \in Buffer
      BY <2>1
    <3>3. t = Turned(data, udp_hdr, len)
      BY <2>3, <3>1
    <3>4. IsTurned(t, data, udp_hdr, len)
      BY <3>1, <3>2, <3>3, TurnedIs
    <3> QED
      BY <3>1, <3>4 DEF IsTurned
  <2>5. ASSUME NEW k \in 0 .. Size - 1, k # udp_hdr + 6, k # udp_hdr + 7 PROVE data'[k] = t[k]
    <3>1. k # (udp_hdr + 6) + 1
      BY <2>1, <2>5
    <3> QED
      BY <2>3, <2>5, <3>1 DEF Written
  <2>6. ASSUME NEW k \in 0 .. Size - 1, k \notin udp_hdr .. udp_hdr + 7 PROVE data'[k] = data[k]
    <3>1. k # udp_hdr + 6 /\ k # udp_hdr + 7
      BY <2>1, <2>6
    <3> QED
      BY <2>4, <2>5, <2>6, <3>1
  <2>7. EthPart'
    <3>1. ASSUME NEW k \in 0 .. 13 PROVE data'[k] = data[k]
      <4>1. k \in 0 .. Size - 1 /\ k \notin udp_hdr .. udp_hdr + 7
        BY <2>1
      <4> QED
        BY <2>6, <4>1
    <3> QED
      BY <1>3, <1>4, <2>2, <3>1 DEF EthPart
  <2>8. IpPart'
    <3>1. ASSUME NEW k \in 14 .. udp_hdr - 1 PROVE data'[k] = data[k]
      <4>1. k \in 0 .. Size - 1 /\ k \notin udp_hdr .. udp_hdr + 7
        BY <2>1
      <4> QED
        BY <2>6, <4>1
    <3>2. ~IpDone /\ ~IpDone'
      BY <1>3 DEF IpDone
    <3> QED
      BY <1>3, <1>4, <2>2, <3>1, <3>2 DEF IpPart
  <2>9. UdpPart'
    <3>1. UdpDone' /\ ~UdpDone
      BY <1>3 DEF UdpDone
    <3>2. ASSUME NEW k \in udp_hdr .. udp_hdr + 5 PROVE data'[k] = t[k]
      <4>1. k \in 0 .. Size - 1 /\ k # udp_hdr + 6 /\ k # udp_hdr + 7
        BY <2>1
      <4> QED
        BY <2>5, <4>1
    <3>3. ASSUME NEW k \in udp_hdr .. udp_hdr + 3 PROVE data[k] = old[k]
      <4>1. k \in udp_hdr .. udp_hdr + 7
        BY <2>1
      <4> QED
        BY <2>2, <3>1, <4>1 DEF UdpPart
    <3>4. /\ udp_hdr \in udp_hdr .. udp_hdr + 3 /\ udp_hdr + 1 \in udp_hdr .. udp_hdr + 3
          /\ udp_hdr + 2 \in udp_hdr .. udp_hdr + 3 /\ udp_hdr + 3 \in udp_hdr .. udp_hdr + 3
          /\ udp_hdr \in udp_hdr .. udp_hdr + 5 /\ udp_hdr + 1 \in udp_hdr .. udp_hdr + 5
          /\ udp_hdr + 2 \in udp_hdr .. udp_hdr + 5 /\ udp_hdr + 3 \in udp_hdr .. udp_hdr + 5
          /\ udp_hdr + 4 \in udp_hdr .. udp_hdr + 5 /\ udp_hdr + 5 \in udp_hdr .. udp_hdr + 5
      BY <2>1
    <3>5. /\ data'[udp_hdr] = old[udp_hdr + 2] /\ data'[udp_hdr + 1] = old[udp_hdr + 3]
          /\ data'[udp_hdr + 2] = old[udp_hdr] /\ data'[udp_hdr + 3] = old[udp_hdr + 1]
          /\ data'[udp_hdr + 4] = Host(cur_pos - udp_hdr)[1]
          /\ data'[udp_hdr + 5] = Host(cur_pos - udp_hdr)[2]
      BY <2>4, <3>2, <3>3, <3>4
    <3> QED
      BY <1>3, <1>4, <3>1, <3>5 DEF UdpPart
  <2>10. DnsPart'
    <3>1. ASSUME NEW k \in dns_hdr .. cur_pos - 1 PROVE data'[k] = data[k]
      <4>1. k \in 0 .. Size - 1 /\ k \notin udp_hdr .. udp_hdr + 7
        BY <2>1
      <4> QED
        BY <2>6, <4>1
    <3> QED
      BY <1>3, <1>4, <2>1, <2>2, <3>1, DnsPartStays
  <2> QED
    BY <2>7, <2>8, <2>9, <2>10 DEF Parts
<1> QED
  BY <1>1, <1>2, <1>3, <1>4, <1>5, PartsTurning

LEMMA PartsIp == PartsInv /\ update_ip_hdr => PartsInv'
<1>1. SUFFICES ASSUME PartsInv, update_ip_hdr PROVE PartsInv'
  OBVIOUS
<1>2. RoomInv /\ RoomInv'
  BY <1>1, IpRoom DEF PartsInv
<1>3. /\ pc = "update_ip_hdr" /\ pc' = "update_eth_hdr"
      /\ UNCHANGED <<udp_hdr, cur_pos, q_type, rr_res, query>>
  BY <1>1 DEF update_ip_hdr, asked
<1>4. old' = old /\ dns_hdr' = dns_hdr /\ Beyond /\ Replying /\ Replying'
  BY <1>3 DEF old, dns_hdr, Beyond, Replying
<1>5. ASSUME PlainHeader PROVE Parts'
  <2>1. /\ udp_hdr \in Nat /\ udp_hdr >= 34 /\ udp_hdr <= 74 /\ dns_hdr = udp_hdr + 8
        /\ cur_pos \in Nat /\ cur_pos <= Size /\ Size \in Nat /\ Size >= 82
        /\ data \in Buffer
    BY <1>1, <1>4, <1>5, PlainIs
  <2>2. EthPart /\ IpPart /\ UdpPart /\ DnsPart /\ dns_hdr + 33 <= cur_pos
    BY <1>1, <1>2, <1>4, <1>5 DEF PartsInv, Parts, RoomInv
  <2>3. /\ data'[16] = Host(cur_pos - 14)[1] /\ data'[17] = Host(cur_pos - 14)[2]
        /\ \A k \in 0 .. Size - 1 :
              k \notin {16, 17, 24, 25} =>
                  data'[k] = IF k \in 26 .. 29 THEN data[k + 4]
                             ELSE IF k \in 30 .. 33 THEN data[k - 4] ELSE data[k]
    BY <1>1, <1>2, IpStep
  <2>4. ASSUME NEW k \in 0 .. Size - 1, k <= 13 \/ k >= 34 PROVE data'[k] = data[k]
    <3>1. k \notin {16, 17, 24, 25} /\ k \notin 26 .. 29 /\ k \notin 30 .. 33
      BY <2>4
    <3> QED
      BY <2>3, <3>1
  <2>5. EthPart'
    <3>1. ASSUME NEW k \in 0 .. 13 PROVE data'[k] = data[k]
      <4>1. k \in 0 .. Size - 1 /\ k <= 13
        BY <2>1
      <4> QED
        BY <2>4, <4>1
    <3> QED
      BY <1>3, <1>4, <2>2, <3>1 DEF EthPart
  <2>6. IpPart'
    <3>1. IpDone' /\ ~IpDone
      BY <1>3 DEF IpDone
    <3>2. ASSUME NEW k \in 14 .. udp_hdr - 1 PROVE data[k] = old[k]
      BY <2>2, <3>1 DEF IpPart
    <3>3. ASSUME NEW k \in 14 .. udp_hdr - 1, k \notin {16, 17, 24, 25}
          PROVE  data'[k] = IF k \in 26 .. 29 THEN old[k + 4]
                            ELSE IF k \in 30 .. 33 THEN old[k - 4] ELSE old[k]
      <4>1. k \in 0 .. Size - 1
        BY <2>1
      <4>2. CASE k \in 26 .. 29
        <5>1. k + 4 \in 14 .. udp_hdr - 1
          BY <2>1, <4>2
        <5> QED
          BY <2>3, <3>2, <3>3, <4>1, <4>2, <5>1
      <4>3. CASE k \in 30 .. 33
        <5>1. k - 4 \in 14 .. udp_hdr - 1 /\ k \notin 26 .. 29
          BY <2>1, <4>3
        <5> QED
          BY <2>3, <3>2, <3>3, <4>1, <4>3, <5>1
      <4>4. CASE k \notin 26 .. 29 /\ k \notin 30 .. 33
        BY <2>3, <3>2, <3>3, <4>1, <4>4
      <4> QED
        BY <4>2, <4>3, <4>4
    <3> QED
      BY <1>3, <1>4, <2>3, <3>1, <3>3 DEF IpPart
  <2>7. UdpPart'
    <3>1. UdpDone' /\ UdpDone
      BY <1>3 DEF UdpDone
    <3>2. ASSUME NEW k \in udp_hdr .. udp_hdr + 7 PROVE data'[k] = data[k]
      <4>1. k \in 0 .. Size - 1 /\ k >= 34
        BY <2>1
      <4> QED
        BY <2>4, <4>1
    <3>3. /\ udp_hdr \in udp_hdr .. udp_hdr + 7 /\ udp_hdr + 1 \in udp_hdr .. udp_hdr + 7
          /\ udp_hdr + 2 \in udp_hdr .. udp_hdr + 7 /\ udp_hdr + 3 \in udp_hdr .. udp_hdr + 7
          /\ udp_hdr + 4 \in udp_hdr .. udp_hdr + 7 /\ udp_hdr + 5 \in udp_hdr .. udp_hdr + 7
      BY <2>1
    <3> QED
      BY <1>3, <1>4, <2>2, <3>1, <3>2, <3>3 DEF UdpPart
  <2>8. DnsPart'
    <3>1. ASSUME NEW k \in dns_hdr .. cur_pos - 1 PROVE data'[k] = data[k]
      <4>1. k \in 0 .. Size - 1 /\ k >= 34
        BY <2>1
      <4> QED
        BY <2>4, <4>1
    <3> QED
      BY <1>3, <1>4, <2>1, <2>2, <3>1, DnsPartStays
  <2> QED
    BY <2>5, <2>6, <2>7, <2>8 DEF Parts
<1> QED
  BY <1>1, <1>2, <1>3, <1>4, <1>5, PartsTurning

LEMMA PartsEth == PartsInv /\ update_eth_hdr => PartsInv'
<1>1. SUFFICES ASSUME PartsInv, update_eth_hdr PROVE PartsInv'
  OBVIOUS
<1>2. RoomInv /\ RoomInv'
  BY <1>1, EthRoom DEF PartsInv
<1>3. /\ pc = "update_eth_hdr" /\ pc' = "sent"
      /\ UNCHANGED <<udp_hdr, cur_pos, q_type, rr_res, query>>
  BY <1>1 DEF update_eth_hdr, asked
<1>4. old' = old /\ dns_hdr' = dns_hdr /\ Beyond /\ Replying /\ Replying'
  BY <1>3 DEF old, dns_hdr, Beyond, Replying
<1>5. ASSUME PlainHeader PROVE Parts'
  <2>1. /\ udp_hdr \in Nat /\ udp_hdr >= 34 /\ udp_hdr <= 74 /\ dns_hdr = udp_hdr + 8
        /\ cur_pos \in Nat /\ cur_pos <= Size /\ Size \in Nat /\ Size >= 82
        /\ data \in Buffer
    BY <1>1, <1>4, <1>5, PlainIs
  <2>2. EthPart /\ IpPart /\ UdpPart /\ DnsPart /\ dns_hdr + 33 <= cur_pos
    BY <1>1, <1>2, <1>4, <1>5 DEF PartsInv, Parts, RoomInv
  <2>3. \A k \in 0 .. Size - 1 :
            data'[k] = IF k \in 0 .. 5 THEN data[k + 6]
                       ELSE IF k \in 6 .. 11 THEN data[k - 6] ELSE data[k]
    BY <1>1, <1>2, EthStep
  <2>4. ASSUME NEW k \in 0 .. Size - 1, k >= 12 PROVE data'[k] = data[k]
    <3>1. k \notin 0 .. 5 /\ k \notin 6 .. 11
      BY <2>4
    <3> QED
      BY <2>3, <3>1
  <2>5. EthPart'
    <3>1. ASSUME NEW k \in 0 .. 13 PROVE data[k] = old[k]
      BY <1>3, <2>2 DEF EthPart
    <3>2. ASSUME NEW k \in 0 .. 13
          PROVE  data'[k] = IF k \in 0 .. 5 THEN old[k + 6]
                            ELSE IF k \in 6 .. 11 THEN old[k - 6] ELSE old[k]
      <4>1. k \in 0 .. Size - 1
        BY <2>1
      <4>2. CASE k \in 0 .. 5
        <5>1. k + 6 \in 0 .. 13
          BY <4>2
        <5> QED
          BY <2>3, <3>1, <4>1, <4>2, <5>1
      <4>3. CASE k \in 6 .. 11
        <5>1. k - 6 \in 0 .. 13 /\ k \notin 0 .. 5
          BY <4>3
        <5> QED
          BY <2>3, <3>1, <4>1, <4>3, <5>1
      <4>4. CASE k \notin 0 .. 5 /\ k \notin 6 .. 11
        BY <2>3, <3>1, <4>1, <4>4
      <4> QED
        BY <4>2, <4>3, <4>4
    <3> QED
      BY <1>3, <1>4, <3>2 DEF EthPart
  <2>6. IpPart'
    <3>1. IpDone' /\ IpDone
      BY <1>3 DEF IpDone
    <3>2. ASSUME NEW k \in 14 .. udp_hdr - 1 PROVE data'[k] = data[k]
      <4>1. k \in 0 .. Size - 1 /\ k >= 12
        BY <2>1
      <4> QED
        BY <2>4, <4>1
    <3>3. 16 \in 14 .. udp_hdr - 1 /\ 17 \in 14 .. udp_hdr - 1
      BY <2>1
    <3> QED
      BY <1>3, <1>4, <2>2, <3>1, <3>2, <3>3 DEF IpPart
  <2>7. UdpPart'
    <3>1. UdpDone' /\ UdpDone
      BY <1>3 DEF UdpDone
    <3>2. ASSUME NEW k \in udp_hdr .. udp_hdr + 7 PROVE data'[k] = data[k]
      <4>1. k \in 0 .. Size - 1 /\ k >= 12
        BY <2>1
      <4> QED
        BY <2>4, <4>1
    <3>3. /\ udp_hdr \in udp_hdr .. udp_hdr + 7 /\ udp_hdr + 1 \in udp_hdr .. udp_hdr + 7
          /\ udp_hdr + 2 \in udp_hdr .. udp_hdr + 7 /\ udp_hdr + 3 \in udp_hdr .. udp_hdr + 7
          /\ udp_hdr + 4 \in udp_hdr .. udp_hdr + 7 /\ udp_hdr + 5 \in udp_hdr .. udp_hdr + 7
      BY <2>1
    <3> QED
      BY <1>3, <1>4, <2>2, <3>1, <3>2, <3>3 DEF UdpPart
  <2>8. DnsPart'
    <3>1. ASSUME NEW k \in dns_hdr .. cur_pos - 1 PROVE data'[k] = data[k]
      <4>1. k \in 0 .. Size - 1 /\ k >= 12
        BY <2>1
      <4> QED
        BY <2>4, <4>1
    <3> QED
      BY <1>3, <1>4, <2>1, <2>2, <3>1, DnsPartStays
  <2> QED
    BY <2>5, <2>6, <2>7, <2>8 DEF Parts
<1> QED
  BY <1>1, <1>2, <1>3, <1>4, <1>5, PartsTurning

LEMMA PartsStep == PartsInv /\ [Next]_vars => PartsInv'
<1>1. PartsInv /\ UNCHANGED vars => PartsInv'
  <2>1. SUFFICES ASSUME PartsInv, UNCHANGED vars PROVE PartsInv'
    OBVIOUS
  <2>2. UNCHANGED <<pc, data, data_len, udp_hdr, cur_pos, scan_len, domain, q_type, rr_res, zero, query>>
    BY <2>1 DEF vars, asked
  <2>3. RoomInv'
    BY <2>1, RoomStep DEF PartsInv
  <2>4. Parts' = Parts
    BY <2>2 DEF Parts, EthPart, IpPart, UdpPart, DnsPart, old, dns_hdr, IpDone, UdpDone, Answer
  <2> QED
    BY <2>1, <2>2, <2>3, <2>4
       DEF PartsInv, Parsing, Asked, Replying, Beyond, old, Dns, PlainHeader
<1> QED
  BY <1>1, PartsParsePkt, PartsParseDns, PartsConsDns, PartsUdp, PartsIp, PartsEth DEF Next

LEMMA PartsAlways == Spec => []PartsInv
BY PartsInit, PartsStep, PTL DEF Spec

\* Fields are the same if their bytes are.
Fields(hdr, f, g, a, b, n) ==
    /\ a \in Nat /\ b \in Nat /\ n \in Nat
    /\ f.len = n /\ g.len = n /\ a = hdr + f.at /\ b = hdr + g.at

LEMMA SameField ==
    ASSUME NEW buf, NEW buf2, NEW hdr, NEW f, NEW g, NEW a, NEW b, NEW n,
           Fields(hdr, f, g, a, b, n), Alike(buf, buf2, a, b, n)
    PROVE  Get(buf, hdr, f) = Get(buf2, hdr, g)
<1> USE DEF Fields, Alike
<1>1. Get(buf, hdr, f) = [k \in 1 .. n |-> buf[a + k - 1]] /\ Get(buf2, hdr, g) = [k \in 1 .. n |-> buf2[b + k - 1]]
  BY Zenon DEF Get
<1>2. ASSUME NEW k \in 1 .. n PROVE buf[a + k - 1] = buf2[b + k - 1]
  <2>1. k - 1 \in 0 .. n - 1 /\ a + (k - 1) = a + k - 1 /\ b + (k - 1) = b + k - 1
    OBVIOUS
  <2> QED
    BY <2>1
<1> QED
  BY <1>1, <1>2, Zenon

LEMMA TheFields ==
    /\ dmac.at = 0 /\ dmac.len = 6 /\ smac.at = 6 /\ smac.len = 6
    /\ saddr.at = 12 /\ saddr.len = 4 /\ daddr.at = 16 /\ daddr.len = 4
    /\ sport.at = 0 /\ sport.len = 2 /\ dport.at = 2 /\ dport.len = 2
    /\ tot_len.at = 2 /\ tot_len.len = 2 /\ ip_check.at = 10 /\ ip_check.len = 2
    /\ udp_len.at = 4 /\ udp_len.len = 2 /\ udp_check.at = 6 /\ udp_check.len = 2
    /\ ip_hdr = 14
BY DEF dmac, smac, saddr, daddr, sport, dport, tot_len, ip_check, udp_len, udp_check, ip_hdr, ETH_HDR_LEN

LEMMA PartsGoBack == PartsInv => ReplyGoesBack
<1>1. SUFFICES ASSUME PartsInv, pc = "sent", PlainHeader
               PROVE  /\ \A p \in Pairs : /\ Get(data, p[1], p[2]) = Get(old, p[1], p[3])
                                          /\ Get(data, p[1], p[3]) = Get(old, p[1], p[2])
                      /\ \A k \in 0 .. dns_hdr - 1 :
                            \/ \E p \in Pairs : k \in Cells(p[1], p[2]) \union Cells(p[1], p[3])
                            \/ \E c \in Computed : k \in Cells(c[1], c[2])
                            \/ data[k] = old[k]
  BY DEF ReplyGoesBack, old
<1>2. Beyond /\ Replying /\ IpDone /\ UdpDone
  BY <1>1 DEF Beyond, Replying, IpDone, UdpDone
<1>3. /\ udp_hdr \in Nat /\ udp_hdr >= 34 /\ dns_hdr = udp_hdr + 8
      /\ cur_pos \in Nat /\ data \in Buffer /\ Size \in Nat /\ udp_hdr + 8 <= Size /\ Size >= 82
  BY <1>1, <1>2, PlainIs
<1>4. /\ \A k \in 0 .. 13 :
            data[k] = IF k \in 0 .. 5 THEN old[k + 6]
                      ELSE IF k \in 6 .. 11 THEN old[k - 6] ELSE old[k]
      /\ data[16] = Host(cur_pos - 14)[1] /\ data[17] = Host(cur_pos - 14)[2]
      /\ \A k \in 14 .. udp_hdr - 1 :
            k \notin {16, 17, 24, 25} =>
                data[k] = IF k \in 26 .. 29 THEN old[k + 4]
                          ELSE IF k \in 30 .. 33 THEN old[k - 4] ELSE old[k]
      /\ data[udp_hdr] = old[udp_hdr + 2] /\ data[udp_hdr + 1] = old[udp_hdr + 3]
      /\ data[udp_hdr + 2] = old[udp_hdr] /\ data[udp_hdr + 3] = old[udp_hdr + 1]
      /\ data[udp_hdr + 4] = Host(cur_pos - udp_hdr)[1]
      /\ data[udp_hdr + 5] = Host(cur_pos - udp_hdr)[2]
  BY <1>1, <1>2 DEF PartsInv, Parts, EthPart, IpPart, UdpPart
<1>5. ASSUME NEW p \in Pairs
      PROVE  p \in {<<0, dmac, smac>>, <<14, saddr, daddr>>, <<udp_hdr, sport, dport>>}
  BY TheFields DEF Pairs
<1>6. /\ Get(data, 0, dmac) = Get(old, 0, smac)
      /\ Get(data, 0, smac) = Get(old, 0, dmac)
  <2>1. ASSUME NEW k \in 0 .. 5 PROVE data[0 + k] = old[6 + k] /\ data[6 + k] = old[0 + k]
    <3>1. /\ 0 + k = k /\ k \in 0 .. 13 /\ k + 6 = 6 + k /\ 6 + k \in 0 .. 13
          /\ 6 + k \in 6 .. 11 /\ 6 + k \notin 0 .. 5 /\ (6 + k) - 6 = k
      OBVIOUS
    <3> QED
      BY <1>4, <3>1
  <2>2. PICK a, b, n : a = 0 /\ b = 6 /\ n = 6 /\ n - 1 = 5
    OBVIOUS
  <2>3. Alike(data, old, a, b, n) /\ Alike(data, old, b, a, n)
    BY <2>1, <2>2 DEF Alike
  <2>4. Fields(0, dmac, smac, a, b, n) /\ Fields(0, smac, dmac, b, a, n)
    BY <2>2, TheFields DEF Fields
  <2> QED
    BY <2>3, <2>4, SameField
<1>7. /\ Get(data, 14, saddr) = Get(old, 14, daddr)
      /\ Get(data, 14, daddr) = Get(old, 14, saddr)
  <2>1. ASSUME NEW k \in 0 .. 3 PROVE data[26 + k] = old[30 + k] /\ data[30 + k] = old[26 + k]
    <3>1. /\ 26 + k \in 14 .. udp_hdr - 1 /\ 26 + k \in 26 .. 29 /\ (26 + k) + 4 = 30 + k
          /\ 30 + k \in 14 .. udp_hdr - 1 /\ 30 + k \in 30 .. 33 /\ 30 + k \notin 26 .. 29
          /\ (30 + k) - 4 = 26 + k
          /\ 26 + k \notin {16, 17, 24, 25} /\ 30 + k \notin {16, 17, 24, 25}
      BY <1>3
    <3> QED
      BY <1>4, <3>1
  <2>2. PICK a, b, n : a = 26 /\ b = 30 /\ n = 4 /\ n - 1 = 3
    OBVIOUS
  <2>3. Alike(data, old, a, b, n) /\ Alike(data, old, b, a, n)
    BY <2>1, <2>2 DEF Alike
  <2>4. Fields(14, saddr, daddr, a, b, n) /\ Fields(14, daddr, saddr, b, a, n)
    BY <2>2, TheFields DEF Fields
  <2> QED
    BY <2>3, <2>4, SameField
<1>8. /\ Get(data, udp_hdr, sport) = Get(old, udp_hdr, dport)
      /\ Get(data, udp_hdr, dport) = Get(old, udp_hdr, sport)
  <2>1. PICK a, b, n : a = udp_hdr /\ b = udp_hdr + 2 /\ n = 2 /\ n - 1 = 1
    OBVIOUS
  <2>2. ASSUME NEW k \in 0 .. n - 1 PROVE data[a + k] = old[b + k] /\ data[b + k] = old[a + k]
    <3>1. CASE k = 0
      <4>1. a + k = udp_hdr /\ b + k = udp_hdr + 2
        BY <1>3, <2>1, <3>1
      <4> QED
        BY <1>4, <4>1
    <3>2. CASE k = 1
      <4>1. a + k = udp_hdr + 1 /\ b + k = udp_hdr + 3
        BY <1>3, <2>1, <3>2
      <4> QED
        BY <1>4, <4>1
    <3> QED
      BY <2>1, <3>1, <3>2
  <2>3. Fields(udp_hdr, sport, dport, a, b, n) /\ Fields(udp_hdr, dport, sport, b, a, n)
    BY <1>3, <2>1, TheFields DEF Fields
  <2>4. Alike(data, old, a, b, n) /\ Alike(data, old, b, a, n)
    BY <2>2 DEF Alike
  <2> QED
    BY <2>3, <2>4, SameField
<1>9. ASSUME NEW p \in Pairs
       PROVE  /\ Get(data, p[1], p[2]) = Get(old, p[1], p[3])
              /\ Get(data, p[1], p[3]) = Get(old, p[1], p[2])
  BY <1>5, <1>6, <1>7, <1>8
<1>10. /\ <<0, dmac, smac>> \in Pairs /\ <<ip_hdr, saddr, daddr>> \in Pairs
       /\ <<udp_hdr, sport, dport>> \in Pairs
       /\ <<ip_hdr, tot_len>> \in Computed /\ <<ip_hdr, ip_check>> \in Computed
       /\ <<udp_hdr, udp_len>> \in Computed /\ <<udp_hdr, udp_check>> \in Computed
  BY DEF Pairs, Computed
<1>11. /\ Cells(0, dmac) = 0 .. 5 /\ Cells(0, smac) = 6 .. 11
       /\ Cells(ip_hdr, saddr) = 26 .. 29 /\ Cells(ip_hdr, daddr) = 30 .. 33
       /\ Cells(udp_hdr, sport) = udp_hdr .. udp_hdr + 1
       /\ Cells(udp_hdr, dport) = udp_hdr + 2 .. udp_hdr + 3
       /\ Cells(ip_hdr, tot_len) = 16 .. 17 /\ Cells(ip_hdr, ip_check) = 24 .. 25
       /\ Cells(udp_hdr, udp_len) = udp_hdr + 4 .. udp_hdr + 5
       /\ Cells(udp_hdr, udp_check) = udp_hdr + 6 .. udp_hdr + 7
  BY <1>3, TheFields DEF Cells
<1>12. ASSUME NEW k \in 0 .. dns_hdr - 1
       PROVE  \/ \E p \in Pairs : k \in Cells(p[1], p[2]) \union Cells(p[1], p[3])
              \/ \E c \in Computed : k \in Cells(c[1], c[2])
              \/ data[k] = old[k]
  <2>1. CASE k \in 0 .. 11
    <3>1. k \in Cells(0, dmac) \union Cells(0, smac)
      BY <1>11, <2>1
    <3> QED
      BY <1>10, <3>1
  <2>2. CASE k \in 12 .. 13
    <3>1. k \in 0 .. 13 /\ k \notin 0 .. 5 /\ k \notin 6 .. 11
      BY <2>2
    <3> QED
      BY <1>4, <3>1
  <2>3. CASE k \in 14 .. udp_hdr - 1
    <3>1. CASE k \in 16 .. 17
      BY <1>10, <1>11, <3>1
    <3>2. CASE k \in 24 .. 25
      BY <1>10, <1>11, <3>2
    <3>3. CASE k \in 26 .. 33
      <4>1. k \in Cells(ip_hdr, saddr) \union Cells(ip_hdr, daddr)
        BY <1>11, <3>3
      <4> QED
        BY <1>10, <4>1
    <3>4. CASE k \notin 16 .. 17 /\ k \notin 24 .. 25 /\ k \notin 26 .. 33
      <4>1. k \notin {16, 17, 24, 25} /\ k \notin 26 .. 29 /\ k \notin 30 .. 33
        BY <3>4
      <4> QED
        BY <1>4, <2>3, <4>1
    <3> QED
      BY <3>1, <3>2, <3>3, <3>4
  <2>4. CASE k \in udp_hdr .. udp_hdr + 3
    <3>1. k \in Cells(udp_hdr, sport) \union Cells(udp_hdr, dport)
      BY <1>3, <1>11, <2>4
    <3> QED
      BY <1>10, <3>1
  <2>5. CASE k \in udp_hdr + 4 .. udp_hdr + 5
    BY <1>10, <1>11, <2>5
  <2>6. CASE k \in udp_hdr + 6 .. udp_hdr + 7
    BY <1>10, <1>11, <2>6
  <2> QED
    BY <1>3, <2>1, <2>2, <2>3, <2>4, <2>5, <2>6
<1> QED
  BY <1>9, <1>12

\* cons_pkt(), for every frame with a whole IP header and every answer: the addresses
\* and ports of all three layers have changed places, and no other byte of the headers
\* differs from the frame's but those of the two lengths and the two checksums.
THEOREM GoesBack == Spec => []ReplyGoesBack
BY PartsAlways, PartsGoBack, PTL
-----------------------------------------------------------------------------
(* The checksum of UDP                                                       *)

\* A stretch whose parts of four have changed places
LEMMA SwappedSum ==
    ASSUME NEW buf \in Buffer, NEW buf2 \in Buffer,
           \A k \in 26 .. 29 : buf2[k] = buf[k + 4], \A k \in 30 .. 33 : buf2[k] = buf[k - 4]
    PROVE  ByteSum(buf2, 26, 8) = ByteSum(buf, 26, 8)
<1>1. Size \in Nat /\ Size >= 82
  BY SizeType
<1>2. PICK a \in Nat, b \in Nat, n \in Nat, m \in Nat : a = 26 /\ b = 30 /\ n = 4 /\ m = 8
  OBVIOUS
<1>3. Cut(a, m, n, b, n)
  BY <1>2 DEF Cut
<1>4. /\ Holds(buf, a, m) /\ Holds(buf, a, n) /\ Holds(buf, b, n)
      /\ Holds(buf2, a, m)
  BY <1>1, <1>2 DEF Holds, Buffer
<1>5. /\ ByteSum(buf, a, m) = ByteSum(buf, a, n) + ByteSum(buf, b, n)
      /\ ByteSum(buf2, a, m) = ByteSum(buf2, a, n) + ByteSum(buf2, b, n)
  BY <1>3, <1>4, ByteSumSplit
<1>6. ByteSum(buf, b, n) = ByteSum(buf2, a, n)
  <2>1. ASSUME NEW k \in 0 .. n - 1 PROVE buf[b + k] = buf2[a + k]
    <3>1. a + k \in 26 .. 29 /\ (a + k) + 4 = b + k
      BY <1>2
    <3> QED
      BY <3>1
  <2>2. Alike(buf, buf2, b, a, n)
    BY <2>1 DEF Alike
  <2> QED
    BY <1>4, <2>2, ByteSumSame
<1>7. ByteSum(buf, a, n) = ByteSum(buf2, b, n)
  <2>1. ASSUME NEW k \in 0 .. n - 1 PROVE buf[a + k] = buf2[b + k]
    <3>1. b + k \in 30 .. 33 /\ (b + k) - 4 = a + k
      BY <1>2
    <3> QED
      BY <3>1
  <2>2. Alike(buf, buf2, a, b, n)
    BY <2>1 DEF Alike
  <2> QED
    BY <1>4, <2>2, ByteSumSame
<1>8. ByteSum(buf, a, n) \in Nat /\ ByteSum(buf, b, n) \in Nat
  BY <1>4, ByteSumBound
<1>9. ByteSum(buf2, a, m) = ByteSum(buf, a, m)
  <2>1. PICK x \in Nat, y \in Nat : x = ByteSum(buf, a, n) /\ y = ByteSum(buf, b, n)
    BY <1>8
  <2>2. x + y = y + x
    OBVIOUS
  <2>3. ByteSum(buf, a, m) = x + y /\ ByteSum(buf2, a, m) = y + x
    BY <1>5, <1>6, <1>7, <2>1, Zenon
  <2> QED
    BY <2>2, <2>3, Zenon
<1> QED
  BY <1>2, <1>9, Zenon

\* Two bytes that are written over two zeros at an even place add what they hold.
LEMMA FilledSum ==
    ASSUME NEW c \in Buffer, NEW d \in Buffer, NEW at \in Nat, NEW len \in Nat, NEW p,
           p = at + 6, len >= 8, at + len <= Size, NEW x \in Byte, NEW y \in Byte,
           c[p] = 0, c[p + 1] = 0, Written(d, c, p, x, y)
    PROVE  ByteSum(d, at, len) = ByteSum(c, at, len) + (x + 256 * y)
<1>1. Size \in Nat /\ p \in Nat
  BY SizeType
<1>2. PICK six \in Nat, rest \in Nat, two \in Nat, behind \in Nat, M \in Nat :
          /\ six = 6 /\ rest = len - 6 /\ two = 2 /\ behind = at + 8 /\ M = len - 8
  OBVIOUS
<1>3. Cut(at, len, six, p, rest) /\ Cut(p, rest, two, behind, M)
  BY <1>2 DEF Cut
<1>4. /\ Holds(c, at, len) /\ Holds(d, at, len) /\ Holds(c, p, rest) /\ Holds(d, p, rest)
      /\ Holds(c, at, six) /\ Holds(c, p, two) /\ Holds(d, p, two) /\ Holds(c, behind, M)
  BY <1>1, <1>2 DEF Holds, Buffer
<1>5. /\ ByteSum(c, at, len) = ByteSum(c, at, six) + ByteSum(c, p, rest)
      /\ ByteSum(d, at, len) = ByteSum(d, at, six) + ByteSum(d, p, rest)
      /\ ByteSum(c, p, rest) = ByteSum(c, p, two) + ByteSum(c, behind, M)
      /\ ByteSum(d, p, rest) = ByteSum(d, p, two) + ByteSum(d, behind, M)
  BY <1>1, <1>3, <1>4, ByteSumSplit
<1>6. ByteSum(c, at, six) = ByteSum(d, at, six)
  <2>1. ASSUME NEW k \in 0 .. six - 1 PROVE c[at + k] = d[at + k]
    <3>1. at + k \in 0 .. Size - 1 /\ at + k # p /\ at + k # p + 1
      BY <1>1, <1>2
    <3> QED
      BY <3>1 DEF Written
  <2>2. Alike(c, d, at, at, six)
    BY <2>1 DEF Alike
  <2> QED
    BY <1>4, <2>2, ByteSumSame
<1>7. ByteSum(c, behind, M) = ByteSum(d, behind, M)
  <2>1. ASSUME NEW k \in 0 .. M - 1 PROVE c[behind + k] = d[behind + k]
    <3>1. behind + k \in 0 .. Size - 1 /\ behind + k # p /\ behind + k # p + 1
      BY <1>1, <1>2
    <3> QED
      BY <3>1 DEF Written
  <2>2. Alike(c, d, behind, behind, M)
    BY <2>1 DEF Alike
  <2> QED
    BY <1>4, <2>2, ByteSumSame
<1>8. ASSUME NEW buf, Holds(buf, p, 2) PROVE ByteSum(buf, p, 2) = buf[p] + 256 * buf[p + 1]
  BY <1>1, <1>8, WordIs
<1>9. ByteSum(c, p, two) = 0
  <2>1. ByteSum(c, p, two) = c[p] + 256 * c[p + 1]
    BY <1>2, <1>4, <1>8
  <2> QED
    BY <2>1
<1>10. ByteSum(d, p, two) = x + 256 * y
  <2>1. ByteSum(d, p, two) = d[p] + 256 * d[p + 1]
    BY <1>2, <1>4, <1>8
  <2> QED
    BY <2>1 DEF Written
<1>11. ByteSum(c, at, six) \in Nat /\ ByteSum(c, behind, M) \in Nat
  BY <1>4, ByteSumBound
<1>12. PICK u \in Nat, v \in Nat, w \in Nat : u = ByteSum(c, at, six) /\ v = ByteSum(c, behind, M) /\ w = x + 256 * y
  BY <1>11 DEF Byte
<1>13. u + (w + v) = (u + (0 + v)) + w
  OBVIOUS
<1>14. ByteSum(d, at, len) = u + (w + v)
  BY <1>5, <1>6, <1>7, <1>10, <1>12, Zenon
<1>15. ByteSum(c, at, len) = u + (0 + v)
  BY <1>5, <1>9, <1>12, Zenon
<1> QED
  BY <1>12, <1>13, <1>14, <1>15

\* What a receiver adds up
Received ==
    ByteSum(data, 26, 8) + 256 * 17 + ByteSum(data, udp_hdr + 4, 2)
        + ByteSum(data, udp_hdr, cur_pos - udp_hdr)

\* With the byte that nobody sets it is a multiple.
SumInv == PartsInv /\ (UdpDone /\ PlainHeader => Verifies(Received + zero))

\* A number of 16 bits is its two bytes.
LEMMA WordOfBytes ==
    ASSUME NEW w \in Word
    PROVE  w = Host(w)[1] + 256 * Host(w)[2]
<1>1. Host(w)[1] = w % 256 /\ Host(w)[2] = (w \div 256) % 256
  BY HostBytes DEF Word
<1>2. w = (w % 256) + 256 * ((w \div 256) % 256)
  BY SMT DEF Word, Base
<1> QED
  BY <1>1, <1>2

LEMMA SumUdp == SumInv /\ update_udp_hdr => SumInv'
<1>1. SUFFICES ASSUME SumInv, update_udp_hdr PROVE SumInv'
  OBVIOUS
<1>2. PartsInv /\ PartsInv' /\ RoomInv
  BY <1>1, PartsUdp DEF SumInv, PartsInv
<1>3. SUFFICES ASSUME PlainHeader' PROVE Verifies(Received' + zero')
  BY <1>2 DEF SumInv
<1>4. /\ pc = "update_udp_hdr" /\ pc' = "update_ip_hdr" /\ zero' \in Byte
      /\ UNCHANGED <<udp_hdr, cur_pos, query>>
  BY <1>1, AnswersType DEF update_udp_hdr
<1>5. PlainHeader /\ Beyond /\ Replying /\ ~UdpDone /\ ~IpDone
  BY <1>3, <1>4 DEF PlainHeader, Beyond, Replying, UdpDone, IpDone
<1>6. /\ udp_hdr \in Nat /\ udp_hdr >= 34 /\ udp_hdr <= 74
      /\ cur_pos \in Nat /\ cur_pos <= Size /\ udp_hdr + 41 <= cur_pos
      /\ Size \in Nat /\ Size >= 82 /\ data \in Buffer
  BY <1>2, <1>5, PlainIs DEF RoomInv
<1>7. data[23] = 17
  <2>1. 23 \in 14 .. udp_hdr - 1
    BY <1>6
  <2>2. data[23] = old[23]
    BY <1>2, <1>5, <2>1 DEF PartsInv, Parts, IpPart
  <2> QED
    BY <1>2, <1>5, <2>2 DEF PartsInv
<1>8. PICK t \in Buffer, c \in Buffer, sum \in Sum32 :
          /\ t = Turned(data, udp_hdr, cur_pos - udp_hdr)
          /\ Written(c, t, udp_hdr + 6, 0, 0)
          /\ sum = ByteSum(t, 26, 8) + zero' + 256 * t[23] + ByteSum(t, udp_hdr + 4, 2)
                       + ByteSum(c, udp_hdr, cur_pos - udp_hdr)
          /\ Complement(sum) \in Word
          /\ Written(data', c, udp_hdr + 6, Host(Complement(sum))[1], Host(Complement(sum))[2])
  BY <1>1, <1>2, UdpStep
<1>9. PICK len \in Nat, p \in Nat, p4 \in Nat :
          /\ len = cur_pos - udp_hdr /\ len >= 8 /\ udp_hdr + len <= Size
          /\ p = udp_hdr + 6 /\ p4 = udp_hdr + 4
  BY <1>6
<1>10. PICK w \in Word, x \in Byte, y \in Byte :
           w = Complement(sum) /\ x = Host(w)[1] /\ y = Host(w)[2] /\ w = x + 256 * y
  <2>1. PICK w \in Word : w = Complement(sum)
    BY <1>8
  <2>2. w \in Int
    BY DEF Word
  <2>3. Host(w)[1] \in Byte /\ Host(w)[2] \in Byte
    BY <2>2, HostBytes
  <2>4. w = Host(w)[1] + 256 * Host(w)[2]
    BY WordOfBytes
  <2> QED
    BY <2>1, <2>3, <2>4
<1>11. t[23] = 17
  <2>1. IsTurned(t, data, udp_hdr, len)
    <3>1. udp_hdr + 8 <= Size /\ len \in Int
      BY <1>6, <1>9
    <3>2. t = Turned(data, udp_hdr, len)
      BY <1>8, <1>9
    <3> QED
      BY <1>6, <3>1, <3>2, TurnedIs
  <2>2. 23 \in 0 .. Size - 1 /\ 23 \notin udp_hdr .. udp_hdr + 7
    BY <1>6
  <2>3. t[23] = data[23]
    BY <2>1, <2>2 DEF IsTurned
  <2> QED
    BY <1>7, <2>3
<1>12. Written(c, t, p, 0, 0) /\ Written(data', c, p, x, y) /\ data' \in Buffer
  BY <1>8, <1>9, <1>10 DEF Written
<1>13. ByteSum(data', udp_hdr, len) = ByteSum(c, udp_hdr, len) + w
  <2>1. c[p] = 0 /\ c[p + 1] = 0
    BY <1>12 DEF Written
  <2>2. ByteSum(data', udp_hdr, len) = ByteSum(c, udp_hdr, len) + (x + 256 * y)
    BY <1>6, <1>9, <1>12, <2>1, FilledSum
  <2> QED
    BY <1>10, <2>2, Zenon
<1>14. ASSUME NEW k \in 0 .. Size - 1, k # p, k # p + 1 PROVE data'[k] = t[k]
  BY <1>12, <1>14 DEF Written
<1>15. ByteSum(t, 26, 8) = ByteSum(data', 26, 8)
  <2>1. Holds(t, 26, 8)
    BY <1>6 DEF Holds, Buffer
  <2>2. ASSUME NEW k \in 0 .. 8 - 1 PROVE t[26 + k] = data'[26 + k]
    <3>1. 26 + k \in 0 .. Size - 1 /\ 26 + k # p /\ 26 + k # p + 1
      BY <1>6, <1>9
    <3> QED
      BY <1>14, <3>1
  <2>3. Alike(t, data', 26, 26, 8)
    BY <2>2 DEF Alike
  <2> QED
    BY <2>1, <2>3, ByteSumSame
<1>16. ByteSum(t, p4, 2) = ByteSum(data', p4, 2)
  <2>1. Holds(t, p4, 2)
    BY <1>6, <1>9 DEF Holds, Buffer
  <2>2. ASSUME NEW k \in 0 .. 2 - 1 PROVE t[p4 + k] = data'[p4 + k]
    <3>1. p4 + k \in 0 .. Size - 1 /\ p4 + k # p /\ p4 + k # p + 1
      BY <1>6, <1>9
    <3> QED
      BY <1>14, <3>1
  <2>3. Alike(t, data', p4, p4, 2)
    BY <2>2 DEF Alike
  <2> QED
    BY <2>1, <2>3, ByteSumSame
<1>17. PICK A \in Nat, B \in Nat, C \in Nat :
           A = ByteSum(data', 26, 8) /\ B = ByteSum(data', p4, 2) /\ C = ByteSum(c, udp_hdr, len)
  <2>1. Holds(data', 26, 8) /\ Holds(data', p4, 2) /\ Holds(c, udp_hdr, len)
    BY <1>6, <1>9, <1>12 DEF Holds, Buffer
  <2> QED
    BY <1>6, <2>1, ByteSumBound
<1>18. sum = A + zero' + 256 * 17 + B + C
  <2>1. sum = ByteSum(t, 26, 8) + zero' + 256 * t[23] + ByteSum(t, p4, 2) + ByteSum(c, udp_hdr, len)
    BY <1>8, <1>9
  <2> QED
    BY <1>11, <1>15, <1>16, <1>17, <2>1
<1>19. Received' = A + 256 * 17 + B + (C + w)
  <2>1. Received' = ByteSum(data', 26, 8) + 256 * 17 + ByteSum(data', p4, 2) + ByteSum(data', udp_hdr, len)
    BY <1>4, <1>9 DEF Received
  <2> QED
    BY <1>13, <1>17, <2>1
<1>20. Received' + zero' = sum + w
  BY <1>4, <1>18, <1>19 DEF Word, Byte
<1>21. Verifies(sum + w)
  BY <1>10, ChecksumCompletes
<1> QED
  BY <1>20, <1>21, Zenon

\* Steps that keep what is added up
LEMMA SumStays ==
    ASSUME SumInv, PartsInv', UdpDone, Replying, UNCHANGED <<udp_hdr, cur_pos, query, zero>>,
           PlainHeader => /\ ByteSum(data', 26, 8) = ByteSum(data, 26, 8)
                          /\ data' \in Buffer
                          /\ \A k \in 34 .. Size - 1 : data'[k] = data[k]
    PROVE  SumInv'
<1>1. SUFFICES ASSUME PlainHeader' PROVE Verifies(Received' + zero')
  BY DEF SumInv
<1>2. PlainHeader /\ Beyond
  BY <1>1 DEF PlainHeader, Beyond
<1>3. PartsInv
  BY DEF SumInv
<1>4. /\ udp_hdr \in Nat /\ udp_hdr >= 34
      /\ cur_pos \in Nat /\ cur_pos <= Size /\ udp_hdr + 41 <= cur_pos
      /\ Size \in Nat /\ data \in Buffer
  BY <1>2, <1>3, PlainIs DEF PartsInv, RoomInv
<1>5. PICK len \in Nat, p4 \in Nat : len = cur_pos - udp_hdr /\ p4 = udp_hdr + 4
  BY <1>4
<1>6. ByteSum(data, p4, 2) = ByteSum(data', p4, 2)
  <2>1. Holds(data, p4, 2)
    BY <1>4, <1>5 DEF Holds, Buffer
  <2>2. ASSUME NEW k \in 0 .. 2 - 1 PROVE data[p4 + k] = data'[p4 + k]
    <3>1. p4 + k \in 34 .. Size - 1
      BY <1>4, <1>5
    <3> QED
      BY <1>2, <3>1
  <2>3. Alike(data, data', p4, p4, 2)
    BY <2>2 DEF Alike
  <2> QED
    BY <2>1, <2>3, ByteSumSame
<1>7. ByteSum(data, udp_hdr, len) = ByteSum(data', udp_hdr, len)
  <2>1. Holds(data, udp_hdr, len)
    BY <1>4, <1>5 DEF Holds, Buffer
  <2>2. ASSUME NEW k \in 0 .. len - 1 PROVE data[udp_hdr + k] = data'[udp_hdr + k]
    <3>1. udp_hdr + k \in 34 .. Size - 1
      BY <1>4, <1>5
    <3> QED
      BY <1>2, <3>1
  <2>3. Alike(data, data', udp_hdr, udp_hdr, len)
    BY <2>2 DEF Alike
  <2> QED
    BY <1>4, <2>1, <2>3, ByteSumSame
<1>8. Received' = ByteSum(data', 26, 8) + 256 * 17 + ByteSum(data', p4, 2) + ByteSum(data', udp_hdr, len)
  BY <1>5 DEF Received
<1>9. Received = ByteSum(data, 26, 8) + 256 * 17 + ByteSum(data, p4, 2) + ByteSum(data, udp_hdr, len)
  BY <1>5 DEF Received
<1>10. ByteSum(data', 26, 8) = ByteSum(data, 26, 8)
  BY <1>2
<1>11. Received' = Received /\ zero' = zero
  BY <1>6, <1>7, <1>8, <1>9, <1>10
<1>12. Verifies(Received + zero)
  BY <1>2 DEF SumInv
<1> QED
  BY <1>11, <1>12, Zenon

LEMMA SumIp == SumInv /\ update_ip_hdr => SumInv'
<1>1. SUFFICES ASSUME SumInv, update_ip_hdr PROVE SumInv'
  OBVIOUS
<1>2. PartsInv /\ PartsInv' /\ RoomInv
  BY <1>1, PartsIp DEF SumInv, PartsInv
<1>3. /\ pc = "update_ip_hdr" /\ UdpDone /\ Replying
      /\ UNCHANGED <<udp_hdr, cur_pos, query, zero>>
  BY <1>1 DEF update_ip_hdr, UdpDone, Replying
<1>4. /\ data' \in Buffer
      /\ \A k \in 0 .. Size - 1 :
            k \notin {16, 17, 24, 25} =>
                data'[k] = IF k \in 26 .. 29 THEN data[k + 4]
                           ELSE IF k \in 30 .. 33 THEN data[k - 4] ELSE data[k]
  BY <1>1, <1>2, IpStep
<1>5. data \in Buffer /\ Size \in Nat /\ Size >= 82
  BY <1>2, Numbers, SizeType
<1>6. ASSUME NEW k \in 26 .. 29 PROVE data'[k] = data[k + 4]
  <2>1. k \in 0 .. Size - 1 /\ k \notin {16, 17, 24, 25}
    BY <1>5
  <2> QED
    BY <1>4, <2>1
<1>7. ASSUME NEW k \in 30 .. 33 PROVE data'[k] = data[k - 4]
  <2>1. k \in 0 .. Size - 1 /\ k \notin {16, 17, 24, 25} /\ k \notin 26 .. 29
    BY <1>5
  <2> QED
    BY <1>4, <2>1
<1>8. ASSUME NEW k \in 34 .. Size - 1 PROVE data'[k] = data[k]
  <2>1. k \in 0 .. Size - 1 /\ k \notin {16, 17, 24, 25} /\ k \notin 26 .. 29 /\ k \notin 30 .. 33
    BY <1>5
  <2> QED
    BY <1>4, <2>1
<1>9. ByteSum(data', 26, 8) = ByteSum(data, 26, 8)
  BY <1>4, <1>5, <1>6, <1>7, SwappedSum
<1> QED
  BY <1>1, <1>2, <1>3, <1>4, <1>8, <1>9, SumStays

LEMMA SumEth == SumInv /\ update_eth_hdr => SumInv'
<1>1. SUFFICES ASSUME SumInv, update_eth_hdr PROVE SumInv'
  OBVIOUS
<1>2. PartsInv /\ PartsInv' /\ RoomInv
  BY <1>1, PartsEth DEF SumInv, PartsInv
<1>3. /\ pc = "update_eth_hdr" /\ UdpDone /\ Replying
      /\ UNCHANGED <<udp_hdr, cur_pos, query, zero>>
  BY <1>1 DEF update_eth_hdr, UdpDone, Replying
<1>4. /\ data' \in Buffer
      /\ \A k \in 0 .. Size - 1 :
            data'[k] = IF k \in 0 .. 5 THEN data[k + 6]
                       ELSE IF k \in 6 .. 11 THEN data[k - 6] ELSE data[k]
  BY <1>1, <1>2, EthStep
<1>5. data \in Buffer /\ Size \in Nat /\ Size >= 82
  BY <1>2, Numbers, SizeType
<1>6. ASSUME NEW k \in 26 .. Size - 1 PROVE data'[k] = data[k]
  <2>1. k \in 0 .. Size - 1 /\ k \notin 0 .. 5 /\ k \notin 6 .. 11
    BY <1>5
  <2> QED
    BY <1>4, <2>1
<1>7. ASSUME NEW k \in 34 .. Size - 1 PROVE data'[k] = data[k]
  <2>1. k \in 26 .. Size - 1
    BY <1>5
  <2> QED
    BY <1>6, <2>1
<1>8. ByteSum(data, 26, 8) = ByteSum(data', 26, 8)
  <2>1. Holds(data, 26, 8)
    BY <1>5 DEF Holds, Buffer
  <2>2. ASSUME NEW k \in 0 .. 8 - 1 PROVE data[26 + k] = data'[26 + k]
    <3>1. 26 + k \in 26 .. Size - 1
      BY <1>5
    <3> QED
      BY <1>6, <3>1
  <2>3. Alike(data, data', 26, 26, 8)
    BY <2>2 DEF Alike
  <2> QED
    BY <2>1, <2>3, ByteSumSame
<1> QED
  BY <1>1, <1>2, <1>3, <1>4, <1>7, <1>8, SumStays

LEMMA SumAlways == Spec => []SumInv
<1>1. Init => SumInv
  BY PartsInit DEF SumInv, UdpDone, Init
<1>2. SumInv /\ [Next]_vars => SumInv'
  <2>1. SUFFICES ASSUME SumInv, [Next]_vars PROVE SumInv'
    OBVIOUS
  <2>2. PartsInv'
    BY <2>1, PartsStep DEF SumInv
  <2>3. CASE UNCHANGED vars
    <3>1. UNCHANGED <<pc, data, udp_hdr, cur_pos, zero, query>>
      BY <2>3 DEF vars
    <3>2. Received' = Received
      BY <3>1 DEF Received
    <3> QED
      BY <2>1, <2>2, <3>1, <3>2 DEF SumInv, UdpDone, PlainHeader
  <2>4. CASE parse_pkt
    BY <2>2, <2>4 DEF parse_pkt, SumInv, UdpDone
  <2>5. CASE parse_dns
    BY <2>2, <2>5 DEF parse_dns, SumInv, UdpDone
  <2>6. CASE get_query_domain
    <3>1. pc' \in {"get_query_domain", "query_zone", "dropped", "dead"}
      BY <2>6, TurnIs DEF Leave, End, Refuse, Copy, read_type
    <3> QED
      BY <2>2, <3>1 DEF SumInv, UdpDone
  <2>7. CASE query_zone
    BY <2>2, <2>7 DEF query_zone, SumInv, UdpDone
  <2>8. CASE cons_dns
    <3>1. RoomInv
      BY <2>1 DEF SumInv, PartsInv
    <3>2. pc' \in {"update_udp_hdr", "overrun"}
      BY <2>8, <3>1, AnswerWritten
    <3> QED
      BY <2>2, <3>2 DEF SumInv, UdpDone
  <2> QED
    BY <2>1, <2>3, <2>4, <2>5, <2>6, <2>7, <2>8, SumUdp, SumIp, SumEth DEF Next
<1> QED
  BY <1>1, <1>2, PTL DEF Spec

\* A number that a byte completes to a multiple is one itself only if that byte is 0.
LEMMA OnlyZero ==
    ASSUME NEW r \in Nat, NEW z \in Byte, Verifies(r + z)
    PROVE  r % 65535 = 0 <=> z = 0
<1>1. PICK k \in Nat : r + z = Ones * k
  BY DEF Verifies
<1>2. z \in Nat /\ z <= 255 /\ r = 65535 * k - z
  BY <1>1 DEF Byte, Ones
<1>3. ASSUME NEW n \in Nat, NEW x \in Nat, x <= 255
      PROVE  (65535 * n - x) % 65535 = 0 <=> x = 0
  BY <1>3, SMT
<1> QED
  BY <1>2, <1>3

LEMMA SumVerifies == SumInv => UdpVerifies
<1>1. SUFFICES ASSUME SumInv, UdpDone, PlainHeader
               PROVE  (ByteSum(data, ip_hdr + saddr.at, 8) + 256 * 17
                         + ByteSum(data, udp_hdr + udp_len.at, 2)
                         + ByteSum(data, udp_hdr, data_len - udp_hdr)) % 65535 = 0 <=> zero = 0
  BY DEF UdpVerifies, UdpDone
<1>2. PartsInv /\ RoomInv /\ Beyond /\ Replying
  BY <1>1 DEF SumInv, PartsInv, Beyond, Replying, UdpDone
<1>3. /\ udp_hdr \in Nat /\ udp_hdr >= 34
      /\ cur_pos \in Nat /\ cur_pos <= Size /\ udp_hdr + 41 <= cur_pos
      /\ Size \in Nat /\ Size >= 82 /\ data \in Buffer
  BY <1>1, <1>2, PlainIs DEF RoomInv
<1>4. data_len = cur_pos /\ zero \in Byte
  BY <1>2 DEF RoomInv, TypeOK
<1>5. ip_hdr + saddr.at = 26 /\ udp_len.at = 4
  BY TheFields
<1>6. PICK len \in Nat, p4 \in Nat : len = cur_pos - udp_hdr /\ p4 = udp_hdr + 4
  BY <1>3
<1>7. PICK A \in Nat, B \in Nat, C \in Nat :
          A = ByteSum(data, 26, 8) /\ B = ByteSum(data, p4, 2) /\ C = ByteSum(data, udp_hdr, len)
  <2>1. Holds(data, 26, 8) /\ Holds(data, p4, 2) /\ Holds(data, udp_hdr, len)
    BY <1>3, <1>6 DEF Holds, Buffer
  <2> QED
    BY <1>3, <2>1, ByteSumBound
<1>8. PICK r \in Nat : r = A + 256 * 17 + B + C
  OBVIOUS
<1>9. Received = r
  BY <1>6, <1>7, <1>8 DEF Received
<1>10. Verifies(r + zero)
  <2>1. Verifies(Received + zero)
    BY <1>1 DEF SumInv
  <2> QED
    BY <1>9, <2>1
<1>11. r % 65535 = 0 <=> zero = 0
  BY <1>4, <1>10, OnlyZero
<1>12. ByteSum(data, ip_hdr + saddr.at, 8) + 256 * 17 + ByteSum(data, udp_hdr + udp_len.at, 2)
           + ByteSum(data, udp_hdr, data_len - udp_hdr) = r
  BY <1>4, <1>5, <1>6, <1>7, <1>8
<1> QED
  BY <1>11, <1>12

\* update_udp_checksum(), for replies of every length and content: from the moment it
\* is stored the checksum of UDP verifies at a receiver if and only if the byte of
\* the pseudo header that nobody sets happened to be 0, and the swap of the addresses
\* that comes later does not disturb it.
THEOREM UdpSumVerifies == Spec => []UdpVerifies
BY SumAlways, SumVerifies, PTL

-----------------------------------------------------------------------------
(* What joined sequences hold, and where                                     *)

\* Joining the first n sequences continues what joining the first n - 1 gives, by the
\* n-th one.
LEMMA JoiningIs ==
    ASSUME NEW S, NEW ss \in Seq(Seq(S))
    PROVE  /\ Joining(ss) \in [0 .. Len(ss) -> Seq(S)]
           /\ Joining(ss)[0] = <<>>
           /\ \A n \in 1 .. Len(ss) : Joining(ss)[n] = Joining(ss)[n - 1] \o ss[n]
<1> DEFINE Made(f) == f = [n \in 0 .. Len(ss) |-> IF n = 0 THEN <<>> ELSE f[n - 1] \o ss[n]]
           f == CHOOSE f : Made(f)
<1>1. PICK g \in [0 .. Len(ss) -> Seq(S)] : Made(g)
  <2>1. PICK N \in Nat : N = Len(ss)
    BY LenProperties
  <2>2. PICK V : V = Seq(S)
    OBVIOUS
  <2>3. PICK v \in V : v = <<>>
    BY <2>2, EmptySeq
  <2> DEFINE G == [p \in (1 .. N) \X V |-> p[2] \o ss[p[1]]]
  <2>4. \A n \in 1 .. N, x \in V : G[<<n, x>>] = x \o ss[n]
    OBVIOUS
  <2>5. \A n \in 1 .. N, x \in V : x \o ss[n] \in V
    <3>1. \A n \in 1 .. N : ss[n] \in Seq(S)
      BY <2>1, ElementOfSeq
    <3> QED
      BY <2>2, <3>1, ConcatProperties
  <2>6. G \in [(1 .. N) \X V -> V]
    BY <2>5
  <2> HIDE DEF G
  <2>7. PICK g \in [0 .. N -> V] : IsRecursive(g, N, v, G)
    BY <2>6, RecursionExists
  <2>8. ASSUME NEW n \in 0 .. N
        PROVE  (IF n = 0 THEN v ELSE G[<<n, g[n - 1]>>]) = (IF n = 0 THEN <<>> ELSE g[n - 1] \o ss[n])
    <3>1. n # 0 => n \in 1 .. N /\ g[n - 1] \in V
      BY <2>7
    <3> QED
      BY <2>3, <2>4, <3>1
  <2>9. g = [n \in 0 .. N |-> IF n = 0 THEN <<>> ELSE g[n - 1] \o ss[n]]
    BY <2>7, <2>8, Zenon DEF IsRecursive
  <2>10. g \in [0 .. Len(ss) -> Seq(S)]
    BY <2>1, <2>2, <2>7
  <2>11. Made(g)
    BY <2>1, <2>9
  <2> QED
    BY <2>10, <2>11
<1>2. Made(f)
  <2> HIDE DEF Made
  <2> QED
    BY <1>1
<1>3. Joining(ss) = f
  BY Zenon DEF Joining
<1> HIDE DEF f
<1>4. PICK N \in Nat : N = Len(ss)
  BY LenProperties
<1>5. PICK v \in Seq(S) : v = <<>>
  BY EmptySeq
<1>6. f = [n \in 0 .. N |-> IF n = 0 THEN v ELSE f[n - 1] \o ss[n]]
  BY <1>2, <1>4, <1>5, Zenon
<1>7. f[0] = v /\ \A n \in 1 .. N : f[n] = f[n - 1] \o ss[n]
  BY <1>6
<1>8. \A n \in 1 .. N : ss[n] \in Seq(S)
  BY <1>4, ElementOfSeq
<1>9. f \in [0 .. N -> Seq(S)]
  <2> DEFINE T == {n \in 0 .. N : f[n] \in Seq(S)}
  <2>1. 0 \in T
    BY <1>7
  <2>2. ASSUME NEW n \in 1 .. N, n - 1 \in T PROVE n \in T
    <3>1. ss[n] \in Seq(S) /\ f[n - 1] \in Seq(S)
      BY <1>8, <2>2
    <3>2. f[n - 1] \o ss[n] \in Seq(S)
      BY <3>1, ConcatProperties
    <3>3. n \in 0 .. N
      OBVIOUS
    <3> QED
      BY <1>7, <3>2, <3>3
  <2>3. 0 .. N \subseteq T
    <3> HIDE DEF T
    <3> QED
      BY <2>1, <2>2, BoundedInduction
  <2> QED
    BY <1>6, <2>3
<1> QED
  BY <1>3, <1>4, <1>5, <1>7, <1>9, Zenon

\* Where a member of a sequence begins in the joined ones
Start(ss, j) == Len(Joining(ss)[j - 1])

\* The j-th member lies in the joined sequences from its start on.
LEMMA JoinedAt ==
    ASSUME NEW S, NEW ss \in Seq(Seq(S))
    PROVE  \A j \in 1 .. Len(ss) : \A i \in 1 .. Len(ss[j]) :
              /\ Start(ss, j) + i \in 1 .. Len(Joined(ss))
              /\ Joined(ss)[Start(ss, j) + i] = ss[j][i]
<1> DEFINE J == Joining(ss)
           N == Len(ss)
           T == {n \in 0 .. N : \A j \in 1 .. n : \A i \in 1 .. Len(ss[j]) :
                    /\ Len(J[j - 1]) + i \in 1 .. Len(J[n])
                    /\ J[n][Len(J[j - 1]) + i] = ss[j][i]}
<1>1. /\ J \in [0 .. N -> Seq(S)]
      /\ \A n \in 1 .. N : J[n] = J[n - 1] \o ss[n]
  BY JoiningIs
<1>2. N \in Nat /\ \A j \in 1 .. N : ss[j] \in Seq(S)
  BY LenProperties, ElementOfSeq
<1>3. Joined(ss) = J[N]
  BY DEF Joined
<1> HIDE DEF J, N
<1>4. 0 \in T
  BY <1>2
<1>5. ASSUME NEW n \in 1 .. N, n - 1 \in T PROVE n \in T
  <2>0. n - 1 \in 0 .. N
    BY <1>2
  <2>1. J[n - 1] \in Seq(S) /\ ss[n] \in Seq(S) /\ J[n] = J[n - 1] \o ss[n]
    BY <1>1, <1>2, <2>0, Zenon
  <2>2. PICK a \in Nat : a = Len(J[n - 1])
    BY <2>1, LenProperties
  <2>3. PICK b \in Nat : b = Len(ss[n])
    BY <2>1, LenProperties
  <2>4. /\ Len(J[n]) = a + b
        /\ \A i \in 1 .. a + b : J[n][i] = IF i <= a THEN J[n - 1][i] ELSE ss[n][i - a]
    <3>1. PICK x \in Seq(S) : x = J[n - 1]
      BY <2>1
    <3>2. PICK y \in Seq(S) : y = ss[n]
      BY <2>1
    <3>3. /\ Len(x \o y) = Len(x) + Len(y)
          /\ \A i \in 1 .. Len(x) + Len(y) : (x \o y)[i] = IF i <= Len(x) THEN x[i] ELSE y[i - Len(x)]
      BY ConcatProperties
    <3> QED
      BY <2>1, <2>2, <2>3, <3>1, <3>2, <3>3, Zenon
  <2>5. ASSUME NEW j \in 1 .. n, NEW i \in 1 .. Len(ss[j])
        PROVE  /\ Len(J[j - 1]) + i \in 1 .. Len(J[n])
               /\ J[n][Len(J[j - 1]) + i] = ss[j][i]
    <3>1. CASE j = n
      <4>1. i \in 1 .. b /\ a + i \in 1 .. a + b /\ ~(a + i <= a) /\ (a + i) - a = i
        BY <2>3, <3>1
      <4>2. J[n][a + i] = ss[n][i]
        BY <2>4, <4>1
      <4> QED
        BY <2>2, <2>4, <3>1, <4>1, <4>2
    <3>2. CASE j # n
      <4>1. j \in 1 .. n - 1
        BY <3>2
      <4>2. PICK at : at = Len(J[j - 1]) + i
        OBVIOUS
      <4>3. at \in 1 .. a /\ J[n - 1][at] = ss[j][i]
        BY <1>5, <2>2, <4>1, <4>2
      <4>4. at \in 1 .. a + b /\ at <= a
        BY <4>3
      <4>5. J[n][at] = J[n - 1][at]
        BY <2>4, <4>4
      <4> QED
        BY <2>4, <4>2, <4>3, <4>4, <4>5
    <3> QED
      BY <3>1, <3>2
  <2>6. n \in 0 .. N
    OBVIOUS
  <2> QED
    BY <2>5, <2>6
<1>6. 0 .. N \subseteq T
  <2> HIDE DEF T
  <2> QED
    BY <1>2, <1>4, <1>5, BoundedInduction
<1>7. N \in T
  <2> HIDE DEF T
  <2>1. N \in 0 .. N
    BY <1>2
  <2> QED
    BY <1>6, <2>1
<1> QED
  BY <1>3, <1>7 DEF J, N, Start

\* Sequences as long as others leave their members at the same places.
SameLengths(ss, tt) == Len(ss) = Len(tt) /\ \A j \in 1 .. Len(ss) : Len(ss[j]) = Len(tt[j])

\* ... and so at the same starts
LEMMA SameStarts ==
    ASSUME NEW S, NEW ss \in Seq(Seq(S)), NEW tt \in Seq(Seq(S)), SameLengths(ss, tt)
    PROVE  \A j \in 0 .. Len(ss) : Len(Joining(ss)[j]) = Len(Joining(tt)[j])
<1> DEFINE J == Joining(ss)
           K == Joining(tt)
           N == Len(ss)
           T == {n \in 0 .. N : Len(J[n]) = Len(K[n])}
<1>1. /\ J \in [0 .. N -> Seq(S)] /\ J[0] = <<>>
      /\ \A n \in 1 .. N : J[n] = J[n - 1] \o ss[n]
  BY JoiningIs
<1>2. /\ K \in [0 .. N -> Seq(S)] /\ K[0] = <<>>
      /\ \A n \in 1 .. N : K[n] = K[n - 1] \o tt[n]
  BY JoiningIs DEF SameLengths
<1>3. N \in Nat /\ \A j \in 1 .. N : ss[j] \in Seq(S) /\ tt[j] \in Seq(S) /\ Len(ss[j]) = Len(tt[j])
  BY LenProperties, ElementOfSeq DEF SameLengths
<1> HIDE DEF J, K, N
<1>4. 0 \in T
  BY <1>1, <1>2, <1>3
<1>5. ASSUME NEW n \in 1 .. N, n - 1 \in T PROVE n \in T
  <2>1. J[n - 1] \in Seq(S) /\ K[n - 1] \in Seq(S) /\ Len(J[n - 1]) = Len(K[n - 1])
    BY <1>1, <1>2, <1>5
  <2>2. Len(J[n]) = Len(J[n - 1]) + Len(ss[n]) /\ Len(K[n]) = Len(K[n - 1]) + Len(tt[n])
    <3>1. ASSUME NEW x \in Seq(S), NEW y \in Seq(S) PROVE Len(x \o y) = Len(x) + Len(y)
      BY ConcatProperties
    <3> QED
      BY <1>1, <1>2, <1>3, <2>1, <3>1, Zenon
  <2>3. Len(J[n]) = Len(K[n])
    BY <1>3, <2>1, <2>2
  <2>4. n \in 0 .. N
    OBVIOUS
  <2> QED
    BY <2>3, <2>4
<1>6. 0 .. N \subseteq T
  <2> HIDE DEF T
  <2> QED
    BY <1>3, <1>4, <1>5, BoundedInduction
<1> QED
  BY <1>6 DEF J, K, N

-----------------------------------------------------------------------------
(* The name                                                                  *)

\* The labels, their lengths, the places behind each on the wire, counted from the
\* beginning of the name, and the labels with a dot behind each
Labels == Len(query.name)
Long == [j \in 1 .. Labels |-> Len(query.name[j])]
At == [j \in 0 .. Labels |-> Len(Joining(OnWire(query.name))[j])]
Line == Joined(Dotted(query.name))

\* Where the name and the question begin and end
Begin == Dns + DNS_HDR_LEN
Ends == Begin + At[Labels] + 1 + DNS_QUERY_LEN

\* So many labels are copied.
Copied(j) ==
    /\ scan_len = At[j]
    /\ \A k \in 1 .. At[j] : domain[k - 1] = Line[k]
    /\ \A i \in 1 .. j : Long[i] <= LABEL_LEN_MAX

TypeRead ==
    q_type = [type |-> Number(<<old[Ends - 4], old[Ends - 3]>>),
              rr_class |-> Number(<<old[Ends - 2], old[Ends - 1]>>)]

Looked ==
    LET text == Append(Text(query.name), 0) IN
    \A k \in DOMAIN text : domain[k - 1] = text[k]

NamePart ==
    /\ pc = "get_query_domain" => \E j \in 0 .. Labels : Copied(j)
    /\ Asked => cur_pos = Ends /\ TypeRead
    /\ Replying => cur_pos = Ends + 16 /\ TypeRead
    /\ pc = "query_zone" => Looked
    /\ Asked \/ Replying \/ pc \in {"not_found", "overrun"} => Legal
    /\ pc \in {"dropped", "dead"} /\ ToServer /\ OneQuestion => ~Legal

NameInv == PartsInv /\ (Whole => NamePart)

LEMMA LabelIs ==
    ASSUME NEW label \in Seq(Nat)
    PROVE  /\ <<Len(label)>> \o label \in Seq(Nat)
           /\ Len(<<Len(label)>> \o label) = Len(label) + 1
           /\ (<<Len(label)>> \o label)[1] = Len(label)
           /\ \A i \in 1 .. Len(label) : (<<Len(label)>> \o label)[i + 1] = label[i]
           /\ Append(label, DOT) \in Seq(Nat)
           /\ Len(Append(label, DOT)) = Len(label) + 1
           /\ \A i \in 1 .. Len(label) : Append(label, DOT)[i] = label[i]
           /\ Append(label, DOT)[Len(label) + 1] = DOT
<1>1. PICK n \in Nat : n = Len(label)
  BY LenProperties
<1>2. PICK s \in Seq(Nat) : s = <<n>> /\ Len(s) = 1 /\ s[1] = n
  <2>1. <<n>> \in Seq(Nat) /\ Len(<<n>>) = 1 /\ <<n>>[1] = n
    OBVIOUS
  <2> QED
    BY <2>1, Zenon
<1>3. /\ s \o label \in Seq(Nat)
      /\ Len(s \o label) = Len(s) + Len(label)
      /\ \A i \in 1 .. Len(s) + Len(label) : (s \o label)[i] = IF i <= Len(s) THEN s[i] ELSE label[i - Len(s)]
  BY ConcatProperties
<1>4. (s \o label)[1] = n
  <2>1. 1 \in 1 .. 1 + n /\ 1 <= 1
    OBVIOUS
  <2> QED
    BY <1>1, <1>2, <1>3, <2>1, Zenon
<1>5. ASSUME NEW i \in 1 .. n PROVE (s \o label)[i + 1] = label[i]
  <2>1. PICK j \in 1 .. 1 + n : j = i + 1 /\ ~(j <= 1) /\ j - 1 = i
    OBVIOUS
  <2>2. (s \o label)[j] = label[j - 1]
    BY <1>1, <1>2, <1>3, <2>1, Zenon
  <2> QED
    BY <2>1, <2>2
<1>6. DOT \in Nat
  BY DEF DOT
<1>7. /\ Append(label, DOT) \in Seq(Nat)
      /\ Len(Append(label, DOT)) = Len(label) + 1
      /\ \A i \in 1 .. Len(label) : Append(label, DOT)[i] = label[i]
      /\ Append(label, DOT)[Len(label) + 1] = DOT
  BY <1>6, AppendProperties
<1>8. Len(s \o label) = n + 1
  BY <1>1, <1>2, <1>3
<1> QED
  BY <1>1, <1>2, <1>3, <1>4, <1>5, <1>7, <1>8, Zenon

\* The labels on the wire, and those in front of dots
LEMMA LabelsAre ==
    ASSUME query \in Frames
    PROVE  /\ query.name \in Seq(Seq(Nat)) /\ Labels \in Nat
           /\ \A j \in 1 .. Labels : query.name[j] \in Seq(Nat) /\ Len(query.name[j]) \in Nat \ {0}
           /\ OnWire(query.name) \in Seq(Seq(Nat)) /\ Len(OnWire(query.name)) = Labels
           /\ Dotted(query.name) \in Seq(Seq(Nat)) /\ Len(Dotted(query.name)) = Labels
           /\ \A j \in 1 .. Labels : /\ OnWire(query.name)[j] = <<Len(query.name[j])>> \o query.name[j]
                                     /\ Dotted(query.name)[j] = Append(query.name[j], DOT)
<1>1. PICK name \in Seq(Seq(Byte) \ {<<>>}) : name = query.name
  BY PacketAssumption
<1>2. PICK n \in Nat : n = Len(name) /\ DOMAIN name = 1 .. n
  BY LenProperties
<1>3. ASSUME NEW j \in 1 .. n
      PROVE  name[j] \in Seq(Nat) /\ Len(name[j]) \in Nat \ {0}
  <2>1. PICK T : T = Seq(Byte) \ {<<>>}
    OBVIOUS
  <2>2. name \in Seq(T)
    BY <2>1
  <2>3. name[j] \in T
    BY <1>2, <2>2, ElementOfSeq
  <2>4. PICK label \in Seq(Byte) : label = name[j] /\ label # <<>>
    BY <2>1, <2>3
  <2>5. Len(label) \in Nat \ {0}
    BY <2>4, EmptySeq
  <2>6. label \in Seq(Nat)
    <3>1. Byte \subseteq Nat
      BY DEF Byte
    <3> QED
      BY <3>1, SeqMonotonic
  <2> QED
    BY <2>4, <2>5, <2>6
<1>4. PICK V : V = Seq(Nat)
  OBVIOUS
<1>6. name \in Seq(V)
  <2>1. name \in [1 .. n -> V]
    <3>1. PICK T : T = Seq(Byte) \ {<<>>}
      OBVIOUS
    <3>2. name \in [1 .. n -> T]
      BY <1>2, <3>1, LenProperties
    <3> QED
      BY <1>3, <1>4, <3>2
  <2> QED
    BY <2>1
<1>7. /\ OnWire(name) \in Seq(V) /\ Len(OnWire(name)) = n
      /\ \A j \in 1 .. n : OnWire(name)[j] = <<Len(name[j])>> \o name[j]
  <2>1. PICK s : s = [k \in 1 .. n |-> <<Len(name[k])>> \o name[k]]
    OBVIOUS
  <2>2. \A k \in 1 .. n : <<Len(name[k])>> \o name[k] \in V
    BY <1>3, <1>4, LabelIs
  <2>3. s \in [1 .. n -> V]
    BY <2>1, <2>2, Zenon
  <2>4. s \in Seq(V) /\ Len(s) = n
    BY <2>3
  <2>5. \A j \in 1 .. n : s[j] = <<Len(name[j])>> \o name[j]
    BY <2>1, Zenon
  <2>6. OnWire(name) = s
    BY <1>2, <2>1, Zenon DEF OnWire
  <2> QED
    BY <2>4, <2>5, <2>6, Zenon
<1>8. /\ Dotted(name) \in Seq(V) /\ Len(Dotted(name)) = n
      /\ \A j \in 1 .. n : Dotted(name)[j] = Append(name[j], DOT)
  <2>1. PICK s : s = [k \in 1 .. n |-> Append(name[k], DOT)]
    OBVIOUS
  <2>2. \A k \in 1 .. n : Append(name[k], DOT) \in V
    BY <1>3, <1>4, LabelIs
  <2>3. s \in [1 .. n -> V]
    BY <2>1, <2>2, Zenon
  <2>4. s \in Seq(V) /\ Len(s) = n
    BY <2>3
  <2>5. \A j \in 1 .. n : s[j] = Append(name[j], DOT)
    BY <2>1, Zenon
  <2>6. Dotted(name) = s
    BY <1>2, <2>1, Zenon DEF Dotted
  <2> QED
    BY <2>4, <2>5, <2>6, Zenon
<1> QED
  BY <1>1, <1>2, <1>3, <1>4, <1>6, <1>7, <1>8, Zenon DEF Labels

\* Where the labels are: each takes the byte of its length, or its dot, and its bytes.
LEMMA AtIs ==
    ASSUME query \in Frames
    PROVE  /\ Labels \in Nat
           /\ Long \in [1 .. Labels -> Nat \ {0}]
           /\ At \in [0 .. Labels -> Nat] /\ At[0] = 0
           /\ \A j \in 1 .. Labels : At[j] = At[j - 1] + Long[j] + 1
<1>1. PICK ss \in Seq(Seq(Nat)) : ss = OnWire(query.name) /\ Len(ss) = Labels
  BY LabelsAre
<1>2. Labels \in Nat
  BY LabelsAre
<1>3. \A j \in 1 .. Labels : ss[j] \in Seq(Nat) /\ Len(ss[j]) = Long[j] + 1 /\ Long[j] \in Nat \ {0}
  <2>1. SUFFICES ASSUME NEW j \in 1 .. Labels
                 PROVE  ss[j] \in Seq(Nat) /\ Len(ss[j]) = Long[j] + 1 /\ Long[j] \in Nat \ {0}
    OBVIOUS
  <2>2. PICK label \in Seq(Nat) : label = query.name[j] /\ Len(label) \in Nat \ {0}
    BY LabelsAre
  <2>3. ss[j] = <<Len(label)>> \o label
    BY <1>1, <2>2, LabelsAre
  <2>4. ss[j] \in Seq(Nat) /\ Len(ss[j]) = Len(label) + 1
    BY <2>3, LabelIs
  <2>5. Long[j] = Len(label)
    BY <2>2 DEF Long
  <2> QED
    BY <2>2, <2>4, <2>5
<1>4. PICK J \in [0 .. Labels -> Seq(Nat)] :
          /\ J = Joining(ss) /\ J[0] = <<>>
          /\ \A n \in 1 .. Labels : J[n] = J[n - 1] \o ss[n]
  BY <1>1, JoiningIs
<1>5. \A j \in 0 .. Labels : At[j] = Len(J[j]) /\ J[j] \in Seq(Nat)
  BY <1>1, <1>4 DEF At
<1>6. At \in [0 .. Labels -> Nat]
  <2>1. ASSUME NEW j \in 0 .. Labels PROVE Len(J[j]) \in Nat
    BY <1>5, LenProperties
  <2> QED
    BY <1>1, <1>4, <2>1 DEF At
<1>7. At[0] = 0
  <2>1. 0 \in 0 .. Labels
    BY <1>2
  <2>2. Len(<<>>) = 0
    BY EmptySeq
  <2>3. J[0] = <<>>
    BY <1>4
  <2> QED
    BY <1>5, <2>1, <2>2, <2>3, Zenon
<1>8. ASSUME NEW j \in 1 .. Labels PROVE At[j] = At[j - 1] + Long[j] + 1
  <2>1. PICK i \in 0 .. Labels : i = j - 1
    BY <1>2
  <2>2. PICK x \in Seq(Nat) : x = J[i]
    BY <1>5
  <2>3. PICK y \in Seq(Nat) : y = ss[j] /\ Len(y) = Long[j] + 1
    BY <1>3
  <2>4. J[j] = x \o y
    BY <1>4, <2>1, <2>2, <2>3, Zenon
  <2>5. Len(x \o y) = Len(x) + Len(y)
    BY ConcatProperties
  <2>6. At[j] = Len(J[j]) /\ At[i] = Len(x)
    BY <1>2, <1>5, <2>2
  <2>7. Long[j] \in Nat /\ At[i] \in Nat
    BY <1>3, <1>6
  <2>8. At[j] = Len(x) + Len(y)
    BY <2>4, <2>5, <2>6, Zenon
  <2>9. At[j] = At[i] + (Long[j] + 1)
    BY <2>3, <2>6, <2>8, Zenon
  <2> QED
    BY <2>1, <2>7, <2>9
<1>9. Long \in [1 .. Labels -> Nat \ {0}]
  <2>1. \A j \in 1 .. Labels : Long[j] \in Nat \ {0}
    BY <1>3
  <2> QED
    BY <2>1, Zenon DEF Long
<1> QED
  BY <1>2, <1>6, <1>7, <1>8, <1>9

LEMMA AtGrows ==
    ASSUME query \in Frames
    PROVE  \A j \in 0 .. Labels : At[j] <= At[Labels]
<1> DEFINE T == {n \in 0 .. Labels : At[Labels - n] <= At[Labels]}
<1>1. /\ Labels \in Nat
      /\ At \in [0 .. Labels -> Nat]
      /\ \A j \in 1 .. Labels : At[j] = At[j - 1] + Long[j] + 1 /\ Long[j] \in Nat
  BY AtIs
<1>2. 0 \in T
  BY <1>1
<1>3. ASSUME NEW n \in 1 .. Labels, n - 1 \in T PROVE n \in T
  <2>1. PICK j \in 1 .. Labels : j = Labels - (n - 1) /\ j - 1 = Labels - n
    BY <1>1
  <2>2. At[j] = At[j - 1] + Long[j] + 1 /\ At[j] <= At[Labels]
    BY <1>1, <1>3, <2>1
  <2>3. At[j] \in Nat /\ At[j - 1] \in Nat /\ Long[j] \in Nat /\ At[Labels] \in Nat
    BY <1>1
  <2>4. At[j - 1] <= At[Labels]
    BY <2>2, <2>3
  <2> QED
    BY <1>1, <2>1, <2>4
<1>4. 0 .. Labels \subseteq T
  <2> HIDE DEF T
  <2> QED
    BY <1>1, <1>2, <1>3, BoundedInduction
<1>5. ASSUME NEW j \in 0 .. Labels PROVE At[j] <= At[Labels]
  <2>1. PICK n \in 0 .. Labels : n = Labels - j /\ Labels - n = j
    BY <1>1
  <2>2. n \in T
    BY <1>4, <2>1, Zenon
  <2> QED
    BY <2>1, <2>2
<1> QED
  BY <1>5

\* What the text holds
LEMMA LineIs ==
    ASSUME query \in Frames
    PROVE  /\ Line \in Seq(Nat) /\ Len(Line) = At[Labels]
           /\ \A j \in 1 .. Labels :
                 /\ \A i \in 1 .. Long[j] : Line[At[j - 1] + i] = query.name[j][i]
                 /\ Line[At[j - 1] + Long[j] + 1] = DOT
<1>1. PICK tt \in Seq(Seq(Nat)) : tt = Dotted(query.name) /\ Len(tt) = Labels
  BY LabelsAre
<1>2. PICK ss \in Seq(Seq(Nat)) : ss = OnWire(query.name) /\ Len(ss) = Labels
  BY LabelsAre
<1>3. Labels \in Nat /\ \A j \in 1 .. Labels : Long[j] \in Nat
  BY AtIs
<1>4. ASSUME NEW j \in 1 .. Labels
      PROVE  /\ Len(tt[j]) = Long[j] + 1 /\ Len(ss[j]) = Long[j] + 1
             /\ \A i \in 1 .. Long[j] : tt[j][i] = query.name[j][i]
             /\ tt[j][Long[j] + 1] = DOT
  <2>1. PICK label \in Seq(Nat) : label = query.name[j]
    BY LabelsAre
  <2>2. ss[j] = <<Len(label)>> \o label /\ tt[j] = Append(label, DOT)
    BY <1>1, <1>2, <2>1, LabelsAre
  <2>3. Long[j] = Len(label)
    BY <2>1 DEF Long
  <2>4. /\ Len(<<Len(label)>> \o label) = Len(label) + 1
        /\ Len(Append(label, DOT)) = Len(label) + 1
        /\ \A i \in 1 .. Len(label) : Append(label, DOT)[i] = label[i]
        /\ Append(label, DOT)[Len(label) + 1] = DOT
    BY LabelIs
  <2> QED
    BY <2>1, <2>2, <2>3, <2>4, Zenon
<1>5. \A j \in 0 .. Labels : Len(Joining(tt)[j]) = At[j]
  <2>1. SameLengths(tt, ss)
    BY <1>1, <1>2, <1>4 DEF SameLengths
  <2>2. \A j \in 0 .. Labels : Len(Joining(tt)[j]) = Len(Joining(ss)[j])
    BY <1>1, <1>2, <2>1, SameStarts
  <2> QED
    BY <1>2, <2>2, Zenon DEF At
<1>6. Line \in Seq(Nat) /\ Len(Line) = At[Labels]
  <2>1. PICK N \in Nat : N = Labels
    BY <1>3
  <2>2. Joining(tt) \in [0 .. N -> Seq(Nat)]
    BY <1>1, <2>1, JoiningIs
  <2>3. N \in 0 .. N
    OBVIOUS
  <2>4. Joining(tt)[N] \in Seq(Nat)
    BY <2>2, <2>3
  <2>5. Line = Joining(tt)[N]
    BY <1>1, <2>1, Zenon DEF Line, Joined
  <2>6. Len(Joining(tt)[N]) = At[N]
    BY <1>5, <2>1, <2>3
  <2> QED
    BY <2>1, <2>4, <2>5, <2>6, Zenon
<1>7. ASSUME NEW j \in 1 .. Labels, NEW i \in 1 .. Len(tt[j])
      PROVE  Line[At[j - 1] + i] = tt[j][i]
  <2>1. j - 1 \in 0 .. Labels
    BY <1>3
  <2>2. Start(tt, j) = At[j - 1]
    BY <1>5, <2>1 DEF Start
  <2>3. Line = Joined(tt)
    BY <1>1 DEF Line
  <2>4. Joined(tt)[Start(tt, j) + i] = tt[j][i]
    BY <1>1, JoinedAt
  <2> QED
    BY <2>2, <2>3, <2>4
<1>8. ASSUME NEW j \in 1 .. Labels
      PROVE  /\ \A i \in 1 .. Long[j] : Line[At[j - 1] + i] = query.name[j][i]
             /\ Line[At[j - 1] + Long[j] + 1] = DOT
  <2>1. PICK n \in Nat : n = Long[j]
    BY <1>3
  <2>2. Len(tt[j]) = n + 1 /\ tt[j][n + 1] = DOT
    BY <1>4, <2>1
  <2>3. ASSUME NEW i \in 1 .. n PROVE Line[At[j - 1] + i] = query.name[j][i]
    <3>1. i \in 1 .. Len(tt[j])
      BY <2>2
    <3> QED
      BY <1>4, <1>7, <2>1, <3>1
  <2>4. Line[At[j - 1] + (n + 1)] = DOT
    <3>1. n + 1 \in 1 .. Len(tt[j])
      BY <2>2
    <3> QED
      BY <1>7, <2>2, <3>1
  <2>5. At[j - 1] \in Nat /\ At[j - 1] + (n + 1) = At[j - 1] + n + 1
    <3>1. j - 1 \in 0 .. Labels
      BY <1>3
    <3>2. At[j - 1] \in Nat
      BY <3>1, AtIs
    <3> QED
      BY <2>1, <3>2
  <2> QED
    BY <2>1, <2>3, <2>4, <2>5
<1> QED
  BY <1>6, <1>8

\* What the question of the frame holds
LEMMA WireIs ==
    ASSUME query \in Frames
    PROVE  /\ Begin \in Nat
           /\ Len(Wire(query.name)) = At[Labels] + 1
           /\ Whole => /\ \A j \in 1 .. Labels :
                             /\ old[Begin + At[j - 1]] = Long[j]
                             /\ \A i \in 1 .. Long[j] : old[Begin + At[j - 1] + i] = query.name[j][i]
                       /\ old[Begin + At[Labels]] = 0
<1>1. PICK ss \in Seq(Seq(Nat)) : ss = OnWire(query.name) /\ Len(ss) = Labels
  BY LabelsAre
<1>2. Labels \in Nat /\ At \in [0 .. Labels -> Nat] /\ \A j \in 1 .. Labels : Long[j] \in Nat
  BY AtIs
<1>3. PICK N \in Nat : N = Labels
  BY <1>2
<1>4. PICK all \in Seq(Nat) : all = Joined(ss) /\ Len(all) = At[N]
  <2>1. Joining(ss) \in [0 .. N -> Seq(Nat)]
    BY <1>1, <1>3, JoiningIs
  <2>2. N \in 0 .. N
    OBVIOUS
  <2>3. Joining(ss)[N] \in Seq(Nat)
    BY <2>1, <2>2
  <2>4. Joined(ss) = Joining(ss)[N]
    BY <1>1, <1>3, Zenon DEF Joined
  <2>5. At[N] = Len(Joining(ss)[N])
    BY <1>1, <1>3, <2>2, Zenon DEF At
  <2> QED
    BY <2>3, <2>4, <2>5
<1>5. PICK len \in Nat : len = Len(all) /\ len = At[Labels]
  BY <1>3, <1>4, LenProperties
<1>6. PICK wire \in Seq(Nat) :
          /\ wire = Wire(query.name) /\ Len(wire) = len + 1 /\ wire[len + 1] = 0
          /\ \A i \in 1 .. len : wire[i] = all[i]
  <2>1. PICK z \in Seq(Nat) : z = << 0 >> /\ Len(z) = 1 /\ z[1] = 0
    <3>1. << 0 >> \in Seq(Nat) /\ Len(<< 0 >>) = 1 /\ << 0 >>[1] = 0
      OBVIOUS
    <3> QED
      BY <3>1, Zenon
  <2>2. /\ all \o z \in Seq(Nat) /\ Len(all \o z) = Len(all) + Len(z)
        /\ \A i \in 1 .. Len(all) + Len(z) : (all \o z)[i] = IF i <= Len(all) THEN all[i] ELSE z[i - Len(all)]
    BY ConcatProperties
  <2>3. Wire(query.name) = all \o z
    BY <1>1, <1>4, <2>1, Zenon DEF Wire
  <2>4. (all \o z)[len + 1] = 0
    <3>1. PICK j \in 1 .. len + 1 : j = len + 1 /\ ~(j <= len) /\ j - len = 1
      OBVIOUS
    <3>2. (all \o z)[j] = z[j - len]
      BY <1>5, <2>1, <2>2, <3>1, Zenon
    <3> QED
      BY <2>1, <3>1, <3>2
  <2>5. \A i \in 1 .. len : (all \o z)[i] = all[i]
    <3>1. \A i \in 1 .. len : i \in 1 .. len + 1 /\ i <= len
      OBVIOUS
    <3> QED
      BY <1>5, <2>1, <2>2, <3>1, Zenon
  <2> QED
    BY <1>5, <2>1, <2>2, <2>3, <2>4, <2>5, Zenon
<1>7. PICK ihl_ \in Nat : ihl_ = ihl(old)
  <2>1. 14 \in 0 .. Size - 1
    BY SizeType
  <2>2. old \in Buffer
    BY FrameType DEF old
  <2>3. old[14] \in Byte
    BY <2>1, <2>2 DEF Buffer
  <2>4. old[14] % 16 \in Nat
    <3>1. \A b \in Byte : b % 16 \in Nat
      BY DEF Byte
    <3> QED
      BY <2>3, <3>1
  <2>5. ihl(old) = old[14] % 16
    BY DEF ihl, ip_hdr, ETH_HDR_LEN
  <2> QED
    BY <2>4, <2>5
<1>8. Begin \in Nat
  BY <1>7 DEF Begin, Dns, ip_hdr, ETH_HDR_LEN, UDP_HDR_LEN, DNS_HDR_LEN, old
<1>9. ASSUME Whole, NEW k \in 1 .. len + 1 PROVE old[Begin + k - 1] = wire[k]
  <2>1. \A i \in DOMAIN Wire(query.name) : Dns + DNS_HDR_LEN + i <= query.data_len =>
            query.data[Dns + DNS_HDR_LEN + i - 1] = Wire(query.name)[i]
    BY PacketAssumption DEF Dns
  <2>2. DOMAIN wire = 1 .. len + 1
    BY <1>6, LenProperties
  <2>3. Begin + k <= query.data_len
    <3>1. query.data_len >= Dns + DNS_HDR_LEN + (len + 1) + DNS_QUERY_LEN
      BY <1>6, <1>9 DEF Whole
    <3>2. query.data_len \in Nat
      BY FrameType
    <3> QED
      BY <1>8, <3>1, <3>2 DEF Begin, DNS_QUERY_LEN
  <2> QED
    BY <1>6, <2>1, <2>2, <2>3 DEF Begin, old
<1>10. ASSUME Whole, NEW j \in 1 .. Labels, NEW i \in 1 .. Len(ss[j])
       PROVE  old[Begin + At[j - 1] + i - 1] = ss[j][i]
  <2>1. j - 1 \in 0 .. Labels
    BY <1>2
  <2>2. Start(ss, j) = At[j - 1]
    BY <1>1, <2>1 DEF Start, At
  <2>3. PICK k \in 1 .. len : k = At[j - 1] + i /\ all[k] = ss[j][i]
    <3>1. Start(ss, j) + i \in 1 .. Len(Joined(ss)) /\ Joined(ss)[Start(ss, j) + i] = ss[j][i]
      BY <1>1, JoinedAt
    <3> QED
      BY <1>4, <1>5, <2>2, <3>1
  <2>4. k \in 1 .. len + 1
    OBVIOUS
  <2>5. old[Begin + k - 1] = ss[j][i]
    BY <1>6, <1>9, <1>10, <2>3, <2>4
  <2>6. Begin + k - 1 = Begin + At[j - 1] + i - 1
    BY <1>2, <1>8, <2>1, <2>3
  <2> QED
    BY <2>5, <2>6
<1>11. ASSUME Whole, NEW j \in 1 .. Labels
       PROVE  /\ old[Begin + At[j - 1]] = Long[j]
              /\ \A i \in 1 .. Long[j] : old[Begin + At[j - 1] + i] = query.name[j][i]
  <2>1. PICK label \in Seq(Nat) : label = query.name[j]
    BY LabelsAre
  <2>2. ss[j] = <<Len(label)>> \o label
    BY <1>1, <2>1, LabelsAre
  <2>3. PICK n \in Nat : n = Len(label) /\ n = Long[j]
    BY <1>2, <2>1 DEF Long
  <2>4. /\ Len(ss[j]) = n + 1 /\ ss[j][1] = n
        /\ \A i \in 1 .. n : ss[j][i + 1] = label[i]
    <3>1. /\ Len(<<Len(label)>> \o label) = Len(label) + 1
          /\ (<<Len(label)>> \o label)[1] = Len(label)
          /\ \A i \in 1 .. Len(label) : (<<Len(label)>> \o label)[i + 1] = label[i]
      BY LabelIs
    <3> QED
      BY <2>2, <2>3, <3>1, Zenon
  <2>5. PICK at \in Nat : at = Begin + At[j - 1]
    <3>1. j - 1 \in 0 .. Labels
      BY <1>2
    <3>2. At[j - 1] \in Nat
      BY <1>2, <3>1
    <3> QED
      BY <1>8, <3>2
  <2>6. \A i \in 1 .. n + 1 : old[at + i - 1] = ss[j][i]
    BY <1>10, <1>11, <2>4, <2>5
  <2>7. old[at] = n
    <3>1. 1 \in 1 .. n + 1 /\ at + 1 - 1 = at
      OBVIOUS
    <3> QED
      BY <2>4, <2>6, <3>1
  <2>8. ASSUME NEW i \in 1 .. n PROVE old[at + i] = label[i]
    <3>1. i + 1 \in 1 .. n + 1 /\ at + (i + 1) - 1 = at + i
      OBVIOUS
    <3> QED
      BY <2>4, <2>6, <3>1
  <2> QED
    BY <2>1, <2>3, <2>5, <2>7, <2>8
<1>12. ASSUME Whole PROVE old[Begin + At[Labels]] = 0
  <2>1. len + 1 \in 1 .. len + 1 /\ Begin + (len + 1) - 1 = Begin + len
    BY <1>8
  <2>2. old[Begin + len] = 0
    BY <1>6, <1>9, <1>12, <2>1
  <2> QED
    BY <1>5, <2>2
<1>13. Len(Wire(query.name)) = At[Labels] + 1
  BY <1>5, <1>6
<1> QED
  BY <1>8, <1>11, <1>12, <1>13

-----------------------------------------------------------------------------
(* What is looked up                                                         *)

\* A whole question: the places in its name, and what the conditions say of them
LEMMA WholeIs ==
    ASSUME RoomInv, Whole
    PROVE  /\ query \in Frames /\ PlainHeader
           /\ Begin \in Nat /\ Dns \in Nat /\ Begin = Dns + 12 /\ Dns >= 42
           /\ At[Labels] \in Nat
           /\ Ends = Begin + At[Labels] + 5
           /\ query.data_len \in Nat /\ query.data_len >= Ends
           /\ Legal <=> /\ \A j \in 1 .. Labels : Long[j] <= LABEL_LEN_MAX
                        /\ At[Labels] < DOMAIN_LEN_MAX
<1>1. query \in Frames /\ PlainHeader
  BY DEF RoomInv, Whole
<1>2. PICK n \in Nat : n = ihl(old) /\ n >= 5
  <2>1. 14 \in 0 .. Size - 1
    BY SizeType
  <2>2. old \in Buffer
    BY <1>1, FrameType DEF old
  <2>3. old[14] \in Byte
    BY <2>1, <2>2 DEF Buffer
  <2>4. old[14] % 16 \in Nat
    <3>1. \A b \in Byte : b % 16 \in Nat
      BY DEF Byte
    <3> QED
      BY <2>3, <3>1
  <2>5. ihl(old) = old[14] % 16
    BY DEF ihl, ip_hdr, ETH_HDR_LEN
  <2>6. ihl(old) >= 5
    BY <1>1 DEF PlainHeader, old
  <2> QED
    BY <2>4, <2>5, <2>6
<1>3. Dns = 14 + n * 4 + 8
  BY <1>2 DEF Dns, ip_hdr, ETH_HDR_LEN, UDP_HDR_LEN, old
<1>4. Dns \in Nat /\ Dns >= 42 /\ Begin = Dns + 12
  BY <1>2, <1>3 DEF Begin, DNS_HDR_LEN
<1>5. PICK end \in Nat : end = At[Labels] /\ Len(Wire(query.name)) = end + 1
  <2>1. Labels \in Nat /\ At \in [0 .. Labels -> Nat] /\ Len(Wire(query.name)) = At[Labels] + 1
    BY <1>1, AtIs, WireIs
  <2> QED
    BY <2>1
<1>6. Ends = Begin + end + 5
  BY <1>4, <1>5 DEF Ends, DNS_QUERY_LEN
<1>7. query.data_len \in Nat /\ query.data_len >= Ends
  <2>1. query.data_len \in Nat
    BY <1>1, FrameType
  <2>2. query.data_len >= Dns + 12 + (end + 1) + 4
    BY <1>5 DEF Whole, DNS_HDR_LEN, DNS_QUERY_LEN
  <2> QED
    BY <1>4, <1>6, <2>1, <2>2
<1>8. Legal <=> /\ \A j \in 1 .. Labels : Long[j] <= LABEL_LEN_MAX
                /\ end < DOMAIN_LEN_MAX
  <2>1. DOMAIN query.name = 1 .. Labels
    <3>1. query.name \in Seq(Seq(Nat))
      BY <1>1, LabelsAre
    <3> QED
      BY <3>1, LenProperties DEF Labels
  <2>2. \A j \in 1 .. Labels : Long[j] = Len(query.name[j])
    BY DEF Long
  <2>3. end + 1 <= DOMAIN_LEN_MAX <=> end < DOMAIN_LEN_MAX
    BY SizeType
  <2> QED
    BY <1>5, <2>1, <2>2, <2>3 DEF Legal
<1> QED
  BY <1>1, <1>4, <1>5, <1>6, <1>7, <1>8

\* A place in the loop, where j labels are copied
LEMMA PlaceIs ==
    ASSUME RoomInv, Whole, pc = "get_query_domain", data = old, dns_hdr = Dns,
           NEW j \in 0 .. Labels, scan_len = At[j]
    PROVE  /\ cur_pos + scan_len = Begin + At[j]
           /\ scan_len < data_len - cur_pos
           /\ At[j] \in Nat /\ At[j] <= At[Labels]
           /\ data[cur_pos + scan_len] = IF j = Labels THEN 0 ELSE Long[j + 1]
<1>1. /\ query \in Frames /\ Begin \in Nat /\ Begin = Dns + 12 /\ Dns \in Nat /\ At[Labels] \in Nat
      /\ Ends = Begin + At[Labels] + 5 /\ query.data_len \in Nat /\ query.data_len >= Ends
  BY WholeIs
<1>2. cur_pos = Begin /\ data_len = query.data_len
  BY <1>1 DEF RoomInv, Parsing, DNS_HDR_LEN
<1>3. Labels \in Nat /\ At[j] \in Nat /\ At[j] <= At[Labels]
  BY <1>1, AtIs, AtGrows
<1>4. data[Begin + At[j]] = IF j = Labels THEN 0 ELSE Long[j + 1]
  <2>1. CASE j = Labels
    BY <1>1, <2>1, WireIs
  <2>2. CASE j # Labels
    <3>1. PICK i \in 1 .. Labels : i = j + 1 /\ i - 1 = j
      BY <1>3, <2>2
    <3>2. old[Begin + At[i - 1]] = Long[i]
      BY <1>1, WireIs
    <3> QED
      BY <2>2, <3>1, <3>2
  <2> QED
    BY <2>1, <2>2
<1>5. scan_len < data_len - cur_pos
  BY <1>1, <1>2, <1>3
<1> QED
  BY <1>1, <1>2, <1>3, <1>4, <1>5

LEMMA SameName ==
    ASSUME UNCHANGED query
    PROVE  /\ Whole' = Whole /\ ToServer' = ToServer /\ OneQuestion' = OneQuestion /\ Legal' = Legal
           /\ old' = old /\ Dns' = Dns /\ Begin' = Begin /\ Ends' = Ends
           /\ Labels' = Labels /\ Long' = Long /\ At' = At /\ Line' = Line
<1>1. old' = old /\ Dns' = Dns /\ PlainHeader' = PlainHeader
  BY DEF old, Dns, PlainHeader
<1>2. Labels' = Labels /\ Line' = Line
  BY DEF Labels, Line
<1>3. Long' = Long /\ At' = At
  BY <1>2 DEF Long, At
<1>4. Begin' = Begin /\ Ends' = Ends
  BY <1>1, <1>2, <1>3 DEF Begin, Ends
<1>5. Whole' = Whole /\ ToServer' = ToServer /\ OneQuestion' = OneQuestion /\ Legal' = Legal
  BY <1>1 DEF Whole, ToServer, OneQuestion, Legal
<1> QED
  BY <1>1, <1>2, <1>3, <1>4, <1>5

LEMMA NameInit == Init => NameInv
<1>1. SUFFICES ASSUME Init PROVE NameInv
  OBVIOUS
<1>2. pc = "parse_pkt"
  BY <1>1 DEF Init
<1> QED
  BY <1>1, <1>2, PartsInit DEF NameInv, NamePart, Asked, Replying

\* A whole question to the server is none that parse_pkt() drops.
LEMMA NameParsePkt == NameInv /\ parse_pkt => NameInv'
<1>1. SUFFICES ASSUME NameInv, parse_pkt PROVE NameInv'
  OBVIOUS
<1>2. PartsInv /\ RoomInv /\ PartsInv'
  BY <1>1, PartsParsePkt DEF NameInv, PartsInv
<1>3. pc = "parse_pkt" /\ pc' \in {"parse_dns", "dropped"} /\ UNCHANGED query /\ data = old
      /\ data_len = query.data_len
  BY <1>1, <1>2 DEF parse_pkt, PartsInv, RoomInv, Parsing
<1>4. ASSUME Whole, ToServer PROVE pc' # "dropped"
  <2>1. /\ Dns \in Nat /\ Dns >= 42 /\ At[Labels] \in Nat /\ Begin = Dns + 12
        /\ Ends = Begin + At[Labels] + 5 /\ data_len \in Nat /\ data_len >= Ends
    BY <1>2, <1>3, <1>4, WholeIs
  <2>2. PICK udp : udp = ip_hdr + ihl(data) * 4
    OBVIOUS
  <2>3. Dns = udp + UDP_HDR_LEN
    BY <1>3, <2>2 DEF Dns, old
  <2>4. udp = Dns - UDP_HDR_LEN
    <3>1. PICK n \in Int : n = ihl(data)
      <4>1. \A b \in Byte : b % 16 \in Int
        BY DEF Byte
      <4>2. data[ip_hdr] \in Byte
        <5>1. 14 \in 0 .. Size - 1
          BY SizeType
        <5> QED
          BY <1>2, <5>1, Numbers DEF Buffer, ip_hdr, ETH_HDR_LEN
      <4> QED
        BY <4>1, <4>2 DEF ihl
    <3> QED
      BY <2>2, <2>3, <3>1 DEF ip_hdr, ETH_HDR_LEN, UDP_HDR_LEN
  <2>5. IsDns(udp)
    BY <1>3, <1>4, <2>4 DEF IsDns, ToServer, old
  <2>6. ~(data_len < ETH_HDR_LEN + IP_HDR_SIZE + UDP_HDR_LEN)
    BY <2>1 DEF ETH_HDR_LEN, IP_HDR_SIZE, UDP_HDR_LEN
  <2>7. /\ cur_pos' = udp + UDP_HDR_LEN
        /\ pc' = IF data_len > cur_pos' /\ IsDns(udp) THEN "parse_dns" ELSE "dropped"
    BY <1>1, <2>2, <2>6 DEF parse_pkt
  <2>8. data_len > cur_pos'
    BY <2>1, <2>3, <2>7
  <2> QED
    BY <2>5, <2>7, <2>8
<1>5. Whole' = Whole /\ ToServer' = ToServer
  BY <1>3, SameName
<1> QED
  BY <1>2, <1>3, <1>4, <1>5 DEF NameInv, NamePart, Asked, Replying

\* Nor does its header stop it.
LEMMA NameParseDns == NameInv /\ parse_dns => NameInv'
<1>1. SUFFICES ASSUME NameInv, parse_dns PROVE NameInv'
  OBVIOUS
<1>2. PartsInv /\ RoomInv /\ PartsInv'
  BY <1>1, PartsParseDns DEF NameInv, PartsInv
<1>3. /\ pc = "parse_dns" /\ pc' \in {"get_query_domain", "dropped"} /\ UNCHANGED <<query, scan_len>>
      /\ scan_len = 0
  BY <1>1, <1>2 DEF parse_dns, RoomInv
<1>4. data = old /\ data_len = query.data_len /\ udp_hdr = Dns - UDP_HDR_LEN /\ data \in Buffer
  BY <1>2, <1>3, Numbers DEF PartsInv, RoomInv, Parsing, Beyond
<1>5. ASSUME Whole, OneQuestion PROVE pc' # "dropped"
  <2>1. /\ Dns \in Nat /\ Dns >= 42 /\ At[Labels] \in Nat /\ Begin = Dns + 12
        /\ Ends = Begin + At[Labels] + 5 /\ data_len \in Nat /\ data_len >= Ends
    BY <1>2, <1>4, <1>5, WholeIs
  <2>2. dns_hdr = Dns
    BY <1>4, <2>1 DEF dns_hdr, UDP_HDR_LEN
  <2>3. data_len >= dns_hdr + DNS_HDR_LEN + DNS_QUERY_LEN
    BY <2>1, <2>2 DEF DNS_HDR_LEN, DNS_QUERY_LEN
  <2>4. data_len <= Size /\ Size \in Nat
    BY <1>2, Numbers, SizeType
  <2>5. [k \in 1 .. 6 |-> data[Dns + 3 + k]] = <<0, 1, 0, 0, 0, 0>>
    BY <1>4, <1>5 DEF OneQuestion, old
  <2>6. /\ data[Dns + 3 + 1] = 0 /\ data[Dns + 3 + 2] = 1 /\ data[Dns + 3 + 3] = 0
        /\ data[Dns + 3 + 4] = 0 /\ data[Dns + 3 + 5] = 0 /\ data[Dns + 3 + 6] = 0
    <3>1. PICK s : s = [k \in 1 .. 6 |-> data[Dns + 3 + k]]
      OBVIOUS
    <3>2. \A k \in 1 .. 6 : s[k] = data[Dns + 3 + k]
      BY <3>1
    <3>3. s[1] = 0 /\ s[2] = 1 /\ s[3] = 0 /\ s[4] = 0 /\ s[5] = 0 /\ s[6] = 0
      BY <2>5, <3>1
    <3> QED
      BY <3>2, <3>3
  <2>7. PICK a \in Nat, b \in Nat, c \in Nat :
            /\ a = Dns + 4 /\ b = Dns + 6 /\ c = Dns + 8
            /\ a = Dns + 3 + 1 /\ a + 1 = Dns + 3 + 2 /\ b = Dns + 3 + 3
            /\ b + 1 = Dns + 3 + 4 /\ c = Dns + 3 + 5 /\ c + 1 = Dns + 3 + 6
            /\ a + 1 < Size /\ b + 1 < Size /\ c + 1 < Size
    BY <2>1, <2>4
  <2>8. IsAt(a, Dns, q_cnt) /\ IsAt(b, Dns, an_cnt) /\ IsAt(c, Dns, ns_cnt)
        /\ q_cnt.len = 2 /\ an_cnt.len = 2 /\ ns_cnt.len = 2
    BY <2>7 DEF IsAt, q_cnt, an_cnt, ns_cnt
  <2>9. /\ Get(data, Dns, q_cnt) = <<data[a], data[a + 1]>>
        /\ Get(data, Dns, an_cnt) = <<data[b], data[b + 1]>>
        /\ Get(data, Dns, ns_cnt) = <<data[c], data[c + 1]>>
    BY <1>4, <2>1, <2>8, GetTwo
  <2>10. HeaderPasses
    BY <2>2, <2>3, <2>6, <2>7, <2>9 DEF HeaderPasses
  <2> QED
    BY <1>1, <2>10 DEF parse_dns
<1>6. ASSUME Whole PROVE Copied(0)' /\ 0 \in 0 .. Labels
  <2>1. At[0] = 0 /\ Labels \in Nat
    BY <1>2, <1>6, WholeIs, AtIs
  <2>2. At' = At
    BY <1>3, SameName
  <2>3. scan_len' = At'[0]
    BY <1>3, <2>1, <2>2
  <2>4. At'[0] = 0
    BY <2>1, <2>2
  <2> QED
    BY <2>1, <2>3, <2>4 DEF Copied
<1>7. Whole' = Whole /\ OneQuestion' = OneQuestion /\ Labels' = Labels
  BY <1>3, SameName
<1>8. ASSUME Whole' PROVE NamePart'
  <2>1. \E j \in 0 .. Labels' : Copied(j)'
    BY <1>6, <1>7, <1>8
  <2> QED
    BY <1>3, <1>5, <1>7, <1>8, <2>1 DEF NamePart, Asked, Replying
<1> QED
  BY <1>2, <1>8 DEF NameInv

\* What is read behind the name
LEMMA TypeReadIs ==
    ASSUME NEW behind \in Nat, Ends = behind + 4, data = old, read_type(behind), UNCHANGED query
    PROVE  pc' = "query_zone" /\ cur_pos' = Ends' /\ TypeRead'
<1>1. Ends' = Ends /\ old' = old
  BY SameName
<1>2. Ends - 4 = behind /\ Ends - 3 = behind + 1 /\ Ends - 2 = behind + 2 /\ Ends - 1 = behind + 3
  OBVIOUS
<1>3. /\ pc' = "query_zone" /\ cur_pos' = behind + 4
      /\ q_type' = [type |-> Number(<<old[behind], old[behind + 1]>>),
                    rr_class |-> Number(<<old[behind + 2], old[behind + 3]>>)]
  BY DEF read_type, DNS_QUERY_LEN
<1>4. q_type' = [type |-> Number(<<old[Ends - 4], old[Ends - 3]>>),
                 rr_class |-> Number(<<old[Ends - 2], old[Ends - 1]>>)]
  BY <1>2, <1>3
<1>5. TypeRead'
  BY <1>1, <1>4 DEF TypeRead
<1> QED
  BY <1>1, <1>3, <1>5

\* The 0 behind the last label, or behind a dot that stands for no labels
LEMMA NameEnds ==
    ASSUME RoomInv, Whole, Copied(Labels), UNCHANGED query,
           domain' = Put(domain, scan_len, IF scan_len = 0 THEN <<DOT, 0>> ELSE << 0 >>)
    PROVE  Looked'
<1>1. query \in Frames
  BY DEF RoomInv
<1>2. PICK n \in Nat : n = At[Labels] /\ n = scan_len /\ n < DOMAIN_LEN_MAX
  BY Numbers, WholeIs DEF Copied
<1>3. \A k \in 1 .. n : domain[k - 1] = Line[k]
  BY <1>2 DEF Copied
<1>4. PICK line \in Seq(Nat) : line = Line /\ Len(line) = n
  BY <1>1, <1>2, LineIs
<1>5. DOMAIN domain = 0 .. DOMAIN_LEN_MAX - 1 /\ DOMAIN_LEN_MAX \in Nat /\ DOMAIN_LEN_MAX >= 3
  BY SizeType DEF RoomInv, TypeOK
<1>6. SUFFICES Looked'
  OBVIOUS
<1>7. PICK text \in Seq(Nat) : text = Append(Text(query.name), 0)
                                /\ \A k \in DOMAIN text : domain'[k - 1] = text[k]
  <2>1. CASE Labels = 0
    <3>1. query.name = <<>>
      <4>1. query.name \in Seq(Seq(Nat))
        BY <1>1, LabelsAre
      <4> QED
        BY <2>1, <4>1 DEF Labels
    <3>2. Text(query.name) = <<DOT>>
      BY <3>1 DEF Text
    <3>3. scan_len = 0
      BY <1>1, <1>2, <2>1, AtIs
    <3>4. PICK s : s = <<DOT, 0>>
      OBVIOUS
    <3>5. s \in Seq(Nat) /\ Len(s) = 2 /\ DOMAIN s = 1 .. 2 /\ s = Append(<<DOT>>, 0)
      BY <3>4 DEF DOT
    <3>6. domain' = Put(domain, 0, s)
      BY <3>3, <3>4
    <3>7. ASSUME NEW k \in 1 .. 2 PROVE domain'[k - 1] = s[k]
      <4>1. k - 1 \in DOMAIN domain /\ k - 1 \in 0 .. 0 + Len(s) - 1 /\ (k - 1) - 0 + 1 = k
        BY <1>5, <3>5
      <4> QED
        BY <3>6, <4>1, Zenon DEF Put
    <3>8. s = Append(Text(query.name), 0)
      BY <3>2, <3>5
    <3>9. \A k \in DOMAIN s : domain'[k - 1] = s[k]
      BY <3>5, <3>7
    <3> QED
      BY <3>5, <3>8, <3>9
  <2>2. CASE Labels # 0
    <3>1. query.name # <<>> /\ Text(query.name) = line
      <4>1. Len(<<>>) = 0
        BY EmptySeq
      <4>2. query.name # <<>>
        BY <2>2, <4>1 DEF Labels
      <4> QED
        BY <1>4, <4>2, Zenon DEF Text, Line
    <3>2. n # 0
      <4>1. PICK j \in 1 .. Labels : j = Labels
        BY <1>1, <2>2, AtIs
      <4>2. At[j] = At[j - 1] + Long[j] + 1 /\ j - 1 \in 0 .. Labels /\ Long[j] \in Nat
        BY <1>1, AtIs
      <4>3. PICK b \in Nat : b = At[j - 1]
        BY <1>1, <4>2, AtIs
      <4>4. PICK c \in Nat : c = Long[j]
        BY <4>2
      <4>5. n = b + c + 1
        BY <1>2, <4>1, <4>2, <4>3, <4>4
      <4> QED
        BY <4>3, <4>4, <4>5
    <3>3. PICK s : s = << 0 >>
      OBVIOUS
    <3>4. Len(s) = 1 /\ s[1] = 0
      BY <3>3
    <3>5. domain' = Put(domain, n, s)
      BY <1>2, <3>2, <3>3
    <3>6. PICK text \in Seq(Nat) :
              /\ text = Append(line, 0) /\ Len(text) = n + 1 /\ text[n + 1] = 0
              /\ \A k \in 1 .. n : text[k] = line[k]
      <4>1. /\ Append(line, 0) \in Seq(Nat) /\ Len(Append(line, 0)) = Len(line) + 1
            /\ \A k \in 1 .. Len(line) : Append(line, 0)[k] = line[k]
            /\ Append(line, 0)[Len(line) + 1] = 0
        BY AppendProperties
      <4> QED
        BY <1>4, <4>1, Zenon
    <3>7. DOMAIN text = 1 .. n + 1
      BY <3>6, LenProperties
    <3>8. ASSUME NEW k \in 1 .. n PROVE domain'[k - 1] = text[k]
      <4>1. k - 1 \in DOMAIN domain /\ k - 1 \notin n .. n + Len(s) - 1
        BY <1>2, <1>5, <3>4
      <4>2. domain'[k - 1] = domain[k - 1]
        BY <3>5, <4>1, Zenon DEF Put
      <4> QED
        BY <1>3, <1>4, <3>6, <4>2
    <3>9. domain'[n] = 0
      <4>1. n \in DOMAIN domain /\ n \in n .. n + Len(s) - 1 /\ n - n + 1 = 1
        BY <1>2, <1>5, <3>4
      <4>2. domain'[n] = s[1]
        BY <3>5, <4>1, Zenon DEF Put
      <4> QED
        BY <3>4, <4>2
    <3>10. ASSUME NEW k \in DOMAIN text PROVE domain'[k - 1] = text[k]
      <4>1. k \in 1 .. n \/ (k = n + 1 /\ k - 1 = n)
        BY <3>7
      <4> QED
        BY <3>6, <3>8, <3>9, <4>1
    <3> QED
      BY <3>1, <3>6, <3>10
  <2> QED
    BY <2>1, <2>2
<1>8. query' = query
  OBVIOUS
<1> QED
  BY <1>7, <1>8, Zenon DEF Looked

\* A label is copied behind the others.
LEMMA LabelCopied ==
    ASSUME RoomInv, Whole, UNCHANGED query, pc = "get_query_domain", data = old, dns_hdr = Dns,
           NEW j \in 0 .. Labels, Copied(j), NEW at, at = cur_pos + scan_len, Copy(at)
    PROVE  j + 1 \in 0 .. Labels /\ Copied(j + 1)'
<1>1. query \in Frames
  BY DEF RoomInv
<1>2. scan_len = At[j]
  BY DEF Copied
<1>3. /\ at = Begin + At[j] /\ At[j] \in Nat
      /\ data[at] = IF j = Labels THEN 0 ELSE Long[j + 1]
  BY <1>2, PlaceIs
<1>4. /\ data[at] \in 1 .. CHAR_MAX /\ data[at] # 0 /\ ~TooLong(scan_len, data[at])
      /\ domain' = Put(domain, scan_len, Append([k \in 1 .. data[at] |-> data[at + k]], DOT))
      /\ scan_len' = scan_len + data[at] + 1
  BY DEF Copy
<1>5. PICK i \in 1 .. Labels : i = j + 1 /\ i - 1 = j
  BY <1>1, <1>3, <1>4, AtIs
<1>6. PICK n \in Nat : n = Long[i] /\ n = data[at]
  <2>1. Long[i] \in Nat
    BY <1>1, AtIs
  <2> QED
    BY <1>3, <1>4, <1>5, <2>1
<1>7. PICK a \in Nat : a = At[j] /\ a = scan_len
  BY <1>2, <1>3
<1>8. At[i] = a + n + 1 /\ scan_len' = a + n + 1
  BY <1>1, <1>4, <1>5, <1>6, <1>7, AtIs
<1>9. n <= LABEL_LEN_MAX /\ a + n + 1 < DOMAIN_LEN_MAX
  BY <1>4, <1>6, <1>7, SizeType DEF TooLong
<1>10. /\ \A k \in 1 .. n : data[at + k] = query.name[i][k]
       /\ \A k \in 1 .. n : Line[a + k] = query.name[i][k]
       /\ Line[a + n + 1] = DOT
  <2>1. \A k \in 1 .. Long[i] : old[Begin + At[i - 1] + k] = query.name[i][k]
    BY <1>1, WireIs
  <2>2. /\ \A k \in 1 .. Long[i] : Line[At[i - 1] + k] = query.name[i][k]
        /\ Line[At[i - 1] + Long[i] + 1] = DOT
    BY <1>1, LineIs
  <2> QED
    BY <1>3, <1>5, <1>6, <1>7, <2>1, <2>2
<1>11. PICK s : /\ s = Append([k \in 1 .. n |-> data[at + k]], DOT)
                /\ Len(s) = n + 1 /\ s[n + 1] = DOT
                /\ \A k \in 1 .. n : s[k] = data[at + k]
  <2>1. PICK t : t = [k \in 1 .. n |-> data[at + k]]
    OBVIOUS
  <2>2. PICK V : V = {data[at + k] : k \in 1 .. n} \cup {DOT}
    OBVIOUS
  <2>3. t \in [1 .. n -> V] /\ DOT \in V
    BY <2>1, <2>2
  <2>4. t \in Seq(V) /\ Len(t) = n
    BY <2>3
  <2>5. /\ Len(Append(t, DOT)) = Len(t) + 1
        /\ \A k \in 1 .. Len(t) : Append(t, DOT)[k] = t[k]
        /\ Append(t, DOT)[Len(t) + 1] = DOT
    BY <2>3, <2>4, AppendProperties
  <2>6. \A k \in 1 .. n : t[k] = data[at + k]
    BY <2>1
  <2>7. /\ Len(Append(t, DOT)) = n + 1 /\ Append(t, DOT)[n + 1] = DOT
        /\ \A k \in 1 .. n : Append(t, DOT)[k] = data[at + k]
    BY <2>4, <2>5, <2>6
  <2> QED
    BY <2>1, <2>7, Zenon
<1>12. domain' = Put(domain, a, s)
  BY <1>4, <1>6, <1>7, <1>11
<1>13. DOMAIN domain = 0 .. DOMAIN_LEN_MAX - 1 /\ DOMAIN_LEN_MAX \in Nat
  BY SizeType DEF RoomInv, TypeOK
<1>14. ASSUME NEW k \in 1 .. a + n + 1 PROVE domain'[k - 1] = Line[k]
  <2>1. k - 1 \in DOMAIN domain
    BY <1>9, <1>13
  <2>2. CASE k <= a
    <3>1. k - 1 \notin a .. a + Len(s) - 1 /\ k \in 1 .. a
      BY <1>11, <2>2
    <3>2. domain'[k - 1] = domain[k - 1]
      BY <1>12, <2>1, <3>1, Zenon DEF Put
    <3> QED
      BY <1>7, <3>1, <3>2 DEF Copied
  <2>3. CASE ~(k <= a)
    <3>1. PICK m \in 1 .. n + 1 : m = k - a /\ m = (k - 1) - a + 1 /\ k = a + m
      BY <2>3
    <3>2. k - 1 \in a .. a + Len(s) - 1
      BY <1>11, <2>3
    <3>3. domain'[k - 1] = s[(k - 1) - a + 1]
      BY <1>12, <2>1, <3>2, Zenon DEF Put
    <3>4. domain'[k - 1] = s[m]
      BY <3>1, <3>3
    <3>5. CASE m = n + 1
      <4>1. a + n + 1 = k
        BY <3>1, <3>5
      <4> QED
        BY <1>10, <1>11, <3>4, <3>5, <4>1
    <3>6. CASE m # n + 1
      <4>1. m \in 1 .. n
        BY <3>6
      <4> QED
        BY <1>10, <1>11, <3>1, <3>4, <4>1
    <3> QED
      BY <3>5, <3>6
  <2> QED
    BY <2>2, <2>3
<1>15. \A k \in 1 .. i : Long[k] <= LABEL_LEN_MAX
  <2>1. \A k \in 1 .. j : Long[k] <= LABEL_LEN_MAX
    BY DEF Copied
  <2>2. \A k \in 1 .. i : k = i \/ k \in 1 .. j
    BY <1>5
  <2> QED
    BY <1>6, <1>9, <2>1, <2>2
<1>16. At' = At /\ Long' = Long /\ Line' = Line
  BY SameName
<1>17. PICK b : b = At[i] /\ b = a + n + 1
  BY <1>8
<1>18. Copied(i)'
  <2>1. scan_len' = At'[i] /\ At'[i] = b
    BY <1>8, <1>16, <1>17
  <2>2. \A k \in 1 .. b : domain'[k - 1] = Line'[k]
    BY <1>14, <1>16, <1>17
  <2>3. \A k \in 1 .. i : Long'[k] <= LABEL_LEN_MAX
    BY <1>15, <1>16
  <2> QED
    BY <2>1, <2>2, <2>3 DEF Copied
<1>19. i \in 0 .. Labels
  BY <1>5
<1> QED
  BY <1>5, <1>18, <1>19

LEMMA NameTurn == NameInv /\ get_query_domain => NameInv'
<1>1. SUFFICES ASSUME NameInv, get_query_domain PROVE NameInv'
  OBVIOUS
<1>2. PartsInv /\ RoomInv /\ PartsInv' /\ RoomInv'
  BY <1>1, PartsParseDns DEF NameInv, PartsInv
<1>3. pc = "get_query_domain" /\ UNCHANGED query
  BY <1>1, TurnIs
<1>4. Whole' = Whole /\ Legal' = Legal /\ Labels' = Labels
  BY <1>3, SameName
<1>5. SUFFICES ASSUME Whole PROVE NamePart'
  BY <1>2, <1>4 DEF NameInv
<1>6. data = old /\ dns_hdr = Dns
  <2>1. udp_hdr = Dns - UDP_HDR_LEN /\ data = old
    BY <1>2, <1>3 DEF PartsInv, Parsing, Beyond
  <2>2. Dns \in Nat
    BY <1>2, <1>5, WholeIs
  <2> QED
    BY <2>1, <2>2 DEF dns_hdr, UDP_HDR_LEN
<1>7. PICK j \in 0 .. Labels : Copied(j)
  BY <1>1, <1>3, <1>5 DEF NameInv, NamePart
<1>8. PICK at : at = cur_pos + scan_len /\ (Leave(at) \/ End(at) \/ Refuse(at) \/ Copy(at))
  BY <1>1, TurnIs
<1>9. scan_len = At[j]
  BY <1>7 DEF Copied
<1>10. /\ at = Begin + At[j] /\ At[j] \in Nat /\ At[j] <= At[Labels]
       /\ scan_len < data_len - cur_pos
       /\ data[at] = IF j = Labels THEN 0 ELSE Long[j + 1]
  BY <1>2, <1>3, <1>5, <1>6, <1>8, <1>9, PlaceIs
<1>11. /\ query \in Frames /\ Begin \in Nat /\ At[Labels] \in Nat /\ Ends = Begin + At[Labels] + 5
       /\ Legal <=> /\ \A i \in 1 .. Labels : Long[i] <= LABEL_LEN_MAX
                    /\ At[Labels] < DOMAIN_LEN_MAX
  BY <1>2, <1>5, WholeIs
<1>12. /\ Labels \in Nat
       /\ \A i \in 1 .. Labels : Long[i] \in Nat \ {0} /\ At[i] = At[i - 1] + Long[i] + 1 /\ At[i] \in Nat
  <2>1. /\ Labels \in Nat /\ Long \in [1 .. Labels -> Nat \ {0}] /\ At \in [0 .. Labels -> Nat]
        /\ \A i \in 1 .. Labels : At[i] = At[i - 1] + Long[i] + 1
    BY <1>11, AtIs
  <2>2. \A i \in 1 .. Labels : i \in 0 .. Labels
    OBVIOUS
  <2> QED
    BY <2>1, <2>2
<1>13. j # Labels => j + 1 \in 1 .. Labels
  BY <1>12
<1>14. ~Leave(at)
  BY <1>10 DEF Leave
<1>15. CASE End(at)
  <2>1. read_type(at + 1) /\ data[at] = 0
    BY <1>15 DEF End
  <2>2. j = Labels
    BY <1>10, <1>12, <1>13, <2>1
  <2>3. at + 1 \in Nat /\ Ends = (at + 1) + 4
    BY <1>10, <1>11, <2>2
  <2>4. pc' = "query_zone" /\ cur_pos' = Ends' /\ TypeRead'
    BY <1>3, <1>6, <2>1, <2>3, TypeReadIs
  <2>5. Legal
    <3>1. At[Labels] < DOMAIN_LEN_MAX
      BY <1>2, <1>9, <2>2, Numbers
    <3> QED
      BY <1>7, <1>11, <2>2, <3>1 DEF Copied
  <2>6. Looked'
    <3>1. domain' = Put(domain, scan_len, IF scan_len = 0 THEN <<DOT, 0>> ELSE << 0 >>)
      BY <1>15 DEF End
    <3>2. Copied(Labels)
      BY <1>7, <2>2
    <3> QED
      BY <1>2, <1>3, <1>5, <3>1, <3>2, NameEnds
  <2> QED
    BY <1>4, <2>4, <2>5, <2>6 DEF NamePart, Asked, Replying
<1>16. CASE Refuse(at)
  <2>1. /\ pc' \in {"dropped", "dead"} /\ data[at] # 0
        /\ data[at] > CHAR_MAX \/ TooLong(scan_len, data[at])
    BY <1>16, SizeType DEF Refuse
  <2>2. PICK i \in 1 .. Labels : i = j + 1 /\ i - 1 = j
    BY <1>10, <1>13, <2>1
  <2>3. Long[i] > CHAR_MAX \/ TooLong(At[j], Long[i])
    BY <1>9, <1>10, <2>1, <2>2
  <2>4. PICK n \in Nat : n = Long[i]
    BY <1>12
  <2>5. PICK a \in Nat : a = At[j]
    BY <1>10
  <2>6. n > LABEL_LEN_MAX \/ a + n + 1 >= DOMAIN_LEN_MAX
    BY <2>3, <2>4, <2>5, SizeType DEF TooLong
  <2>7. At[i] = a + n + 1 /\ At[i] \in Nat /\ At[i] <= At[Labels]
    <3>1. At[i] = At[i - 1] + Long[i] + 1 /\ At[i] \in Nat
      BY <1>12
    <3>2. i \in 0 .. Labels
      OBVIOUS
    <3>3. At[i] <= At[Labels]
      BY <1>11, <3>2, AtGrows
    <3> QED
      BY <2>2, <2>4, <2>5, <3>1, <3>3
  <2>8. ~Legal
    <3>1. CASE n > LABEL_LEN_MAX
      BY <1>11, <2>4, <3>1, SizeType
    <3>2. CASE a + n + 1 >= DOMAIN_LEN_MAX
      <4>1. ~(At[Labels] < DOMAIN_LEN_MAX)
        BY <1>11, <2>7, <3>2, SizeType
      <4> QED
        BY <1>11, <4>1
    <3> QED
      BY <2>6, <3>1, <3>2
  <2> QED
    BY <1>4, <2>1, <2>8 DEF NamePart, Asked, Replying
<1>17. CASE Copy(at)
  <2>1. j + 1 \in 0 .. Labels /\ Copied(j + 1)'
    BY <1>2, <1>3, <1>5, <1>6, <1>7, <1>8, <1>17, LabelCopied
  <2>2. pc' = "get_query_domain"
    BY <1>3, <1>17 DEF Copy
  <2>3. \E i \in 0 .. Labels' : Copied(i)'
    BY <1>4, <2>1
  <2> QED
    BY <2>2, <2>3 DEF NamePart, Asked, Replying
<1> QED
  BY <1>8, <1>14, <1>15, <1>16, <1>17

\* Nothing that follows touches the length of the question or its type.
LEMMA NameRest ==
    ASSUME NameInv, query_zone \/ cons_dns \/ update_udp_hdr \/ update_ip_hdr \/ update_eth_hdr
    PROVE  NameInv'
<1>1. PartsInv /\ RoomInv /\ PartsInv'
  BY PartsParseDns, PartsConsDns, PartsUdp, PartsIp, PartsEth DEF NameInv, PartsInv
<1>2. UNCHANGED <<query, q_type>>
  BY DEF query_zone, cons_dns, update_udp_hdr, update_ip_hdr, update_eth_hdr, asked
<1>3. /\ Whole' = Whole /\ Legal' = Legal /\ old' = old /\ Ends' = Ends
  BY <1>2, SameName
<1>4. TypeRead' = TypeRead
  BY <1>2, <1>3 DEF TypeRead
<1>5. SUFFICES ASSUME Whole PROVE NamePart'
  BY <1>1, <1>3 DEF NameInv
<1>6. NamePart
  BY <1>5 DEF NameInv
<1>7. CASE query_zone
  <2>1. pc = "query_zone" /\ pc' \in {"cons_dns", "not_found"} /\ cur_pos' = cur_pos
    BY <1>7 DEF query_zone
  <2> QED
    BY <1>3, <1>4, <1>6, <2>1 DEF NamePart, Asked, Replying
<1>8. CASE cons_dns
  <2>1. /\ pc = "cons_dns" /\ pc' \in {"update_udp_hdr", "overrun"}
        /\ cur_pos' = cur_pos + Len(Answer(rr_res))
    <3>1. pc' # "update_udp_hdr" => pc' = "overrun"
      BY <1>1, <1>8, AnswerWritten
    <3> QED
      BY <1>8, <3>1 DEF cons_dns
  <2>2. Len(Answer(rr_res)) = 16
    <3>1. rr_res \in Answers /\ q_type \in [type : uint16_t, rr_class : uint16_t]
      BY <1>1 DEF RoomInv, TypeOK
    <3>2. Answer(rr_res) \in Bytes(16)
      BY <3>1, AnswerType
    <3> QED
      BY <3>2 DEF Bytes
  <2> QED
    BY <1>3, <1>4, <1>6, <2>1, <2>2 DEF NamePart, Asked, Replying
<1>9. CASE update_udp_hdr \/ update_ip_hdr \/ update_eth_hdr
  <2>1. /\ pc \in {"update_udp_hdr", "update_ip_hdr", "update_eth_hdr"}
        /\ pc' \in {"update_ip_hdr", "update_eth_hdr", "sent"} /\ cur_pos' = cur_pos
    BY <1>9 DEF update_udp_hdr, update_ip_hdr, update_eth_hdr
  <2> QED
    BY <1>3, <1>4, <1>6, <2>1 DEF NamePart, Asked, Replying
<1> QED
  BY <1>7, <1>8, <1>9

LEMMA NameStep == NameInv /\ [Next]_vars => NameInv'
<1>1. ASSUME NameInv, UNCHANGED vars PROVE NameInv'
  <2>1. UNCHANGED <<pc, query, cur_pos, scan_len, domain, q_type>>
    BY <1>1 DEF vars, asked
  <2>2. PartsInv'
    BY <1>1, PartsStep DEF NameInv
  <2>3. /\ Whole' = Whole /\ ToServer' = ToServer /\ OneQuestion' = OneQuestion /\ Legal' = Legal
        /\ old' = old /\ Ends' = Ends /\ Labels' = Labels /\ Long' = Long /\ At' = At /\ Line' = Line
    BY <2>1, SameName
  <2>4. TypeRead' = TypeRead /\ Looked' = Looked /\ (\E j \in 0 .. Labels : Copied(j)) = (\E j \in 0 .. Labels' : Copied(j)')
    BY <2>1, <2>3 DEF TypeRead, Looked, Copied
  <2> QED
    BY <1>1, <2>1, <2>2, <2>3, <2>4 DEF NameInv, NamePart, Asked, Replying
<1> QED
  BY <1>1, NameParsePkt, NameParseDns, NameTurn, NameRest DEF Next

LEMMA NameAlways == Spec => []NameInv
BY NameInit, NameStep, PTL DEF Spec

\* Whatever the frame, the bytes of its id and its labels, the limits on both and what
\* the array held before: a whole question of one name for the server is refused, or
\* ends the program, if and only if a label or the name is longer than
\* get_query_domain() takes, lengths above CHAR_MAX included; and what the zone is
\* searched for is the text of its name, with the dot and the 0 at its end.
THEOREM Asks == Spec => []AskedAsWritten
<1>1. NameInv => AskedAsWritten
  <2>1. SUFFICES ASSUME NameInv, pc \notin {"parse_pkt", "parse_dns", "get_query_domain"},
                        Whole, ToServer, OneQuestion
                 PROVE  /\ pc \in {"dropped", "dead"} <=> ~Legal
                        /\ pc = "query_zone" => Looked
    BY DEF AskedAsWritten, Looked
  <2>2. NamePart
    BY <2>1 DEF NameInv
  <2>3. pc \in {"dropped", "dead"} \/ Asked \/ Replying \/ pc \in {"not_found", "overrun"}
    <3>1. pc \in PC
      BY <2>1 DEF NameInv, PartsInv, RoomInv, TypeOK
    <3> QED
      BY <2>1, <3>1 DEF PC, Asked, Replying
  <2> QED
    BY <2>1, <2>2, <2>3 DEF NamePart, Asked, Replying
<1> QED
  BY <1>1, NameAlways, PTL

-----------------------------------------------------------------------------
(* What is sent                                                              *)

\* Bytes in a row
Piece(buf, from, n) == [k \in 1 .. n |-> buf[from + k - 1]]

LEMMA PieceIs ==
    ASSUME NEW buf \in Buffer, NEW from \in Nat, NEW n \in Nat, from + n <= Size
    PROVE  Piece(buf, from, n) \in Seq(Byte) /\ Len(Piece(buf, from, n)) = n
           /\ \A k \in 1 .. n : Piece(buf, from, n)[k] = buf[from + k - 1]
<1>1. ASSUME NEW k \in 1 .. n PROVE buf[from + k - 1] \in Byte
  <2>1. from + k - 1 \in 0 .. Size - 1
    BY SizeType
  <2> QED
    BY <2>1 DEF Buffer
<1>2. PICK s \in [1 .. n -> Byte] : s = Piece(buf, from, n)
  BY <1>1, Zenon DEF Piece
<1>3. s \in Seq(Byte) /\ Len(s) = n
  BY <1>2
<1>4. \A k \in 1 .. n : Piece(buf, from, n)[k] = buf[from + k - 1]
  BY DEF Piece
<1> QED
  BY <1>2, <1>3, <1>4, Zenon

\* Two pieces in a row
Adjoining(from, m, n, next, all) == next = from + m /\ all = m + n

LEMMA TwoPieces ==
    ASSUME NEW buf \in Buffer, NEW from \in Nat, NEW m \in Nat, NEW n \in Nat, NEW next \in Nat,
           NEW all \in Nat, Adjoining(from, m, n, next, all), from + all <= Size
    PROVE  Piece(buf, from, all) = Piece(buf, from, m) \o Piece(buf, next, n)
<1>1. next = from + m /\ all = m + n
  BY DEF Adjoining
<1>2. PICK s \in Seq(Byte) : s = Piece(buf, from, m) /\ Len(s) = m /\ \A k \in 1 .. m : s[k] = buf[from + k - 1]
  <2>1. from + m <= Size
    BY <1>1, SizeType
  <2> QED
    BY <2>1, PieceIs
<1>3. PICK t \in Seq(Byte) : t = Piece(buf, next, n) /\ Len(t) = n /\ \A k \in 1 .. n : t[k] = buf[next + k - 1]
  <2>1. next + n <= Size
    BY <1>1, SizeType
  <2> QED
    BY <2>1, PieceIs
<1>4. PICK u \in Seq(Byte) : u = Piece(buf, from, all) /\ Len(u) = all /\ \A k \in 1 .. all : u[k] = buf[from + k - 1]
  BY PieceIs
<1>5. /\ s \o t \in Seq(Byte) /\ Len(s \o t) = Len(s) + Len(t)
      /\ \A k \in 1 .. Len(s) + Len(t) : (s \o t)[k] = IF k <= Len(s) THEN s[k] ELSE t[k - Len(s)]
  BY ConcatProperties
<1>6. PICK v \in Seq(Byte) : /\ v = s \o t /\ Len(v) = all
                             /\ \A k \in 1 .. all : v[k] = IF k <= m THEN s[k] ELSE t[k - m]
  <2>1. Len(s) + Len(t) = all
    BY <1>1, <1>2, <1>3
  <2>2. Len(s \o t) = all /\ \A k \in 1 .. all : (s \o t)[k] = IF k <= m THEN s[k] ELSE t[k - m]
    BY <1>2, <1>5, <2>1
  <2> QED
    BY <1>5, <2>2, Zenon
<1>7. ASSUME NEW k \in 1 .. all PROVE u[k] = v[k]
  <2>1. CASE k <= m
    <3>1. k \in 1 .. m
      BY <2>1
    <3> QED
      BY <1>2, <1>4, <1>6, <2>1, <3>1
  <2>2. CASE ~(k <= m)
    <3>1. PICK j \in 1 .. n : j = k - m /\ next + j - 1 = from + k - 1
      BY <1>1, <2>2
    <3> QED
      BY <1>3, <1>4, <1>6, <2>2, <3>1
  <2> QED
    BY <2>1, <2>2
<1>8. u = v
  BY <1>4, <1>6, <1>7, SeqEqual
<1> QED
  BY <1>2, <1>3, <1>4, <1>6, <1>8, Zenon

\* Two numbers on the wire are the bytes that they were read from.
LEMMA NetNumber ==
    ASSUME NEW a \in Byte, NEW b \in Byte
    PROVE  Net(Number(<<a, b>>)) = <<a, b>>
<1>1. Number(<<a, b>>) = 256 * a + b
  BY DEF Number
<1>2. ASSUME NEW x \in 0 .. 255, NEW y \in 0 .. 255
      PROVE  ((256 * x + y) \div 256) % 256 = x /\ (256 * x + y) % 256 = y
  OBVIOUS
<1> QED
  BY <1>1, <1>2 DEF Net, Byte

\* The four bytes of a number
Quarter(w, k) == (w \div <<16777216, 65536, 256, 1>>[k]) % 256

LEMMA Quarters ==
    ASSUME NEW w \in Nat
    PROVE  /\ ((w \div 65536) \div 256) % 256 = (w \div 16777216) % 256
           /\ ((w % 65536) \div 256) % 256 = (w \div 256) % 256
           /\ (w % 65536) % 256 = (w \div 1) % 256
<1>1. PICK q \in Nat, r \in Nat : w = 65536 * q + r /\ r < 65536 /\ q = w \div 65536 /\ r = w % 65536
  OBVIOUS
<1>2. PICK c \in Nat, d \in Nat : q = 256 * c + d /\ d < 256 /\ c = q \div 256
  OBVIOUS
<1>3. PICK a \in Nat, b \in Nat : r = 256 * a + b /\ b < 256 /\ a = r \div 256 /\ b = r % 256
  OBVIOUS
<1>4. w \div 16777216 = c
  BY <1>1, <1>2
<1>5. a < 256
  BY <1>1, <1>3
<1>6. w \div 256 = 256 * q + a
  BY <1>1, <1>3
<1>7. (256 * q + a) % 256 = a /\ a % 256 = a
  BY <1>5
<1>8. w % 256 = b /\ w \div 1 = w
  BY <1>1, <1>3
<1>9. ((w \div 65536) \div 256) % 256 = (w \div 16777216) % 256
  BY <1>1, <1>2, <1>4
<1>10. ((w % 65536) \div 256) % 256 = (w \div 256) % 256
  BY <1>1, <1>3, <1>6, <1>7
<1>11. (w % 65536) % 256 = (w \div 1) % 256
  BY <1>1, <1>3, <1>8
<1> QED
  BY <1>9, <1>10, <1>11

AreHalves(w, u, v) == u = w \div 65536 /\ v = w % 65536

LEMMA Halves ==
    ASSUME NEW w \in Nat, NEW u, NEW v, AreHalves(w, u, v)
    PROVE  Net32(w) = Net(u) \o Net(v)
BY DEF Net32, AreHalves

LEMMA FourInARow ==
    ASSUME NEW p, NEW q, NEW r, NEW s
    PROVE  <<p, q>> \o <<r, s>> = <<p, q, r, s>>
<1>1. PICK S : S = {p, q, r, s}
  OBVIOUS
<1>2. p \in S /\ q \in S /\ r \in S /\ s \in S
  BY <1>1
<1>3. PICK x \in Seq(S) : x = <<p, q>> /\ Len(x) = 2 /\ x[1] = p /\ x[2] = q
  <2>1. <<p, q>> \in Seq(S) /\ Len(<<p, q>>) = 2 /\ <<p, q>>[1] = p /\ <<p, q>>[2] = q
    BY <1>2
  <2> QED
    BY <2>1, Zenon
<1>4. PICK y \in Seq(S) : y = <<r, s>> /\ Len(y) = 2 /\ y[1] = r /\ y[2] = s
  <2>1. <<r, s>> \in Seq(S) /\ Len(<<r, s>>) = 2 /\ <<r, s>>[1] = r /\ <<r, s>>[2] = s
    BY <1>2
  <2> QED
    BY <2>1, Zenon
<1>5. PICK z \in Seq(S) : z = <<p, q, r, s>> /\ Len(z) = 4 /\ z[1] = p /\ z[2] = q /\ z[3] = r /\ z[4] = s
  <2>1. /\ <<p, q, r, s>> \in Seq(S) /\ Len(<<p, q, r, s>>) = 4
        /\ <<p, q, r, s>>[1] = p /\ <<p, q, r, s>>[2] = q
        /\ <<p, q, r, s>>[3] = r /\ <<p, q, r, s>>[4] = s
    BY <1>2
  <2> QED
    BY <2>1, Zenon
<1>6. /\ x \o y \in Seq(S) /\ Len(x \o y) = Len(x) + Len(y)
      /\ \A k \in 1 .. Len(x) + Len(y) : (x \o y)[k] = IF k <= Len(x) THEN x[k] ELSE y[k - Len(x)]
  BY ConcatProperties
<1>7. Len(x \o y) = 4 /\ \A k \in 1 .. 4 : (x \o y)[k] = z[k]
  <2>1. \A k \in 1 .. 4 : k = 1 \/ k = 2 \/ k = 3 \/ k = 4
    OBVIOUS
  <2>2. (x \o y)[1] = p /\ (x \o y)[2] = q /\ (x \o y)[3] = r /\ (x \o y)[4] = s
    BY <1>3, <1>4, <1>6
  <2> QED
    BY <1>3, <1>4, <1>5, <1>6, <2>1, <2>2
<1>8. x \o y = z
  <2>1. PICK t \in Seq(S) : t = x \o y
    BY <1>6
  <2>2. Len(t) = Len(z) /\ \A k \in 1 .. Len(t) : t[k] = z[k]
    BY <1>5, <1>7, <2>1
  <2>3. t = z
    BY <1>5, <2>1, <2>2, SeqEqual
  <2> QED
    BY <2>1, <2>3
<1> QED
  BY <1>3, <1>4, <1>5, <1>8, Zenon

LEMMA NetQuarters ==
    ASSUME NEW w \in Nat
    PROVE  Net32(w) = [k \in 1 .. 4 |-> Quarter(w, k)]
<1>1. PICK u, v : u = w \div 65536 /\ v = w % 65536
  OBVIOUS
<1>2. PICK p, q, r, s : /\ p = (u \div 256) % 256 /\ q = u % 256
                        /\ r = (v \div 256) % 256 /\ s = v % 256
  OBVIOUS
<1>3. Quarter(w, 1) = p /\ Quarter(w, 2) = q /\ Quarter(w, 3) = r /\ Quarter(w, 4) = s
  <2>1. p = (w \div 16777216) % 256 /\ q = (w \div 65536) % 256
    BY <1>1, <1>2, Quarters
  <2>2. r = (w \div 256) % 256 /\ s = (w \div 1) % 256
    BY <1>1, <1>2, Quarters
  <2> QED
    BY <2>1, <2>2 DEF Quarter
<1>4. Net(u) = <<p, q>> /\ Net(v) = <<r, s>>
  BY <1>2, Zenon DEF Net
<1>5. Net32(w) = Net(u) \o Net(v)
  <2>1. AreHalves(w, u, v)
    BY <1>1 DEF AreHalves
  <2> QED
    BY <2>1, Halves
<1>6. <<p, q>> \o <<r, s>> = <<p, q, r, s>>
  BY FourInARow
<1>7. Net32(w) = <<p, q, r, s>>
  <2>1. PICK a, b : a = <<p, q>> /\ b = <<r, s>>
    OBVIOUS
  <2>2. Net32(w) = a \o b
    BY <1>4, <1>5, <2>1, Zenon
  <2> QED
    BY <1>6, <2>1, <2>2, Zenon
<1>8. [k \in 1 .. 4 |-> Quarter(w, k)] = <<p, q, r, s>>
  <2>1. [k \in 1 .. 4 |-> Quarter(w, k)] = <<Quarter(w, 1), Quarter(w, 2), Quarter(w, 3), Quarter(w, 4)>>
    OBVIOUS
  <2> QED
    BY <1>3, <2>1
<1> QED
  BY <1>7, <1>8, Zenon

\* Concatenation may be bracketed either way.
LEMMA Associative ==
    /\ \A a, b \in Seq(Byte) : a \o b \in Seq(Byte)
    /\ \A a, b, c \in Seq(Byte) : a \o (b \o c) = (a \o b) \o c
BY ConcatProperties, ConcatAssociative

Assembled(p, d, e, f, g, h, i) ==
    p \o (d \o e \o f \o g \o h \o i) = p \o d \o (e \o f) \o g \o h \o i

LEMMA Bracketed ==
    ASSUME NEW p \in Seq(Byte), NEW d \in Seq(Byte), NEW e \in Seq(Byte), NEW f \in Seq(Byte),
           NEW g \in Seq(Byte), NEW h \in Seq(Byte), NEW i \in Seq(Byte)
    PROVE  Assembled(p, d, e, f, g, h, i)
<1> DEFINE V == Seq(Byte)
<1>a. p \in V /\ d \in V /\ e \in V /\ f \in V /\ g \in V /\ h \in V /\ i \in V
  OBVIOUS
<1>b. /\ \A a, b \in V : a \o b \in V
      /\ \A a, b, c \in V : a \o (b \o c) = (a \o b) \o c
  BY Associative, Zenon
<1> HIDE DEF V
<1> USE <1>a, <1>b
<1>1. d \o e \in V
  OBVIOUS
<1>2. d \o e \o f \in V
  BY <1>1
<1>3. d \o e \o f \o g \in V
  BY <1>2
<1>4. d \o e \o f \o g \o h \in V
  BY <1>3
<1>5. p \o (d \o e \o f \o g \o h \o i) = (p \o (d \o e \o f \o g \o h)) \o i
  BY <1>4, Zenon
<1>6. p \o (d \o e \o f \o g \o h) = (p \o (d \o e \o f \o g)) \o h
  BY <1>3, Zenon
<1>7. p \o (d \o e \o f \o g) = (p \o (d \o e \o f)) \o g
  BY <1>2, Zenon
<1>8. d \o (e \o f) = (d \o e) \o f
  BY Zenon
<1>9. p \o (d \o (e \o f)) = (p \o d) \o (e \o f)
  <2>1. e \o f \in V
    OBVIOUS
  <2> QED
    BY <2>1, Zenon
<1>10. p \o (d \o e \o f) = p \o d \o (e \o f)
  BY <1>8, <1>9, Zenon
<1>11. p \o (d \o e \o f \o g) = p \o d \o (e \o f) \o g
  BY <1>7, <1>10, Zenon
<1>12. p \o (d \o e \o f \o g \o h) = p \o d \o (e \o f) \o g \o h
  BY <1>6, <1>11, Zenon
<1> QED
  BY <1>5, <1>12, Zenon DEF Assembled

\* As many bytes of one buffer as of another
LEMMA SamePiece ==
    ASSUME NEW buf, NEW buf2, NEW from, NEW n, \A k \in 1 .. n : buf[from + k - 1] = buf2[from + k - 1]
    PROVE  Piece(buf, from, n) = Piece(buf2, from, n)
BY Zenon DEF Piece

LEMMA TwoAre ==
    ASSUME NEW buf \in Buffer, NEW from \in Nat, from + 2 <= Size
    PROVE  Piece(buf, from, 2) = <<buf[from], buf[from + 1]>>
<1>1. Piece(buf, from, 2) = [k \in 1 .. 2 |-> buf[from + k - 1]]
  BY DEF Piece
<1>2. [k \in 1 .. 2 |-> buf[from + k - 1]] = <<buf[from + 1 - 1], buf[from + 2 - 1]>>
  OBVIOUS
<1>3. from + 1 - 1 = from /\ from + 2 - 1 = from + 1
  OBVIOUS
<1> QED
  BY <1>1, <1>2, <1>3

\* The pointer to the name and the length of an address, as they are sent
Pointer == Net(49164)
Length == Net(4)

LEMMA PointerAndLength == Pointer = <<192, 12>> /\ Length = <<0, 4>>
<1>1. (49164 \div 256) % 256 = 192 /\ 49164 % 256 = 12
  BY SMT
<1>2. (4 \div 256) % 256 = 0 /\ 4 % 256 = 4
  BY SMT
<1> QED
  BY <1>1, <1>2, SMT DEF Net, Pointer, Length

\* An answer is written from its six parts.
LEMMA AnswerParts ==
    ASSUME NEW rr
    PROVE  Answer(rr) = Pointer \o Net(q_type.type) \o Net(q_type.rr_class) \o Net32(rr.ttl)
                            \o Length \o rr.ip4
BY SMT DEF Answer, Pointer, Length

\* The answer is the pieces that are expected of it.
LEMMA AnswerIs ==
    ASSUME NEW end \in Nat, end >= 17, NEW d \in Nat, d = Dns, Ends = d + end, d + end <= Size,
           old \in Buffer, TypeRead, rr_res \in Answers, q_type \in [type : uint16_t, rr_class : uint16_t]
    PROVE  \E e \in Seq(Byte), f \in Seq(Byte), g \in Seq(Byte), i \in Seq(Byte) :
              /\ Answer(rr_res) = <<192, DNS_HDR_LEN>> \o e \o f \o g \o <<0, 4>> \o i
              /\ e \o f = Old(end - 4, end - 1)
              /\ g = Ttl
              /\ i = rr_res.ip4
<1>1. PICK at \in Nat : /\ at = Ends - 4 /\ at + 1 = Ends - 3 /\ at + 2 = Ends - 2 /\ at + 3 = Ends - 1
                        /\ at = d + (end - 4) /\ at + 4 <= Size
  BY SizeType
<1>2. Size \in Nat
  BY SizeType
<1>3. old[at] \in Byte /\ old[at + 1] \in Byte /\ old[at + 2] \in Byte /\ old[at + 3] \in Byte
  <2>1. at \in 0 .. Size - 1 /\ at + 1 \in 0 .. Size - 1 /\ at + 2 \in 0 .. Size - 1 /\ at + 3 \in 0 .. Size - 1
    BY <1>1, <1>2
  <2> QED
    BY <2>1 DEF Buffer
<1>4. q_type.type = Number(<<old[at], old[at + 1]>>) /\ q_type.rr_class = Number(<<old[at + 2], old[at + 3]>>)
  BY <1>1, Zenon DEF TypeRead
<1>5. PICK e \in Seq(Byte) : e = Net(q_type.type) /\ e = <<old[at], old[at + 1]>>
  <2>1. Net(q_type.type) = <<old[at], old[at + 1]>>
    BY <1>3, <1>4, NetNumber
  <2>2. <<old[at], old[at + 1]>> \in Seq(Byte)
    BY <1>3
  <2> QED
    BY <2>1, <2>2
<1>6. PICK f \in Seq(Byte) : f = Net(q_type.rr_class) /\ f = <<old[at + 2], old[at + 3]>>
  <2>1. Net(q_type.rr_class) = <<old[at + 2], old[at + 3]>>
    BY <1>3, <1>4, NetNumber
  <2>2. <<old[at + 2], old[at + 3]>> \in Seq(Byte)
    BY <1>3
  <2> QED
    BY <2>1, <2>2
<1>7. e \o f = Old(end - 4, end - 1)
  <2>1. PICK next \in Nat : next = at + 2
    BY <1>1
  <2>2. PICK four \in Nat : four = 4 /\ four = (end - 1) - (end - 4) + 1
    OBVIOUS
  <2>3. Old(end - 4, end - 1) = Piece(old, at, four)
    BY <1>1, <2>2, Zenon DEF Old, Piece, old
  <2>4. Piece(old, at, four) = Piece(old, at, 2) \o Piece(old, next, 2)
    <3>1. Adjoining(at, 2, 2, next, four)
      BY <2>1, <2>2 DEF Adjoining
    <3>2. at + four <= Size
      BY <1>1, <2>2
    <3> QED
      BY <1>1, <3>1, <3>2, TwoPieces
  <2>5. Piece(old, at, 2) = <<old[at], old[at + 1]>>
    <3>1. at + 2 <= Size
      BY <1>1, <1>2
    <3> QED
      BY <3>1, TwoAre
  <2>6. Piece(old, next, 2) = <<old[at + 2], old[at + 3]>>
    <3>1. next + 2 <= Size /\ next + 1 = at + 3
      BY <1>1, <1>2, <2>1
    <3>2. Piece(old, next, 2) = <<old[next], old[next + 1]>>
      BY <3>1, TwoAre
    <3> QED
      BY <2>1, <3>1, <3>2
  <2> QED
    BY <1>5, <1>6, <2>3, <2>4, <2>5, <2>6, Zenon
<1>8. PICK w \in Nat : w = rr_res.ttl
  BY AnswersType
<1>9. PICK g \in Seq(Byte) : g = Net32(rr_res.ttl)
  BY <1>8, Net32Type DEF Bytes
<1>10. g = Ttl
  <2>1. g = [k \in 1 .. 4 |-> Quarter(w, k)]
    BY <1>8, <1>9, NetQuarters
  <2> QED
    BY <1>8, <2>1 DEF Quarter, Ttl
<1>11. PICK i \in Seq(Byte) : i = rr_res.ip4
  BY AnswersType DEF Bytes
<1>12. Answer(rr_res) = <<192, 12>> \o e \o f \o g \o <<0, 4>> \o i
  BY <1>5, <1>6, <1>9, <1>11, PointerAndLength, AnswerParts, Zenon
<1>13. Answer(rr_res) = <<192, DNS_HDR_LEN>> \o e \o f \o g \o <<0, 4>> \o i
  BY <1>12, Zenon DEF DNS_HDR_LEN
<1> WITNESS e \in Seq(Byte), f \in Seq(Byte), g \in Seq(Byte), i \in Seq(Byte)
<1> QED
  BY <1>7, <1>10, <1>11, <1>13, Zenon

\* Where the parts of a reply are, and what they hold
Places(d, end) ==
    /\ d = Dns /\ d = dns_hdr /\ end = DNS_HDR_LEN + Len(Wire(query.name)) + DNS_QUERY_LEN
    /\ Ends = d + end /\ data_len = d + end + 16
Carries(d, end) ==
    /\ data[d + 2] = 129 /\ data[d + 3] = 0
    /\ \A k \in d .. d + end - 1 : k # d + 2 /\ k # d + 3 => data[k] = old[k]
    /\ \A k \in 1 .. 16 : data[d + end - 1 + k] = Answer(rr_res)[k]

LEMMA ReplyIs ==
    ASSUME NameInv, pc = "sent", Whole
    PROVE  \E d \in Nat, end \in Nat :
              Places(d, end) /\ end >= 17 /\ d + end + 16 <= Size /\ Carries(d, end)
<1>1. RoomInv /\ PartsInv /\ NamePart /\ Replying
  BY DEF NameInv, PartsInv, Replying
<1>2. /\ query \in Frames /\ PlainHeader
      /\ Begin \in Nat /\ Dns \in Nat /\ Begin = Dns + 12 /\ At[Labels] \in Nat
      /\ Ends = Begin + At[Labels] + 5
  BY <1>1, WholeIs
<1>3. Len(Wire(query.name)) = At[Labels] + 1
  BY <1>2, WireIs
<1>4. cur_pos = Ends + 16 /\ data_len = cur_pos /\ cur_pos <= Size - 3
  BY <1>1, SizeType DEF NamePart, RoomInv
<1>5. dns_hdr = Dns
  <2>1. udp_hdr = Dns - UDP_HDR_LEN
    BY <1>1 DEF PartsInv, Beyond
  <2> QED
    BY <1>2, <2>1 DEF dns_hdr, UDP_HDR_LEN
<1>6. DnsPart
  BY <1>1, <1>2 DEF PartsInv, Parts
<1>7. PICK d \in Nat : d = Dns
  BY <1>2
<1>8. PICK end \in Nat : end = 12 + (At[Labels] + 1) + 4
  BY <1>2
<1>9. end = DNS_HDR_LEN + Len(Wire(query.name)) + DNS_QUERY_LEN
  BY <1>3, <1>8 DEF DNS_HDR_LEN, DNS_QUERY_LEN
<1>10. end >= 17 /\ Ends = d + end
  BY <1>2, <1>7, <1>8
<1>11. cur_pos - 17 = d + end - 1 /\ data_len = d + end + 16 /\ d + end + 16 <= Size
  BY <1>4, <1>10, SizeType
<1>12. Carries(d, end)
  <2>1. dns_hdr = d
    BY <1>5, <1>7
  <2> QED
    BY <1>6, <1>11, <2>1, Zenon DEF DnsPart, Carries
<1>13. Places(d, end)
  BY <1>5, <1>7, <1>9, <1>10, <1>11, Zenon DEF Places
<1> QED
  BY <1>10, <1>11, <1>12, <1>13, Zenon

\* The bytes of the DNS part of a reply
LEMMA SentIs ==
    ASSUME NEW d \in Nat, NEW end \in Nat, Places(d, end), end >= 17, d + end + 16 <= Size,
           Carries(d, end), data \in Buffer, old \in Buffer, rr_res \in Answers,
           q_type \in [type : uint16_t, rr_class : uint16_t], TypeRead
    PROVE  /\ Sent(0, 3) = Old(0, 1) \o <<129, 0>>
           /\ Sent(DNS_HDR_LEN, data_len - dns_hdr - 1) = Expected(end)
<1>1. Size \in Nat
  BY SizeType
<1>2. d = Dns /\ Ends = d + end
  BY DEF Places
<1>3. PICK all \in Nat : all = end + 4 /\ d + 12 + all <= Size
  BY SizeType
<1>4. PICK rest \in Nat : rest = end - 12
  OBVIOUS
<1>5. PICK two \in Nat, asks \in Nat, past \in Nat :
         two = d + 2 /\ asks = d + 12 /\ past = d + end
  OBVIOUS
<1>6. PICK p1 \in Seq(Byte) : p1 = Piece(data, d, 2) /\ p1 = Old(0, 1)
  <2>1. \A k \in 1 .. 2 : data[d + k - 1] = old[d + k - 1]
    <3>1. data[d] = old[d] /\ data[d + 1] = old[d + 1]
      BY DEF Carries
    <3> QED
      BY <3>1
  <2>2. d + 2 <= Size
    BY <1>2, SizeType
  <2>3. Piece(data, d, 2) = Piece(old, d, 2)
    BY <2>1, SamePiece
  <2>4. Piece(old, d, 2) = Old(0, 1)
    <3>1. PICK n \in Nat : n = 2 /\ n = 1 - 0 + 1 /\ d = Dns + 0
      BY <1>2
    <3>2. Old(0, 1) = [k \in 1 .. n |-> query.data[d + k - 1]]
      BY <3>1, Zenon DEF Old
    <3>3. n = 2
      BY <3>1
    <3> QED
      BY <3>2, <3>3, Zenon DEF Piece, old
  <2>5. Piece(data, d, 2) \in Seq(Byte)
    BY <2>2, PieceIs
  <2> QED
    BY <2>3, <2>4, <2>5
<1>7. PICK p2 \in Seq(Byte) : p2 = Piece(data, two, 2) /\ p2 = <<129, 0>>
  <2>1. two + 2 <= Size /\ two + 1 = d + 3
    BY <1>2, <1>5, SizeType
  <2>2. Piece(data, two, 2) = <<data[two], data[two + 1]>>
    BY <2>1, TwoAre
  <2>3. Piece(data, two, 2) \in Seq(Byte)
    BY <2>1, PieceIs
  <2>4. data[two] = 129 /\ data[two + 1] = 0
    BY <1>5, <2>1 DEF Carries
  <2> QED
    BY <2>2, <2>3, <2>4
<1>8. PICK p3 \in Seq(Byte) : p3 = Piece(data, asks, rest) /\ p3 = Old(12, end - 1)
  <2>1. asks + rest <= Size
    BY <1>2, <1>4, <1>5, SizeType
  <2>2. ASSUME NEW k \in 1 .. rest PROVE data[asks + k - 1] = old[asks + k - 1]
    <3>1. PICK n \in d .. d + end - 1 : n = asks + k - 1 /\ n # d + 2 /\ n # d + 3
      BY <1>4, <1>5
    <3> QED
      BY <3>1 DEF Carries
  <2>3. Piece(data, asks, rest) = Piece(old, asks, rest)
    <3>1. \A k \in 1 .. rest : data[asks + k - 1] = old[asks + k - 1]
      BY <2>2
    <3> QED
      BY <3>1, Zenon DEF Piece
  <2>4. Piece(old, asks, rest) = Old(12, end - 1)
    <3>1. end - 1 - 12 + 1 = rest /\ Dns + 12 = asks
      BY <1>2, <1>4, <1>5
    <3>2. Old(12, end - 1) = [k \in 1 .. rest |-> query.data[asks + k - 1]]
      BY <3>1, Zenon DEF Old
    <3> QED
      BY <3>2, Zenon DEF Piece, old
  <2>5. Piece(data, asks, rest) \in Seq(Byte)
    BY <2>1, PieceIs
  <2> QED
    BY <2>3, <2>4, <2>5
<1>9. PICK p4 \in Seq(Byte) : p4 = Piece(data, past, 16) /\ p4 = Answer(rr_res)
  <2>1. past + 16 <= Size
    BY <1>2, <1>5
  <2>2. PICK a \in Seq(Byte) : a = Answer(rr_res) /\ Len(a) = 16
    <3>1. PICK rr \in Answers : rr = rr_res
      OBVIOUS
    <3>2. Answer(rr) \in Bytes(16)
      BY AnswerType
    <3> QED
      BY <3>1, <3>2 DEF Bytes
  <2>3. PICK s \in Seq(Byte) : /\ s = Piece(data, past, 16) /\ Len(s) = 16
                               /\ \A k \in 1 .. 16 : s[k] = data[past + k - 1]
    <3>1. PICK n \in Nat : n = 16
      OBVIOUS
    <3>2. /\ Piece(data, past, n) \in Seq(Byte) /\ Len(Piece(data, past, n)) = n
          /\ \A k \in 1 .. n : Piece(data, past, n)[k] = data[past + k - 1]
      BY <2>1, <3>1, PieceIs
    <3> QED
      BY <3>1, <3>2, Zenon
  <2>4. ASSUME NEW k \in 1 .. 16 PROVE s[k] = a[k]
    <3>1. d + end - 1 + k = past + k - 1
      BY <1>5
    <3>2. data[d + end - 1 + k] = Answer(rr_res)[k]
      BY DEF Carries
    <3> QED
      BY <2>2, <2>3, <3>1, <3>2
  <2>5. \A k \in 1 .. 16 : s[k] = a[k]
    BY <2>4
  <2>6. s = a
    BY <2>2, <2>3, <2>5, SeqEqual
  <2> QED
    BY <2>2, <2>3, <2>6
<1>10. Sent(0, 3) = p1 \o p2
  <2>1. Piece(data, d, 4) = Piece(data, d, 2) \o Piece(data, two, 2)
    <3>1. Adjoining(d, 2, 2, two, 4)
      BY <1>5 DEF Adjoining
    <3>2. d + 4 <= Size
      BY <1>2, SizeType
    <3> QED
      BY <3>1, <3>2, TwoPieces
  <2>2. PICK n \in Nat : n = 4 /\ n = 3 - 0 + 1
    OBVIOUS
  <2>3. dns_hdr + 0 = d
    BY DEF Places
  <2>4. Sent(0, 3) = Piece(data, d, n)
    BY <2>2, <2>3, Zenon DEF Sent, Piece
  <2> QED
    BY <1>6, <1>7, <2>1, <2>2, <2>4, Zenon
<1>11. Piece(data, asks, all) = p3 \o p4
  <2>1. PICK n \in Nat : n = 16
    OBVIOUS
  <2>2. Adjoining(asks, rest, n, past, all)
    BY <1>3, <1>4, <1>5, <2>1 DEF Adjoining
  <2>3. asks + all <= Size
    BY <1>3, <1>5
  <2>4. Piece(data, asks, all) = Piece(data, asks, rest) \o Piece(data, past, n)
    BY <2>2, <2>3, TwoPieces
  <2> QED
    BY <1>8, <1>9, <2>1, <2>4, Zenon
<1>12. PICK e \in Seq(Byte), f \in Seq(Byte), g \in Seq(Byte), i \in Seq(Byte) :
          /\ Answer(rr_res) = <<192, DNS_HDR_LEN>> \o e \o f \o g \o <<0, 4>> \o i
          /\ e \o f = Old(end - 4, end - 1)
          /\ g = Ttl
          /\ i = rr_res.ip4
  <2>1. d + end <= Size
    BY <1>2, SizeType
  <2> QED
    BY <1>2, <2>1, AnswerIs
<1>13. PICK c \in Seq(Byte) : c = <<192, DNS_HDR_LEN>>
  <2>1. <<192, 12>> \in Seq(Byte)
    BY DEF Byte
  <2> QED
    BY <2>1, Zenon DEF DNS_HDR_LEN
<1>14. PICK h \in Seq(Byte) : h = <<0, 4>>
  <2>1. <<0, 4>> \in Seq(Byte)
    BY DEF Byte
  <2> QED
    BY <2>1, Zenon
<1>15. p3 \o (c \o e \o f \o g \o h \o i) = p3 \o c \o (e \o f) \o g \o h \o i
  <2>1. Assembled(p3, c, e, f, g, h, i)
    BY <1>12, <1>13, <1>8, <1>14, Bracketed
  <2> QED
    BY <2>1, Zenon DEF Assembled
<1>16. p4 = c \o e \o f \o g \o h \o i
  BY <1>9, <1>12, <1>13, <1>14, Zenon
<1>17. Piece(data, asks, all) = p3 \o c \o (e \o f) \o g \o h \o i
  BY <1>11, <1>15, <1>16, Zenon
<1>18. Expected(end) = p3 \o c \o (e \o f) \o g \o h \o i
  <2>1. Expected(end) = Old(12, end - 1) \o <<192, 12>> \o Old(end - 4, end - 1) \o Ttl \o <<0, 4>> \o rr_res.ip4
    BY Zenon DEF Expected, DNS_HDR_LEN
  <2>2. c = <<192, 12>>
    BY <1>13, Zenon DEF DNS_HDR_LEN
  <2> QED
    BY <1>8, <1>12, <1>14, <2>1, <2>2, Zenon
<1>19. Sent(DNS_HDR_LEN, data_len - dns_hdr - 1) = Piece(data, asks, all)
  <2>1. data_len = d + end + 16 /\ dns_hdr = d
    BY DEF Places
  <2>2. (data_len - dns_hdr - 1) - DNS_HDR_LEN + 1 = all /\ dns_hdr + DNS_HDR_LEN = asks
    BY <1>3, <1>5, <2>1 DEF DNS_HDR_LEN
  <2> QED
    BY <2>2, Zenon DEF Piece, Sent
<1> QED
  BY <1>10, <1>6, <1>7, <1>17, <1>18, <1>19, Zenon

\* Whatever the frame, its name, the answer and what memcpy() takes from behind an
\* address: behind the counts, of which nothing is said, a reply to a whole question has
\* its question as it was asked, and one record with the type and class of the question,
\* the time to live and address that were found, and a pointer to the name, and nothing
\* more; before them, its id and the flags of a response.
THEOREM Replies == Spec => []AnswersTheQuestion
<1>1. ASSUME NameInv PROVE AnswersTheQuestion
  <2>1. ASSUME pc = "sent", Whole
        PROVE  /\ Sent(0, 3) = Old(0, 1) \o <<129, 0>>
               /\ Sent(DNS_HDR_LEN, data_len - dns_hdr - 1)
                     = Expected(DNS_HDR_LEN + Len(Wire(query.name)) + DNS_QUERY_LEN)
    <3>1. PICK d \in Nat, end \in Nat :
             Places(d, end) /\ end >= 17 /\ d + end + 16 <= Size /\ Carries(d, end)
      BY <1>1, <2>1, ReplyIs
    <3>2. /\ data \in Buffer /\ old \in Buffer /\ rr_res \in Answers
          /\ q_type \in [type : uint16_t, rr_class : uint16_t]
          /\ TypeRead
      <4>1. RoomInv /\ NamePart /\ Replying
        BY <1>1, <2>1 DEF NameInv, PartsInv, Replying
      <4>2. query \in Frames
        BY <4>1 DEF RoomInv
      <4> QED
        BY <4>1, <4>2, FrameType DEF RoomInv, TypeOK, Buffer, NamePart, old
    <3>3. end = DNS_HDR_LEN + Len(Wire(query.name)) + DNS_QUERY_LEN
      BY <3>1, Zenon DEF Places
    <3>4. /\ Sent(0, 3) = Old(0, 1) \o <<129, 0>>
          /\ Sent(DNS_HDR_LEN, data_len - dns_hdr - 1) = Expected(end)
      BY <3>1, <3>2, SentIs
    <3> QED
      BY <3>3, <3>4, Zenon
  <2> QED
    BY <2>1, Zenon DEF AnswersTheQuestion
<1> QED
  BY <1>1, NameAlways, PTL
=============================================================================
