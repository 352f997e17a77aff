----------------------------- MODULE CoreProofs -----------------------------
(***************************************************************************)
(* The bare machine at every word width, 32 bits included, on any program and  *)
(* any host: no instruction leaves a word, writes outside memory, or gives x0   *)
(* a value.  On the way, laws of the operations it is made of: division with   *)
(* its corner cases, and the encoders of the assembler against the decoder.    *)
(* Then a small program logic: what assemble puts at which address, for any     *)
(* sequence of items, and for each kind of instruction, what a step does when   *)
(* that instruction is at pc.  Proofs about a program cite these lemmas and     *)
(* need neither the assembler nor the decoder again.                           *)
(***************************************************************************)
EXTENDS Core, Assembler, WellFoundedInduction, SequenceTheorems, TLAPS

-----------------------------------------------------------------------------
\* Powers of two and words.

\* The powers of two of a word are positive.
LEMMA PowerType ==
  ASSUME NEW k \in 0 .. XLEN
  PROVE  Pow2[k] \in Nat \ {0}
  BY WidthAssumption

\* The law of exponents.
LEMMA PowerSum ==
  ASSUME NEW j \in 0 .. XLEN, NEW k \in 0 .. XLEN, j + k <= XLEN
  PROVE  Pow2[j + k] = Pow2[j] * Pow2[k]
  BY WidthAssumption

\* 2^0 to 2^4, 2^8 and 2^12.
LEMMA SmallPowers ==
  /\ Pow2[0] = 1 /\ Pow2[1] = 2 /\ Pow2[2] = 4 /\ Pow2[3] = 8 /\ Pow2[4] = 16
  /\ Pow2[8] = 256 /\ Pow2[12] = 4096
<1>0. XLEN \in Nat /\ XLEN >= 12
  BY WidthAssumption
<1>1. Pow2[1] = 2
  BY WidthAssumption
<1>2. Pow2[0] = 1
  <2>1. Pow2[0 + 1] = Pow2[0] * Pow2[1]
    BY <1>0, PowerSum
  <2>2. Pow2[0] \in Nat
    BY <1>0, PowerType
  <2> QED BY <1>1, <2>1, <2>2
<1>3. Pow2[2] = 4
  <2>1. Pow2[1 + 1] = Pow2[1] * Pow2[1]
    BY <1>0, PowerSum
  <2> QED BY <1>1, <2>1
<1>4. Pow2[3] = 8
  <2>1. Pow2[2 + 1] = Pow2[2] * Pow2[1]
    BY <1>0, PowerSum
  <2> QED BY <1>1, <1>3, <2>1
<1>5. Pow2[4] = 16
  <2>1. Pow2[2 + 2] = Pow2[2] * Pow2[2]
    BY <1>0, PowerSum
  <2> QED BY <1>3, <2>1
<1>6. Pow2[8] = 256
  <2>1. Pow2[4 + 4] = Pow2[4] * Pow2[4]
    BY <1>0, PowerSum
  <2> QED BY <1>5, <2>1
<1>7. Pow2[12] = 4096
  <2>1. Pow2[8 + 4] = Pow2[8] * Pow2[4]
    BY <1>0, PowerSum
  <2> QED BY <1>5, <1>6, <2>1
<1> QED BY <1>1, <1>2, <1>3, <1>4, <1>5, <1>6, <1>7

\* Powers of two grow.
LEMMA PowerMonotone ==
  ASSUME NEW j \in 0 .. XLEN, NEW k \in 0 .. XLEN, j <= k
  PROVE  Pow2[j] <= Pow2[k]
<1>1. XLEN \in Nat
  BY WidthAssumption
<1>2. k - j \in 0 .. XLEN /\ j + (k - j) = k
  BY <1>1
<1>3. Pow2[k] = Pow2[j] * Pow2[k - j]
  BY <1>1, <1>2, PowerSum
<1>4. Pow2[j] \in Nat \ {0} /\ Pow2[k - j] \in Nat \ {0}
  BY <1>2, PowerType
<1> QED BY <1>3, <1>4

\* The sizes of a word and of its half.
LEMMA WordSizes ==
  /\ Half \in Nat /\ Size = 2 * Half /\ Half >= 2048 /\ Size >= 4096
  /\ Words = 0 .. Size - 1
<1>0. XLEN \in Nat /\ XLEN >= 12
  BY WidthAssumption
<1>1. Pow2[(XLEN - 1) + 1] = Pow2[XLEN - 1] * Pow2[1]
  BY <1>0, PowerSum
<1>2. Pow2[XLEN - 1] \in Nat \ {0}
  BY <1>0, PowerType
<1>3. Pow2[12] <= Pow2[XLEN]
  BY <1>0, PowerMonotone
<1> QED BY <1>0, <1>1, <1>2, <1>3, SmallPowers DEF Half, Size, Words

\* Wrapping gives a word.
LEMMA WrapType ==
  ASSUME NEW n \in Int
  PROVE  Wrap(n) \in Words
  BY WordSizes DEF Wrap

\* A word is not changed by wrapping.
LEMMA WrapWord ==
  ASSUME NEW n \in Words
  PROVE  Wrap(n) = n
  BY WordSizes DEF Wrap

\* The signed reading of a word, and the word of it.
LEMMA SignedType ==
  ASSUME NEW w \in Words
  PROVE  /\ Signed(w) \in Int /\ -Half <= Signed(w) /\ Signed(w) < Half
         /\ Wrap(Signed(w)) = w
<1>1. /\ Signed(w) \in Int /\ -Half <= Signed(w) /\ Signed(w) < Half
  BY WordSizes DEF Signed
<1>2. CASE w >= Half
  <2>1. Signed(w) = w - Size
    BY <1>2 DEF Signed
  <2> QED BY <1>1, <2>1, WordSizes DEF Wrap
<1>3. CASE w < Half
  <2>1. Signed(w) = w
    BY <1>3, WordSizes DEF Signed
  <2> QED BY <1>1, <2>1, WordSizes DEF Wrap
<1> QED BY <1>1, <1>2, <1>3, WordSizes

-----------------------------------------------------------------------------
\* Arithmetic modulo the size of a word.

\* Quotient and remainder are unique.
LEMMA DivisionUnique ==
  ASSUME NEW s \in Nat \ {0}, NEW q \in Int, NEW r \in 0 .. s - 1
  PROVE  (s * q + r) \div s = q /\ (s * q + r) % s = r
<1> DEFINE n == s * q + r
           p == n \div s
           t == n % s
<1>1. n \in Int /\ p \in Int /\ t \in 0 .. s - 1 /\ n = s * p + t
  OBVIOUS
<1> HIDE DEF p, t
<1>2. s * (p - q) = r - t
  BY <1>1
<1>3. ~(p - q >= 1)
  <2> SUFFICES ASSUME p - q >= 1 PROVE FALSE
    OBVIOUS
  <2>1. s * (p - q) >= s * 1
    BY <1>1
  <2> QED BY <1>1, <1>2, <2>1
<1>4. ~(q - p >= 1)
  <2> SUFFICES ASSUME q - p >= 1 PROVE FALSE
    OBVIOUS
  <2>1. s * (q - p) >= s * 1
    BY <1>1
  <2>2. s * (q - p) = -(s * (p - q))
    BY <1>1
  <2> QED BY <1>1, <1>2, <2>1, <2>2
<1>5. p = q
  BY <1>1, <1>3, <1>4
<1>6. t = r
  BY <1>1, <1>2, <1>5
<1> QED BY <1>5, <1>6 DEF p, t

\* Multiples of the size do not matter.
LEMMA WrapShift ==
  ASSUME NEW n \in Int, NEW k \in Int
  PROVE  Wrap(n + k * Size) = Wrap(n)
<1> DEFINE q == n \div Size
           r == n % Size
<1>1. Size \in Nat \ {0} /\ q \in Int /\ r \in 0 .. Size - 1 /\ n = Size * q + r
  BY WordSizes
<1>2. r = Wrap(n)
  BY DEF Wrap
<1> HIDE DEF q, r
<1>3. n + k * Size = Size * (q + k) + r
  BY <1>1
<1>4. (Size * (q + k) + r) % Size = r
  BY <1>1, DivisionUnique
<1> QED BY <1>2, <1>3, <1>4 DEF Wrap

\* Wrapping takes multiples of the size away.
LEMMA WrapIs ==
  ASSUME NEW n \in Int
  PROVE  \E k \in Int : Wrap(n) = n + k * Size
<1>1. n \div Size \in Int /\ Wrap(n) = n + (-(n \div Size)) * Size
  BY WordSizes DEF Wrap
<1> QED BY <1>1

\* So does the signed reading.
LEMMA SignedIs ==
  ASSUME NEW w \in Words
  PROVE  \E k \in Int : w = Signed(w) + k * Size
<1>1. CASE w >= Half
  BY <1>1, WordSizes DEF Signed
<1>2. CASE w < Half
  BY <1>2, WordSizes DEF Signed
<1> QED BY <1>1, <1>2, WordSizes

\* A word with a signed reading of n is n modulo the size.
LEMMA SignedWrap ==
  ASSUME NEW n \in Int, -Half <= n, n < Half
  PROVE  Signed(Wrap(n)) = n
<1>1. CASE n >= 0
  BY <1>1, WordSizes DEF Wrap, Signed
<1>2. CASE n < 0
  <2>1. n + 1 * Size \in Words /\ n + 1 * Size >= Half
    BY <1>2, WordSizes
  <2>2. Wrap(n) = n + 1 * Size
    BY <2>1, WrapShift, WrapWord
  <2> QED BY <2>1, <2>2, WordSizes DEF Signed
<1> QED BY <1>1, <1>2

-----------------------------------------------------------------------------
\* Division.

\* C's division: quotient times divisor plus remainder is the dividend, and the
\* remainder is smaller than the divisor and has the dividend's sign.
LEMMA TruncatedDivision ==
  ASSUME NEW x \in Int, NEW y \in Int \ {0}
  PROVE  /\ Quot(x, y) \in Int /\ Rem(x, y) \in Int
         /\ x = Quot(x, y) * y + Rem(x, y)
         /\ Magnitude(Rem(x, y)) < Magnitude(y)
         /\ Rem(x, y) = 0 \/ (Rem(x, y) < 0 <=> x < 0)
         /\ Magnitude(Quot(x, y)) <= Magnitude(x)
<1> DEFINE m == Magnitude(x)
           n == Magnitude(y)
           q == m \div n
           r == m % n
<1>1. m \in Nat /\ n \in Nat \ {0}
  BY DEF Magnitude
<1>2. q \in Nat /\ r \in 0 .. n - 1 /\ m = n * q + r
  BY <1>1
<1>3. /\ x = IF x < 0 THEN -m ELSE m
      /\ y = IF y < 0 THEN -n ELSE n
  BY DEF Magnitude
<1>4. Quot(x, y) = IF (x < 0) <=> (y < 0) THEN q ELSE -q
  BY DEF Quot
<1> HIDE DEF m, n, q, r
<1>5. q <= m
  <2>1. n * q >= 1 * q
    BY <1>1, <1>2
  <2> QED BY <1>1, <1>2, <2>1
<1>6. Quot(x, y) * y = IF x < 0 THEN -(n * q) ELSE n * q
  BY <1>1, <1>2, <1>3, <1>4
<1>7. Rem(x, y) = IF x < 0 THEN -r ELSE r
  BY <1>1, <1>2, <1>3, <1>6 DEF Rem
<1>8. Quot(x, y) \in Int /\ Magnitude(Quot(x, y)) <= m
  BY <1>1, <1>2, <1>4, <1>5 DEF Magnitude
<1>9. Rem(x, y) \in Int /\ Magnitude(Rem(x, y)) < n
  BY <1>1, <1>2, <1>7 DEF Magnitude
<1>10. x = Quot(x, y) * y + Rem(x, y)
  BY <1>8 DEF Rem
<1>11. Rem(x, y) = 0 \/ (Rem(x, y) < 0 <=> x < 0)
  BY <1>2, <1>7
<1> QED BY <1>8, <1>9, <1>10, <1>11 DEF m, n

\* Products of words are products of what they stand for, modulo the size.
LEMMA WrapProduct ==
  ASSUME NEW a \in Int, NEW b \in Int, NEW c \in Int,
         NEW j \in Int, NEW k \in Int, NEW l \in Int
  PROVE  Wrap((a + j * Size) * (b + k * Size) + (c + l * Size)) = Wrap(a * b + c)
<1> DEFINE m == a * k + j * b + j * k * Size + l
<1>1. Size \in Int /\ m \in Int /\ a * b + c \in Int
  BY WordSizes
<1>2. (a + j * Size) * (b + k * Size) = a * b + (a * k + j * b + j * k * Size) * Size
  BY <1>1
<1>3. (a + j * Size) * (b + k * Size) + (c + l * Size) = (a * b + c) + m * Size
  BY <1>1, <1>2
<1> HIDE DEF m
<1> QED BY <1>1, <1>3, WrapShift

\* The division instructions on any two words, zero and INT_MIN / -1 included: software
\* gets the dividend back from quotient and remainder, the remainder is smaller than
\* the divisor, a signed one has the dividend's sign (rv_div, rv_rem and the cases of
\* DIVU and REMU in execute.c).
THEOREM DivisionIsExact ==
  ASSUME NEW a \in Words, NEW b \in Words
  PROVE  /\ Wrap(rv_div(a, b) * b + rv_rem(a, b)) = a
         /\ rv_divu(a, b) * b + rv_remu(a, b) = a \/ b = 0
         /\ b # 0 => /\ Magnitude(Signed(rv_rem(a, b))) < Magnitude(Signed(b))
                     /\ \/ Signed(rv_rem(a, b)) = 0
                        \/ Signed(rv_rem(a, b)) < 0 <=> Signed(a) < 0
                     /\ rv_remu(a, b) < b
         /\ b = 0 => /\ rv_div(a, b) = Size - 1 /\ rv_divu(a, b) = Size - 1
                     /\ rv_rem(a, b) = a /\ rv_remu(a, b) = a
<1>0. a \in Nat /\ b \in Nat /\ Size \in Nat /\ Wrap(a) = a
  BY WordSizes, WrapWord
<1>1. CASE b = 0
  BY <1>0, <1>1 DEF rv_div, rv_rem, rv_divu, rv_remu
<1>2. CASE b # 0 /\ a = Half /\ b = Size - 1
  <2>1. rv_div(a, b) = Half /\ rv_rem(a, b) = 0
    BY <1>2, WordSizes DEF rv_div, rv_rem
  <2>2. Half * (Size - 1) + 0 = Half + (Half - 1) * Size
    BY WordSizes
  <2>3. Wrap(Half * (Size - 1) + 0) = Half
    <3>1. Half \in Words /\ Half \in Int /\ Half - 1 \in Int
      BY WordSizes
    <3>2. \A k \in Int : Wrap(Half + k * Size) = Wrap(Half)
      BY <3>1, WrapShift
    <3>3. Wrap(Half + (Half - 1) * Size) = Wrap(Half)
      BY <3>1, <3>2
    <3> QED BY <2>2, <3>1, <3>3, WrapWord
  <2>4. Signed(0) = 0 /\ Signed(b) = -1
    BY <1>2, WordSizes DEF Signed
  <2>5. rv_divu(a, b) = a \div b /\ rv_remu(a, b) = a % b
    BY <1>2 DEF rv_divu, rv_remu
  <2>6. a = b * (a \div b) + (a % b) /\ a \div b \in Nat /\ a % b \in 0 .. b - 1
    BY <1>0, <1>2
  <2>7. Wrap(rv_div(a, b) * b + rv_rem(a, b)) = a
    BY <1>2, <2>1, <2>3
  <2>8. rv_divu(a, b) * b + rv_remu(a, b) = a /\ rv_remu(a, b) < b
    BY <1>0, <2>5, <2>6
  <2>9. Magnitude(Signed(rv_rem(a, b))) < Magnitude(Signed(b))
    BY <2>1, <2>4 DEF Magnitude
  <2> QED BY <1>2, <2>1, <2>4, <2>7, <2>8, <2>9
<1>3. CASE b # 0 /\ ~(a = Half /\ b = Size - 1)
  <2> DEFINE x == Signed(a)
             y == Signed(b)
             q == Quot(x, y)
             r == Rem(x, y)
  <2>1. x \in Int /\ y \in Int \ {0} /\ -Half <= y /\ y < Half
    <3>1. y # 0
      BY <1>0, <1>3, SignedType, WrapWord, WordSizes DEF Wrap
    <3> QED BY <3>1, SignedType
  <2>2. /\ q \in Int /\ r \in Int /\ x = q * y + r
        /\ Magnitude(r) < Magnitude(y)
        /\ r = 0 \/ (r < 0 <=> x < 0)
    BY <2>1, TruncatedDivision
  <2>3. rv_div(a, b) = Wrap(q) /\ rv_rem(a, b) = Wrap(r)
    BY <1>3 DEF rv_div, rv_rem
  <2>4. PICK j \in Int : Wrap(q) = q + j * Size
    BY <2>2, WrapIs
  <2>5. PICK k \in Int : b = y + k * Size
    BY SignedIs
  <2>6. PICK l \in Int : Wrap(r) = r + l * Size
    BY <2>2, WrapIs
  <2>7. -Half <= r /\ r < Half
    BY <2>1, <2>2, WordSizes DEF Magnitude
  <2>8. Signed(Wrap(r)) = r
    BY <2>2, <2>7, SignedWrap
  <2>9. Wrap(x) = a
    BY SignedType
  <2> HIDE DEF x, y, q, r
  <2>10. Wrap(Wrap(q) * b + Wrap(r)) = Wrap(q * y + r)
    <3>1. Wrap((q + j * Size) * (y + k * Size) + (r + l * Size)) = Wrap(q * y + r)
      BY <2>1, <2>2, WrapProduct
    <3> QED BY <2>4, <2>5, <2>6, <3>1
  <2>11. Wrap(rv_div(a, b) * b + rv_rem(a, b)) = a
    BY <2>2, <2>3, <2>9, <2>10
  <2>12. rv_divu(a, b) = a \div b /\ rv_remu(a, b) = a % b
    BY <1>3 DEF rv_divu, rv_remu
  <2>13. a = b * (a \div b) + (a % b) /\ a \div b \in Nat /\ a % b \in 0 .. b - 1
    BY <1>0, <1>3
  <2>14. rv_divu(a, b) * b + rv_remu(a, b) = a /\ rv_remu(a, b) < b
    BY <1>0, <2>12, <2>13
  <2>15. Signed(rv_rem(a, b)) = r
    BY <2>3, <2>8
  <2> QED BY <1>3, <2>2, <2>11, <2>14, <2>15 DEF x, y
<1> QED BY <1>1, <1>2, <1>3

-----------------------------------------------------------------------------
\* The encoders against the decoder.

\* What an encoder is given beside the immediate.
LEMMA EncodedFields ==
  ASSUME NEW imm \in Int, NEW rs2 \in 0 .. 31, NEW rs1 \in 0 .. 31, NEW f3 \in 0 .. 7,
         NEW rd \in 0 .. 31, NEW o \in 0 .. 127
  PROVE  /\ enc_i(imm, rs1, f3, rd, o) \in Fields
         /\ enc_s(imm, rs2, rs1, f3, o) \in Fields
         /\ enc_b(imm, rs2, rs1, f3, o) \in Fields
         /\ enc_u(imm, rd, o) \in Fields
         /\ enc_j(imm, rd, o) \in Fields
<1>1. (imm \div 32) % 128 \in 0 .. 127 /\ imm % 32 \in 0 .. 31
  OBVIOUS
<1>2. /\ ((imm \div 4096) % 2) * 64 + ((imm \div 32) % 64) \in 0 .. 127
      /\ ((imm \div 2) % 16) * 2 + ((imm \div 2048) % 2) \in 0 .. 31
  OBVIOUS
<1>3. /\ (imm \div 33554432) % 128 \in 0 .. 127 /\ (imm \div 1048576) % 32 \in 0 .. 31
      /\ (imm \div 32768) % 32 \in 0 .. 31 /\ (imm \div 4096) % 8 \in 0 .. 7
  OBVIOUS
<1>4. ((imm \div 1048576) % 2) * 64 + ((imm \div 32) % 64) \in 0 .. 127
  OBVIOUS
<1>5. enc_i(imm, rs1, f3, rd, o) \in Fields /\ enc_s(imm, rs2, rs1, f3, o) \in Fields
  BY <1>1 DEF enc_i, enc_s, enc_r, Fields
<1>6. enc_b(imm, rs2, rs1, f3, o) \in Fields
  BY <1>2 DEF enc_b, enc_r, Fields
<1>7. enc_u(imm, rd, o) \in Fields /\ enc_j(imm, rd, o) \in Fields
  BY <1>2, <1>3, <1>4 DEF enc_u, enc_j, enc_r, Fields
<1> QED BY <1>5, <1>6, <1>7

\* An upper immediate in four fields and back.
LEMMA UpperRoundTrip ==
  ASSUME NEW rd, NEW o, NEW n \in Int, -524288 <= n, n < 524288
  PROVE  imm_u(enc_u(n * 4096, rd, o)) = n * 4096
<1>1. /\ (n * 4096) \div 33554432 = n \div 8192 /\ (n * 4096) \div 1048576 = n \div 256
      /\ (n * 4096) \div 32768 = n \div 8 /\ (n * 4096) \div 4096 = n
  OBVIOUS
<1>2. ((n \div 8192) % 128) * 8192 + ((n \div 256) % 32) * 256 + ((n \div 8) % 32) * 8 + (n % 8)
      = n % 1048576
  OBVIOUS
<1>3. Sext(n % 1048576, 524288) = n
  BY DEF Sext
<1> QED BY <1>1, <1>2, <1>3 DEF imm_u, enc_u, enc_r

\* A jump offset in its scattered fields and back.
LEMMA JumpRoundTrip ==
  ASSUME NEW rd, NEW o, NEW imm \in Int, -1048576 <= imm, imm < 1048576, imm % 2 = 0
  PROVE  imm_j(enc_j(imm, rd, o)) = imm
<1> DEFINE s == (imm \div 1048576) % 2
           m == (imm \div 32) % 64
           l == (imm \div 2) % 16
           b == (imm \div 2048) % 2
           h == (imm \div 32768) % 32
           f == (imm \div 4096) % 8
<1>1. /\ s \in 0 .. 1 /\ m \in 0 .. 63 /\ l \in 0 .. 15 /\ b \in 0 .. 1
      /\ h \in 0 .. 31 /\ f \in 0 .. 7
  OBVIOUS
<1>2. s * 1048576 + (h * 8 + f) * 4096 + b * 2048 + m * 32 + l * 2 = imm % 2097152
  <2>1. b * 2048 + m * 32 + l * 2 = imm % 4096
    OBVIOUS
  <2>2. h * 8 + f = (imm \div 4096) % 256
    OBVIOUS
  <2>3. s * 1048576 + ((imm \div 4096) % 256) * 4096 + (imm % 4096) = imm % 2097152
    OBVIOUS
  <2> HIDE DEF s, m, l, b, h, f
  <2> QED BY <1>1, <2>1, <2>2, <2>3
<1>3. Sext(imm % 2097152, 1048576) = imm
  BY DEF Sext
<1>4. enc_j(imm, rd, o) = enc_r(s * 64 + m, l * 2 + b, h, f, rd, o)
  BY DEF enc_j
<1> HIDE DEF s, m, l, b, h, f
<1>5. /\ (s * 64 + m) \div 64 = s /\ (s * 64 + m) % 64 = m
      /\ (l * 2 + b) \div 2 = l /\ (l * 2 + b) % 2 = b
  BY <1>1
<1>6. imm_j(enc_r(s * 64 + m, l * 2 + b, h, f, rd, o)) =
        Sext(s * 1048576 + (h * 8 + f) * 4096 + b * 2048 + m * 32 + l * 2, 1048576)
  BY <1>5 DEF imm_j, enc_r
<1> QED BY <1>2, <1>3, <1>4, <1>6

\* The decoder reads the immediate that was encoded, in each of the five formats, for
\* every immediate that fits (imm_i to imm_j of decode.c; enc_i to enc_j there and
\* in tests/gen_demo_elf.py).
THEOREM ImmediatesRoundTrip ==
  ASSUME NEW rs2, NEW rs1, NEW f3, NEW rd, NEW o, NEW imm \in Int
  PROVE  /\ -2048 <= imm /\ imm < 2048 =>
               /\ imm_i(enc_i(imm, rs1, f3, rd, o)) = imm
               /\ imm_s(enc_s(imm, rs2, rs1, f3, o)) = imm
         /\ -4096 <= imm /\ imm < 4096 /\ imm % 2 = 0 =>
               imm_b(enc_b(imm, rs2, rs1, f3, o)) = imm
         /\ -1048576 <= imm /\ imm < 1048576 /\ imm % 2 = 0 =>
               imm_j(enc_j(imm, rd, o)) = imm
         /\ -524288 <= imm /\ imm < 524288 =>
               imm_u(enc_u(imm * 4096, rd, o)) = imm * 4096
<1>1. ASSUME -2048 <= imm, imm < 2048
      PROVE  imm_i(enc_i(imm, rs1, f3, rd, o)) = imm
  BY <1>1 DEF imm_i, enc_i, enc_r, Sext
<1>2. ASSUME -2048 <= imm, imm < 2048
      PROVE  imm_s(enc_s(imm, rs2, rs1, f3, o)) = imm
  BY <1>2 DEF imm_s, enc_s, enc_r, Sext
<1>3. ASSUME -4096 <= imm, imm < 4096, imm % 2 = 0
      PROVE  imm_b(enc_b(imm, rs2, rs1, f3, o)) = imm
  BY <1>3 DEF imm_b, enc_b, enc_r, Sext
<1> QED BY <1>1, <1>2, <1>3, UpperRoundTrip, JumpRoundTrip

\* The fields of a word, as inequalities.
LEMMA FieldBounds ==
  ASSUME NEW w \in Fields
  PROVE  /\ w.f7 \in Int /\ 0 <= w.f7 /\ w.f7 < 128
         /\ w.rs2 \in Int /\ 0 <= w.rs2 /\ w.rs2 < 32
         /\ w.rs1 \in Int /\ 0 <= w.rs1 /\ w.rs1 < 32
         /\ w.f3 \in Int /\ 0 <= w.f3 /\ w.f3 < 8
         /\ w.rd \in Int /\ 0 <= w.rd /\ w.rd < 32
         /\ w.op \in Int /\ 0 <= w.op /\ w.op < 128
         /\ w = enc_r(w.f7, w.rs2, w.rs1, w.f3, w.rd, w.op)
BY DEF Fields, enc_r

\* The bounds of a half word.
LEMMA ParcelIs ==
  ASSUME NEW c \in Int, 0 <= c, c < 65536
  PROVE  c \in Parcels
<1>1. ParcelCount \in Int /\ 65535 < ParcelCount
  BY DEF ParcelCount
<1> QED BY <1>1 DEF Parcels

\* A word stored as two half words is fetched as the same word (write32 of
\* tests/gen_demo_elf.py, mem_read16 and mem_read32).
THEOREM FetchJoinsHalves ==
  ASSUME NEW w \in Fields
  PROVE  /\ Halves(w)[1] \in Parcels /\ Halves(w)[2] \in Parcels
         /\ Joined(Halves(w)[1], Halves(w)[2]) = w
<1> DEFINE f7 == w.f7
           rs2 == w.rs2
           s == w.rs1 % 2
           t == w.rs1 \div 2
           f3 == w.f3
           rd == w.rd
           o == w.op
           lo == s * 32768 + f3 * 4096 + rd * 128 + o
           hi == f7 * 512 + rs2 * 16 + t
<1>1. /\ f7 \in Int /\ 0 <= f7 /\ f7 < 128
      /\ rs2 \in Int /\ 0 <= rs2 /\ rs2 < 32
      /\ f3 \in Int /\ 0 <= f3 /\ f3 < 8
      /\ rd \in Int /\ 0 <= rd /\ rd < 32
      /\ o \in Int /\ 0 <= o /\ o < 128
      /\ w = enc_r(f7, rs2, w.rs1, f3, rd, o)
  BY FieldBounds
<1>2. /\ s \in Int /\ 0 <= s /\ s < 2
      /\ t \in Int /\ 0 <= t /\ t < 16
      /\ t * 2 + s = w.rs1
  <2>1. \A r \in Int : 0 <= r /\ r < 32 =>
          /\ r % 2 \in Int /\ 0 <= r % 2 /\ r % 2 < 2
          /\ r \div 2 \in Int /\ 0 <= r \div 2 /\ r \div 2 < 16
          /\ (r \div 2) * 2 + (r % 2) = r
    OBVIOUS
  <2>2. w.rs1 \in Int /\ 0 <= w.rs1 /\ w.rs1 < 32
    BY FieldBounds
  <2> QED BY ONLY <2>1, <2>2
<1>3. Halves(w)[1] = lo /\ Halves(w)[2] = hi
  BY DEF Halves
<1> HIDE DEF f7, rs2, s, t, f3, rd, o
<1>4. hi \div 512 = f7
  BY ONLY <1>1, <1>2
<1>5. (hi \div 16) % 32 = rs2
  <2>1. hi \div 16 = f7 * 32 + rs2
    BY ONLY <1>1, <1>2
  <2> HIDE DEF hi
  <2> QED BY ONLY <2>1, <1>1
<1>6. hi % 16 = t
  BY ONLY <1>1, <1>2
<1>7. lo \div 32768 = s
  BY ONLY <1>1, <1>2
<1>8. (lo \div 4096) % 8 = f3
  <2>1. lo \div 4096 = s * 8 + f3
    BY ONLY <1>1, <1>2
  <2> HIDE DEF lo
  <2> QED BY ONLY <2>1, <1>1, <1>2
<1>9. (lo \div 128) % 32 = rd
  <2>1. lo \div 128 = (s * 8 + f3) * 32 + rd
    BY ONLY <1>1, <1>2
  <2> HIDE DEF lo
  <2> QED BY ONLY <2>1, <1>1, <1>2
<1>10. lo % 128 = o
  BY ONLY <1>1, <1>2
<1>11. lo \in Int /\ 0 <= lo /\ lo < 65536 /\ hi \in Int /\ 0 <= hi /\ hi < 65536
  BY ONLY <1>1, <1>2
<1> HIDE DEF lo, hi
<1>12. lo \in Parcels /\ hi \in Parcels
  BY <1>11, ParcelIs
<1>13. Joined(lo, hi) = enc_r(f7, rs2, w.rs1, f3, rd, o)
  BY <1>2, <1>4, <1>5, <1>6, <1>7, <1>8, <1>9, <1>10 DEF Joined, enc_r
<1> QED BY <1>1, <1>3, <1>12, <1>13

\* What decode and expand_compressed give.
Decoded == [raw : Fields, len : {2, 4}, imm : Int]

\* An immediate is an integer.
LEMMA ImmediateType ==
  ASSUME NEW w \in Fields
  PROVE  Immediate(w) \in Int
<1>1. /\ w.f7 \in Int /\ w.rs2 \in Int /\ w.rs1 \in Int /\ w.f3 \in Int /\ w.rd \in Int
  BY FieldBounds
<1>3. imm_i(w) \in Int /\ imm_s(w) \in Int /\ imm_u(w) \in Int
  BY SMT, <1>1 DEF imm_i, imm_s, imm_u, Sext
<1>4. imm_b(w) \in Int
  BY SMT, <1>1 DEF imm_b, Sext
<1>5. imm_j(w) \in Int
  BY SMT, <1>1 DEF imm_j, Sext
<1> QED BY <1>3, <1>4, <1>5 DEF Immediate

\* What decode returns.
LEMMA DecodeType ==
  ASSUME NEW w \in Fields, NEW len \in {2, 4}
  PROVE  decode(w, len) \subseteq Decoded
BY ImmediateType DEF decode, Decoded

\* The values of the fields of 3 and of 7 bits.
Codes3 == 0 .. 7
Codes7 == 0 .. 127

\* Remainders by the sizes of fields.
LEMMA FieldRanges ==
  ASSUME NEW n \in Int
  PROVE  /\ n % 128 \in 0 .. 127 /\ n % 32 \in 0 .. 31 /\ n % 8 \in 0 .. 7
         /\ n % 2 \in 0 .. 1 /\ n % 16 \in 0 .. 15 /\ n % 64 \in 0 .. 63
  OBVIOUS

\* Shifted immediates are integers.
LEMMA Shifted32 ==
  ASSUME NEW n \in Int
  PROVE  /\ n \div 2 \in Int /\ n \div 32 \in Int /\ n \div 2048 \in Int /\ n \div 4096 \in Int
         /\ n \div 32768 \in Int /\ n \div 1048576 \in Int /\ n \div 33554432 \in Int
  BY SMT

\* Each encoder gives a word, whatever the immediate.
LEMMA EncodeI ==
  ASSUME NEW imm \in Int, NEW rs1 \in Registers, NEW f3 \in Codes3, NEW rd \in Registers,
         NEW o \in Codes7
  PROVE  enc_i(imm, rs1, f3, rd, o) \in Fields
BY FieldRanges, Shifted32 DEF enc_i, enc_r, Fields, Registers, Codes3, Codes7

\* The same for stores.
LEMMA EncodeS ==
  ASSUME NEW imm \in Int, NEW rs2 \in Registers, NEW rs1 \in Registers, NEW f3 \in Codes3,
         NEW o \in Codes7
  PROVE  enc_s(imm, rs2, rs1, f3, o) \in Fields
BY FieldRanges, Shifted32 DEF enc_s, enc_r, Fields, Registers, Codes3, Codes7

\* The same for upper immediates.
LEMMA EncodeU ==
  ASSUME NEW imm \in Int, NEW rd \in Registers, NEW o \in Codes7
  PROVE  enc_u(imm, rd, o) \in Fields
BY SMT, FieldRanges, Shifted32 DEF enc_u, enc_r, Fields, Registers, Codes7

\* The same for branches.
LEMMA EncodeB ==
  ASSUME NEW imm \in Int, NEW rs2 \in Registers, NEW rs1 \in Registers, NEW f3 \in Codes3,
         NEW o \in Codes7
  PROVE  enc_b(imm, rs2, rs1, f3, o) \in Fields
<1> DEFINE s == (imm \div 4096) % 2
           m == (imm \div 32) % 64
           l == (imm \div 2) % 16
           b == (imm \div 2048) % 2
<1>1. s \in 0 .. 1 /\ m \in 0 .. 63 /\ l \in 0 .. 15 /\ b \in 0 .. 1
  BY SMT
<1>2. enc_b(imm, rs2, rs1, f3, o) = enc_r(s * 64 + m, rs2, rs1, f3, l * 2 + b, o)
  BY SMT DEF enc_b
<1> HIDE DEF s, m, l, b
<1>3. s * 64 + m \in 0 .. 127 /\ l * 2 + b \in 0 .. 31
  BY SMT, <1>1
<1> QED BY SMT, <1>2, <1>3 DEF enc_r, Fields, Registers, Codes3, Codes7

\* The same for jumps.
LEMMA EncodeJ ==
  ASSUME NEW imm \in Int, NEW rd \in Registers, NEW o \in Codes7
  PROVE  enc_j(imm, rd, o) \in Fields
<1> DEFINE s == (imm \div 1048576) % 2
           m == (imm \div 32) % 64
           l == (imm \div 2) % 16
           b == (imm \div 2048) % 2
           h == (imm \div 32768) % 32
           k == (imm \div 4096) % 8
<1>1. /\ s \in 0 .. 1 /\ m \in 0 .. 63 /\ l \in 0 .. 15 /\ b \in 0 .. 1
      /\ h \in 0 .. 31 /\ k \in 0 .. 7
  BY SMT
<1>2. enc_j(imm, rd, o) = enc_r(s * 64 + m, l * 2 + b, h, k, rd, o)
  BY SMT DEF enc_j
<1> HIDE DEF s, m, l, b, h, k
<1>3. s * 64 + m \in 0 .. 127 /\ l * 2 + b \in 0 .. 31
  BY SMT, <1>1
<1> QED BY SMT, <1>1, <1>2, <1>3 DEF enc_r, Fields, Registers, Codes7

\* The register fields of a 16-bit instruction.
LEMMA CompressedFields ==
  ASSUME NEW c \in Int
  PROVE  /\ C_RD(c) \in Registers /\ C_RS2(c) \in Registers
         /\ C_RS1P(c) \in Registers /\ C_RS2P(c) \in Registers
         /\ Part(c, 4096, 2) \in 0 .. 1 /\ Part(c, 32, 4) \in 0 .. 3
<1>1. C_RD(c) \in 0 .. 31 /\ C_RS2(c) \in 0 .. 31
  BY SMT DEF C_RD, C_RS2, Part
<1>2. Part(c, 128, 8) \in 0 .. 7 /\ Part(c, 4, 8) \in 0 .. 7
  BY SMT DEF Part
<1>3. C_RS1P(c) \in 0 .. 31 /\ C_RS2P(c) \in 0 .. 31
  BY <1>2 DEF C_RS1P, C_RS2P
<1>4. Part(c, 4096, 2) \in 0 .. 1 /\ Part(c, 32, 4) \in 0 .. 3
  BY SMT DEF Part
<1> QED BY <1>1, <1>3, <1>4 DEF Registers

\* Its immediates.
LEMMA CompressedImmediates ==
  ASSUME NEW c \in Int
  PROVE  /\ c_imm6(c) \in Int /\ c_uimm_addi4spn(c) \in Int /\ c_uimm_lw(c) \in Int
         /\ c_uimm_lwsp(c) \in Int /\ c_uimm_swsp(c) \in Int /\ c_imm_b(c) \in Int
         /\ c_imm_j(c) \in Int /\ c_imm_addi16sp(c) \in Int /\ Part(c, 1024, 4) \in Int
<1>1. \A d \in Int, n \in Int : d > 0 /\ n > 0 => Part(c, d, n) \in Int
  BY DEF Part
<1> QED BY SMT, <1>1 DEF c_imm6, c_uimm_addi4spn, c_uimm_lw, c_uimm_lwsp, c_uimm_swsp, c_imm_b,
                    c_imm_j, c_imm_addi16sp

\* The registers, functions and opcodes the expansion names.
LEMMA NamedCodes ==
  /\ 0 \in Registers /\ 1 \in Registers /\ 2 \in Registers
  /\ 0 \in Codes3 /\ 1 \in Codes3 /\ 2 \in Codes3 /\ 5 \in Codes3 /\ 7 \in Codes3
  /\ OP_ALUI \in Codes7 /\ OP_ALU \in Codes7 /\ OP_LOAD \in Codes7 /\ OP_STORE \in Codes7
  /\ OP_LUI \in Codes7 /\ OP_JAL \in Codes7 /\ OP_JALR \in Codes7 /\ OP_BRANCH \in Codes7
  /\ OP_SYSTEM \in Codes7
BY DEF Registers, Codes3, Codes7, OP_ALUI, OP_ALU, OP_LOAD, OP_STORE, OP_LUI, OP_JAL, OP_JALR,
       OP_BRANCH, OP_SYSTEM

\* A 16-bit instruction expands to 32-bit ones only.
LEMMA ExpansionType ==
  ASSUME NEW c \in Int
  PROVE  expand_compressed(c) \subseteq Fields
<1>a. /\ c_imm6(c) \in Int /\ c_uimm_addi4spn(c) \in Int /\ c_uimm_lw(c) \in Int
      /\ c_uimm_lwsp(c) \in Int /\ c_uimm_swsp(c) \in Int /\ c_imm_b(c) \in Int
      /\ c_imm_j(c) \in Int /\ c_imm_addi16sp(c) \in Int /\ Part(c, 1024, 4) \in Int
  BY CompressedImmediates
<1>b. /\ C_RD(c) \in Registers /\ C_RS2(c) \in Registers
      /\ C_RS1P(c) \in Registers /\ C_RS2P(c) \in Registers
      /\ Part(c, 4096, 2) \in 0 .. 1 /\ Part(c, 32, 4) \in 0 .. 3
  BY CompressedFields
<1> USE NamedCodes
<1>1. Quadrant0(c) \subseteq Fields
  <2>1. enc_i(c_uimm_addi4spn(c), 2, 0, C_RS2P(c), OP_ALUI) \in Fields
    BY <1>a, <1>b, EncodeI
  <2>2. enc_i(c_uimm_lw(c), C_RS1P(c), 2, C_RS2P(c), OP_LOAD) \in Fields
    BY <1>a, <1>b, EncodeI
  <2>3. enc_s(c_uimm_lw(c), C_RS2P(c), C_RS1P(c), 2, OP_STORE) \in Fields
    BY <1>a, <1>b, EncodeS
  <2> QED BY <2>1, <2>2, <2>3 DEF Quadrant0, Row
<1>2. Arithmetic(c) \subseteq Fields
  <2> DEFINE k == Part(c, 32, 4)
             shamt == c_imm6(c) + Part(c, 1024, 4) * 1024
             imm == Sext(c_imm6(c), 32)
  <2>1. k \in 0 .. 3 /\ shamt \in Int /\ imm \in Int
    BY <1>a, <1>b DEF Sext
  <2> HIDE DEF shamt, imm
  <2>2. enc_i(shamt, C_RS1P(c), 5, C_RS1P(c), OP_ALUI) \in Fields
    BY <1>b, <2>1, EncodeI
  <2>3. enc_i(imm, C_RS1P(c), 7, C_RS1P(c), OP_ALUI) \in Fields
    BY <1>b, <2>1, EncodeI
  <2>4. <<32, 0, 0, 0>>[k + 1] \in 0 .. 127 /\ <<0, 4, 6, 7>>[k + 1] \in 0 .. 7
    BY <2>1
  <2>5. enc_r(<<32, 0, 0, 0>>[k + 1], C_RS2P(c), C_RS1P(c), <<0, 4, 6, 7>>[k + 1], C_RS1P(c), OP_ALU)
          \in Fields
    BY <1>b, <2>4 DEF enc_r, Fields, Registers, Codes7
  <2> QED BY <2>2, <2>3, <2>5 DEF Arithmetic, Row, shamt, imm
<1>3. Quadrant1(c) \subseteq Fields
  <2> DEFINE imm6 == Sext(c_imm6(c), 32)
             upper6 == imm6 * 4096
             jump == Sext(c_imm_j(c), 2048)
             near == Sext(c_imm_b(c), 256)
             wide == Sext(c_imm_addi16sp(c), 512)
  <2>1. imm6 \in Int /\ jump \in Int /\ near \in Int /\ wide \in Int /\ upper6 \in Int
    <3>1. imm6 \in Int /\ jump \in Int /\ near \in Int /\ wide \in Int
      BY <1>a DEF Sext
    <3> HIDE DEF imm6
    <3> QED BY <3>1
  <2> HIDE DEF imm6, upper6, jump, near, wide
  <2>2. enc_i(imm6, C_RD(c), 0, C_RD(c), OP_ALUI) \in Fields
    BY <1>b, <2>1, EncodeI
  <2>3. enc_i(imm6, 0, 0, C_RD(c), OP_ALUI) \in Fields
    BY <1>b, <2>1, EncodeI
  <2>4. enc_i(wide, 2, 0, 2, OP_ALUI) \in Fields
    BY <1>b, <2>1, EncodeI
  <2>5. enc_u(upper6, C_RD(c), OP_LUI) \in Fields
    BY <1>b, <2>1, EncodeU
  <2>6. enc_j(jump, 0, OP_JAL) \in Fields
    BY <1>b, <2>1, EncodeJ
  <2>7. enc_j(jump, 1, OP_JAL) \in Fields
    BY <1>b, <2>1, EncodeJ
  <2>8. enc_b(near, 0, C_RS1P(c), 0, OP_BRANCH) \in Fields
    BY <1>b, <2>1, EncodeB
  <2>9. enc_b(near, 0, C_RS1P(c), 1, OP_BRANCH) \in Fields
    BY <1>b, <2>1, EncodeB
  <2> QED BY <1>2, <2>2, <2>3, <2>4, <2>5, <2>6, <2>7, <2>8, <2>9
          DEF Quadrant1, Row, imm6, upper6, jump, near, wide
<1>4. Quadrant2(c) \subseteq Fields
  <2> DEFINE link == Part(c, 4096, 2)
             rs1 == link * C_RD(c)
  <2>1. link \in Registers /\ rs1 \in Registers
    <3>1. link = 0 \/ link = 1
      BY SMT, <1>b
    <3>2. C_RD(c) \in Int
      BY <1>b DEF Registers
    <3> HIDE DEF link
    <3> QED BY <1>b, <3>1, <3>2 DEF Registers
  <2> HIDE DEF link, rs1
  <2>2. enc_i(c_imm6(c), C_RD(c), 1, C_RD(c), OP_ALUI) \in Fields
    BY <1>a, <1>b, EncodeI
  <2>3. enc_i(c_uimm_lwsp(c), 2, 2, C_RD(c), OP_LOAD) \in Fields
    BY <1>a, <1>b, EncodeI
  <2>4. enc_i(0, C_RD(c), 0, link, OP_JALR) \in Fields
    BY <1>b, <2>1, EncodeI
  <2>5. enc_i(1, 0, 0, 0, OP_SYSTEM) \in Fields
    BY EncodeI
  <2>6. enc_s(c_uimm_swsp(c), C_RS2(c), 2, 2, OP_STORE) \in Fields
    BY <1>a, <1>b, EncodeS
  <2>7. enc_r(0, C_RS2(c), rs1, 0, C_RD(c), OP_ALU) \in Fields
    BY <1>b, <2>1 DEF enc_r, Fields, Registers, Codes7
  <2> QED BY <2>2, <2>3, <2>4, <2>5, <2>6, <2>7 DEF Quadrant2, Row, link, rs1
<1> QED BY <1>1, <1>3, <1>4 DEF expand_compressed

\* What a fetch gives.
LEMMA JoinedType ==
  ASSUME NEW lo \in Parcels, NEW hi \in Parcels
  PROVE  Joined(lo, hi) \in Fields
<1>0. ParcelCount \in Int /\ ParcelCount <= 65536
  BY SMT DEF ParcelCount
<1>1. /\ lo \in Int /\ 0 <= lo /\ lo < 65536 /\ hi \in Int /\ 0 <= hi /\ hi < 65536
  BY SMT, <1>0 DEF Parcels
<1> HIDE DEF Parcels
<1>2. /\ hi \div 512 \in 0 .. 127 /\ (hi \div 16) % 32 \in 0 .. 31
      /\ (lo \div 4096) % 8 \in 0 .. 7
      /\ (lo \div 128) % 32 \in 0 .. 31 /\ lo % 128 \in 0 .. 127
  BY SMT, <1>1
<1>3. hi % 16 \in 0 .. 15 /\ lo \div 32768 \in 0 .. 1
  BY SMT, <1>1
<1>4. (hi % 16) * 2 + (lo \div 32768) \in 0 .. 31
  BY SMT, <1>3
<1> QED BY SMT, <1>2, <1>4 DEF Joined, Fields

\* What is fetched and decoded is an instruction.
LEMMA InstructionType ==
  ASSUME boot \in Boots
  PROVE  Instruction \subseteq Decoded
<1>1. \A a : Parcel(a) \in Parcels
  <2>1. 0 \in Parcels
    BY ParcelIs
  <2> QED BY <2>1, BootAssumption DEF Parcel, IsBoot
<1>2. \A c \in Parcels : c \in Int
  BY ONLY DEF Parcels
<1>3. UNION {decode(w, 2) : w \in expand_compressed(Parcel(pc))} \subseteq Decoded
  BY <1>1, <1>2, ExpansionType, DecodeType
<1>4. decode(Joined(Parcel(pc), Parcel(pc + 2)), 4) \subseteq Decoded
  BY <1>1, JoinedType, DecodeType
<1> QED BY <1>3, <1>4 DEF Instruction

\* The parts of an instruction the handlers use.
LEMMA DecodedFields ==
  ASSUME NEW i \in Decoded
  PROVE  /\ i.imm \in Int /\ i.len \in Int
         /\ i.raw.rs1 \in Registers /\ i.raw.rs2 \in Registers /\ i.raw.rd \in Registers
         /\ i.raw.f3 \in 0 .. 7
<1>1. i.imm \in Int /\ i.len \in Int /\ i.raw \in Fields
  BY DEF Decoded
<1> QED BY <1>1 DEF Fields, Registers

-----------------------------------------------------------------------------
\* Results of the integer unit.

\* A word has two halves and four bytes.
LEMMA Widths ==
  /\ XLEN \in Nat /\ XLEN >= 12
  /\ XLEN \div 2 \in 0 .. XLEN /\ XLEN \div 4 \in 3 .. XLEN
  /\ (XLEN \div 4) * 4 = XLEN /\ (XLEN \div 4) * 2 = XLEN \div 2
<1>1. XLEN \in Nat /\ XLEN >= 12 /\ XLEN % 4 = 0
  BY WidthAssumption
<1> QED BY ONLY <1>1

\* A quotient is not above the dividend.
LEMMA QuotientType ==
  ASSUME NEW a \in Nat, NEW b \in Nat \ {0}
  PROVE  a \div b \in Nat /\ a \div b <= a
<1> DEFINE q == a \div b
           r == a % b
<1>1. q \in Int /\ r \in Int /\ 0 <= r /\ r < b /\ a = b * q + r
  OBVIOUS
<1> HIDE DEF q, r
<1>2. q >= 0
  <2>1. CASE q <= -1
    <3>1. b * q <= -b
      BY <1>1, <2>1
    <3> QED BY <1>1, <3>1
  <2> QED BY <1>1, <2>1
<1>3. b * q >= q
  BY <1>1, <1>2
<1> QED BY <1>1, <1>2, <1>3 DEF q

\* RV32M results are words.
LEMMA MulDivType ==
  ASSUME NEW f3, NEW a \in Words, NEW b \in Words
  PROVE  MulDiv(f3, a, b) \in Words
<1>1. /\ Signed(a) \in Int /\ Signed(b) \in Int /\ a \in Nat /\ b \in Nat /\ Size \in Nat \ {0}
      /\ Half \in Words /\ Size - 1 \in Words /\ 0 \in Words
  BY SignedType, WordSizes
<1>2. \A n \in Int : High(n) \in Words
  BY <1>1, WrapType DEF High
<1>3. Signed(a) * Signed(b) \in Int /\ Signed(a) * b \in Int
  BY <1>1
<1>4. HighUnsigned(a, b) \in Words
  <2> DEFINE r == Pow2[XLEN \div 2]
  <2>1. r \in Nat \ {0}
    BY Widths, PowerType
  <2> HIDE DEF r
  <2>2. b \div r \in Int /\ b % r \in Int
    BY <1>1, <2>1
  <2>3. (a * (b \div r) + ((a * (b % r)) \div r)) \div r \in Int
    <3>1. a * (b \div r) \in Int /\ a * (b % r) \in Int
      BY <1>1, <2>2
    <3>2. (a * (b % r)) \div r \in Int
      BY <2>1, <3>1
    <3> QED BY <2>1, <3>1, <3>2
  <2> QED BY <2>3, WrapType DEF HighUnsigned, r
<1>5. b # 0 => Signed(b) \in Int \ {0}
  BY <1>1, SignedType, WrapWord
<1>6. rv_div(a, b) \in Words /\ rv_rem(a, b) \in Words
  BY <1>1, <1>5, TruncatedDivision, WrapType DEF rv_div, rv_rem
<1>7. rv_divu(a, b) \in Words
  <2>1. CASE b = 0
    BY <1>1, <2>1 DEF rv_divu
  <2>2. CASE b # 0
    <3>1. a \div b \in Nat /\ a \div b <= a
      BY <1>1, <2>2, QuotientType
    <3> QED BY <2>2, <3>1, WordSizes DEF rv_divu
  <2> QED BY <2>1, <2>2
<1>8. rv_remu(a, b) \in Words
  <2>1. CASE b = 0
    BY <2>1 DEF rv_remu
  <2>2. CASE b # 0
    <3>1. a % b \in Int /\ 0 <= a % b /\ a % b < b
      BY <1>1, <2>2
    <3> QED BY <2>2, <3>1, WordSizes DEF rv_remu
  <2> QED BY <2>1, <2>2
<1> QED BY <1>2, <1>3, <1>4, <1>6, <1>7, <1>8, WrapType DEF MulDiv

Operations == {0, 4, 8, 12, 44}        \* add, subtract, multiply, divide, square root
HostModes == {"TONEAREST", "TOWARDZERO", "DOWNWARD", "UPWARD"}

\* What the host computes is of the host's types.
HostTyped ==
    /\ \A a, b \in Words : BitAnd(a, b) \in Words /\ BitOr(a, b) \in Words /\ BitXor(a, b) \in Words
    /\ \A o \in Operations, mode \in HostModes, a \in Words, b \in Words :
          \A r \in HostArith(o, mode, a, b) : r.bits \in Words /\ r.flags \subseteq Flags

\* So are those of the other register operations,
LEMMA ArithType ==
  ASSUME HostTyped, NEW f3, NEW alt \in BOOLEAN, NEW a \in Words, NEW b \in Words
  PROVE  Arith(f3, alt, a, b) \in Words
<1>1. /\ Signed(a) \in Int /\ Signed(b) \in Int /\ a \in Nat /\ b \in Nat
      /\ 0 \in Words /\ 1 \in Words
  BY SignedType, WordSizes
<1> DEFINE n == b % XLEN
           p == Pow2[n]
<1>2. p \in Nat \ {0}
  <2>1. n \in 0 .. XLEN
    BY ONLY <1>1, Widths
  <2> QED BY <2>1, PowerType
<1> HIDE DEF n, p
<1>3. Sub(alt, a, b) \in Words
  <2>1. a - b \in Int /\ a + b \in Int
    BY <1>1
  <2> QED BY <2>1, WrapType DEF Sub
<1>4. Wrap(a * p) \in Words
  <2>1. a * p \in Int
    BY <1>1, <1>2
  <2> QED BY <2>1, WrapType
<1>5. ShiftRight(alt, a, n) \in Words
  <2>1. Signed(a) \div p \in Int
    BY <1>1, <1>2
  <2>2. a \div p \in Nat /\ a \div p <= a
    BY <1>1, <1>2, QuotientType
  <2>3. a \div p \in Words
    BY <2>2, WordSizes
  <2> QED BY <2>1, <2>3, WrapType DEF ShiftRight, p
<1>6. \A c \in BOOLEAN : Truth(c) \in Words
  BY <1>1 DEF Truth
<1>7. BitXor(a, b) \in Words /\ BitOr(a, b) \in Words /\ BitAnd(a, b) \in Words
  BY DEF HostTyped
<1>8. Truth(Signed(a) < Signed(b)) \in Words /\ Truth(a < b) \in Words
  BY <1>1 DEF Truth
<1> QED BY <1>3, <1>4, <1>5, <1>7, <1>8 DEF Arith, n, p

\* and what OP_ALU, OP_ALUI, LUI and AUIPC write.
LEMMA ComputedType ==
  ASSUME HostTyped, regs \in [Registers -> Words], pc \in Words, NEW i \in Decoded
  PROVE  Computed(i) \in Words
<1>1. /\ i.imm \in Int /\ rs1_val(i) \in Words /\ rs2_val(i) \in Words
      /\ pc \in Int
  BY DecodedFields, WordSizes DEF rs1_val, rs2_val
<1>2. Wrap(i.imm) \in Words /\ Wrap(pc + i.imm) \in Words
  <2>1. pc + i.imm \in Int
    BY <1>1
  <2> QED BY <1>1, <2>1, WrapType
<1>3. op_alui(i.raw.f7, i.raw.f3, rs1_val(i), i.imm) \in Words
  <2>1. (i.raw.f3 = 5 /\ i.raw.f7 = 32) \in BOOLEAN
    OBVIOUS
  <2> QED BY <1>1, <1>2, <2>1, ArithType DEF op_alui
<1>4. op_alu(i.raw.f7, i.raw.f3, rs1_val(i), rs2_val(i)) \in Words
  <2>1. (i.raw.f7 = 32) \in BOOLEAN
    OBVIOUS
  <2> QED BY <1>1, <2>1, ArithType, MulDivType DEF op_alu
<1> QED BY <1>2, <1>3, <1>4 DEF Computed

-----------------------------------------------------------------------------
\* Memory.

Bytes == 0 .. ByteSize - 1

MemOK == /\ DOMAIN mem \subseteq 0 .. MemSize - 1
         /\ \A a \in DOMAIN mem : mem[a] \in Bytes

\* Two digits make a number of both sizes.
LEMMA TwoDigits ==
  ASSUME NEW m \in Nat \ {0}, NEW n \in Nat \ {0}, NEW x \in 0 .. m - 1, NEW y \in 0 .. n - 1
  PROVE  x + m * y \in 0 .. m * n - 1
<1>1. m * y <= m * (n - 1)
  BY y <= n - 1
<1>2. m * (n - 1) = m * n - m
  OBVIOUS
<1>3. m * y \in Nat /\ m * n \in Nat
  OBVIOUS
<1> QED BY <1>1, <1>2, <1>3

\* A byte, a half word, a word.
LEMMA ByteSizes ==
  /\ ByteSize \in Nat \ {0} /\ ByteSize <= Size
  /\ Pow2[XLEN \div 2] = ByteSize * ByteSize
  /\ Size = (ByteSize * ByteSize) * (ByteSize * ByteSize)
  /\ ByteSize * ByteSize \in Nat \ {0} /\ ByteSize * ByteSize <= Size
<1> DEFINE q == XLEN \div 4
           h == XLEN \div 2
<1>1. /\ q \in 0 .. XLEN /\ h \in 0 .. XLEN /\ XLEN \in 0 .. XLEN
      /\ q + q = h /\ h + h = XLEN /\ q <= XLEN /\ h <= XLEN
  BY ONLY Widths
<1>2. Pow2[q] = ByteSize /\ Pow2[XLEN] = Size
  BY DEF ByteSize, Size
<1> HIDE DEF q, h
<1>3. Pow2[h] = Pow2[q] * Pow2[q] /\ Size = Pow2[h] * Pow2[h]
  BY <1>1, <1>2, PowerSum
<1>4. Pow2[q] \in Nat \ {0} /\ Pow2[h] \in Nat \ {0} /\ Pow2[q] <= Size /\ Pow2[h] <= Size
  BY <1>1, <1>2, PowerType, PowerMonotone
<1> QED BY <1>2, <1>3, <1>4 DEF h

\* What n bytes of the memory hold.
Capacity(n) == IF n = 1 THEN ByteSize ELSE IF n = 2 THEN ByteSize * ByteSize ELSE Size

\* A byte of the memory, written or not.
LEMMA ByteType ==
  ASSUME MemOK, NEW a
  PROVE  Byte(a) \in Bytes
<1>1. 0 \in Bytes
  BY ByteSizes DEF Bytes
<1> QED BY <1>1 DEF Byte, MemOK

\* What n bytes of memory read as.
LEMMA ValueType ==
  ASSUME MemOK, NEW a, NEW n \in {1, 2, 4}
  PROVE  Value(a, n) \in 0 .. Capacity(n) - 1
<1> DEFINE b0 == Byte(a)
           b1 == Byte(a + 1)
           b2 == Byte(a + 2)
           b3 == Byte(a + 3)
           h  == ByteSize * ByteSize
<1>1. b0 \in 0 .. ByteSize - 1 /\ b1 \in 0 .. ByteSize - 1
      /\ b2 \in 0 .. ByteSize - 1 /\ b3 \in 0 .. ByteSize - 1
  BY ByteType DEF Bytes
<1> HIDE DEF b0, b1, b2, b3
<1>2. b0 + ByteSize * b1 \in 0 .. h - 1 /\ b2 + ByteSize * b3 \in 0 .. h - 1
  BY <1>1, ByteSizes, TwoDigits
<1> DEFINE lo == b0 + ByteSize * b1
           hi == b2 + ByteSize * b3
<1>3. lo + h * hi \in 0 .. Size - 1
  <2>1. h \in Nat \ {0} /\ Size = h * h
    BY ByteSizes
  <2>2. lo \in 0 .. h - 1 /\ hi \in 0 .. h - 1
    BY <1>2
  <2> HIDE DEF h, lo, hi
  <2> QED BY <2>1, <2>2, TwoDigits
<1>4. CASE n = 1
  <2>1. Value(a, n) = b0 + 0 + 0
    BY <1>4 DEF Value, b0
  <2> QED BY <1>1, <1>4, <2>1 DEF Capacity
<1>5. CASE n = 2
  <2>1. Value(a, n) = lo + 0
    BY <1>5 DEF Value, b0, b1
  <2>2. Capacity(n) = h
    BY <1>5 DEF Capacity
  <2> HIDE DEF lo, h
  <2> QED BY <1>2, <2>1, <2>2 DEF lo
<1>6. CASE n = 4
  <2>1. Value(a, n) = lo + h * hi
    BY <1>6, ByteSizes DEF Value, b0, b1, b2, b3
  <2>2. Capacity(n) = Size
    BY <1>6 DEF Capacity
  <2> QED BY <1>3, <2>1, <2>2
<1> QED BY <1>4, <1>5, <1>6

\* The number of values n bytes have.
LEMMA CapacityType ==
  ASSUME NEW n \in {1, 2, 4}
  PROVE  /\ Capacity(n) \in Nat \ {0} /\ Capacity(n) <= Size
         /\ Pow2[(XLEN \div 4) * n] = Capacity(n)
<1>1. Capacity(n) \in Nat \ {0} /\ Capacity(n) <= Size
  BY ByteSizes DEF Capacity
<1>2. Pow2[(XLEN \div 4) * n] = Capacity(n)
  <2> DEFINE q == XLEN \div 4
  <2>1. q \in Int /\ q * 4 = XLEN /\ q * 2 = XLEN \div 2
    BY Widths
  <2>2. Pow2[q] = ByteSize /\ Pow2[XLEN] = Size
    BY DEF ByteSize, Size
  <2> HIDE DEF q
  <2>3. CASE n = 1
    <3>1. q * n = q
      BY <2>1, <2>3
    <3> QED BY <2>2, <2>3, <3>1 DEF Capacity, q
  <2>4. CASE n = 2
    <3>1. q * n = XLEN \div 2
      BY <2>1, <2>4
    <3> QED BY <2>4, <3>1, ByteSizes DEF Capacity, q
  <2>5. CASE n = 4
    <3>1. q * n = XLEN
      BY <2>1, <2>5
    <3> QED BY <2>2, <2>5, <3>1 DEF Capacity, q
  <2> QED BY <2>3, <2>4, <2>5
<1> QED BY <1>1, <1>2

\* Sign extension gives a word.
LEMMA SignExtendedType ==
  ASSUME NEW n \in {1, 2, 4}, NEW v \in 0 .. Capacity(n) - 1
  PROVE  SignExtended(v, n) \in Words /\ v \in Words
<1>1. /\ Capacity(n) \in Nat \ {0} /\ Capacity(n) <= Size
      /\ Pow2[(XLEN \div 4) * n] = Capacity(n)
  BY CapacityType
<1>2. v \in Int /\ 0 <= v /\ v < Capacity(n)
  BY <1>1
<1>3. v \in Words
  BY <1>1, <1>2, WordSizes
<1>4. v + Size - Capacity(n) \in Words
  BY <1>1, <1>2, WordSizes
<1> QED BY <1>1, <1>3, <1>4 DEF SignExtended

\* A store inside the memory leaves bytes there and nothing elsewhere.
LEMMA StoredType ==
  ASSUME MemOK, NEW a \in Words, NEW n \in {1, 2, 4}, NEW val \in Words, InMemory(a, n)
  PROVE  /\ DOMAIN Stored(a, n, val) \subseteq 0 .. MemSize - 1
         /\ \A x \in DOMAIN Stored(a, n, val) : Stored(a, n, val)[x] \in Bytes
<1> DEFINE D == DOMAIN mem \cup (a .. a + n - 1)
<1>1. a \in Nat /\ a + n <= MemSize /\ MemSize \in Int /\ val \in Int
  BY WordSizes, MemoryAssumption DEF InMemory
<1>2. D \subseteq 0 .. MemSize - 1
  BY <1>1 DEF MemOK
<1>3. \A x \in a .. a + n - 1 :
        (val \div Pow2[(XLEN \div 4) * (x - a)]) % ByteSize \in Bytes
  <2> SUFFICES ASSUME NEW x \in a .. a + n - 1
               PROVE  (val \div Pow2[(XLEN \div 4) * (x - a)]) % ByteSize \in Bytes
    OBVIOUS
  <2> DEFINE k == (XLEN \div 4) * (x - a)
             p == Pow2[k]
  <2>1. k \in 0 .. XLEN
    <3>1. x - a \in {0, 1, 2, 3}
      BY <1>1
    <3>2. XLEN \div 4 \in Nat /\ XLEN = (XLEN \div 4) * 4
      BY Widths
    <3> QED BY ONLY <3>1, <3>2
  <2> HIDE DEF k
  <2>2. p \in Nat \ {0}
    BY <2>1, PowerType
  <2> HIDE DEF p
  <2>3. val \div p \in Int
    BY <1>1, <2>2
  <2>4. (val \div p) % ByteSize \in Bytes
    BY <2>3, ByteSizes DEF Bytes
  <2> QED BY <2>4 DEF p, k
<1>4. DOMAIN Stored(a, n, val) = D
  BY DEF Stored
<1>5. \A x \in D : Stored(a, n, val)[x] \in Bytes
  BY <1>3 DEF Stored, MemOK
<1> QED BY <1>2, <1>4, <1>5

\* An address is a word.
LEMMA TargetType ==
  ASSUME regs \in [Registers -> Words], NEW i \in Decoded
  PROVE  Target(i) \in Words
<1>1. rs1_val(i) \in Int /\ i.imm \in Int
  BY DecodedFields, WordSizes DEF rs1_val
<1>2. rs1_val(i) + i.imm \in Int
  BY <1>1
<1> QED BY <1>2, WrapType DEF Target

\* The widths of the loads and stores that are accepted.
LEMMA WidthType ==
  ASSUME NEW i \in Decoded, i.raw.f3 \in {0, 1, 2, 4, 5}
  PROVE  Width(i) \in {1, 2, 4}
BY DEF Width

-----------------------------------------------------------------------------
\* Control and status registers.

CsrOK == /\ csr \in [HeldCsrs -> Words]
         /\ csr[CSR_FRM] \in 0 .. 7

\* Small numbers are words.
LEMMA SmallWords ==
  ASSUME NEW n \in 0 .. 255
  PROVE  n \in Words
BY WordSizes

\* The timer poll changes mip only.
LEMMA PolledType ==
  ASSUME CsrOK
  PROVE  /\ Polled \in [HeldCsrs -> Words]
         /\ Polled[CSR_FRM] \in 0 .. 7
<1>1. 0 \in Words /\ MIP_MTIP \in Words
  BY SmallWords DEF MIP_MTIP
<1>2. CSR_MIP \in HeldCsrs /\ CSR_FRM \in HeldCsrs /\ CSR_FRM # CSR_MIP
  BY DEF HeldCsrs, CSR_MIP, CSR_FRM
<1> QED BY <1>1, <1>2 DEF Polled, CsrOK

\* The five flags as a number.
LEMMA FlagNumber ==
  ASSUME NEW s
  PROVE  Number(s) \in 0 .. 31
<1>1. /\ Pow2[FlagBit[FP_NX]] = 1 /\ Pow2[FlagBit[FP_UF]] = 2 /\ Pow2[FlagBit[FP_OF]] = 4
      /\ Pow2[FlagBit[FP_DZ]] = 8 /\ Pow2[FlagBit[FP_NV]] = 16
  BY SmallPowers DEF FlagBit, FP_NX, FP_UF, FP_OF, FP_DZ, FP_NV
<1> QED BY <1>1 DEF Number

\* A CSR reads as a word.
LEMMA CsrReadType ==
  ASSUME CsrOK, mcycle \in Nat, NEW a \in Csrs
  PROVE  csr_read(a) \in Words
<1>1. Number(fflags) \in 0 .. 31 /\ Polled[CSR_FRM] \in 0 .. 7
  BY FlagNumber, PolledType
<1>2. Number(fflags) \in Words /\ 32 * Polled[CSR_FRM] + Number(fflags) \in Words
  <2>1. Number(fflags) \in 0 .. 255 /\ 32 * Polled[CSR_FRM] + Number(fflags) \in 0 .. 255
    BY <1>1
  <2> QED BY <2>1, SmallWords
<1>3. Wrap(mcycle) \in Words
  BY WrapType
<1>4. a \notin {CSR_FFLAGS, CSR_FCSR, CSR_MCYCLE} => Polled[a] \in Words
  BY PolledType DEF Csrs
<1> QED BY <1>2, <1>3, <1>4 DEF csr_read

\* A CSR write leaves words in the registers and a rounding mode in frm.
LEMMA HeldWrittenType ==
  ASSUME HostTyped, CsrOK, NEW a \in Csrs, NEW val \in Words
  PROVE  /\ HeldWritten(a, val) \in [HeldCsrs -> Words]
         /\ HeldWritten(a, val)[CSR_FRM] \in 0 .. 7
<1> DEFINE P == Polled
<1>1. P \in [HeldCsrs -> Words] /\ P[CSR_FRM] \in 0 .. 7
  BY PolledType
<1> HIDE DEF P
<1>2. val \in Int /\ 0 <= val /\ val < Size /\ Size \in Int
  BY WordSizes
<1>3. val % 8 \in 0 .. 7 /\ (val \div 32) % 8 \in 0 .. 7
  BY <1>2
<1>4. \A n \in 0 .. 7 : n \in Words
  BY SmallWords
<1>5. val - (val % 4) \in Words
  BY <1>2, WordSizes
<1>6. CSR_FRM \in HeldCsrs
  BY DEF HeldCsrs
<1>7. CASE a \in {CSR_FFLAGS, CSR_MCYCLE}
  BY <1>1, <1>7 DEF HeldWritten, P
<1>8. CASE a = CSR_FRM \/ a = CSR_FCSR
  <2>1. \A n \in 0 .. 7 : /\ [P EXCEPT ![CSR_FRM] = n] \in [HeldCsrs -> Words]
                          /\ [P EXCEPT ![CSR_FRM] = n][CSR_FRM] = n
    BY <1>1, <1>4, <1>6
  <2>2. CASE a = CSR_FRM
    <3>1. HeldWritten(a, val) = [P EXCEPT ![CSR_FRM] = val % 8]
      BY <2>2 DEF HeldWritten, P, CSR_FRM, CSR_FCSR, CSR_FFLAGS, CSR_MCYCLE
    <3> QED BY <1>3, <2>1, <3>1
  <2>3. CASE a = CSR_FCSR
    <3>1. HeldWritten(a, val) = [P EXCEPT ![CSR_FRM] = (val \div 32) % 8]
      BY <2>3 DEF HeldWritten, P, CSR_FRM, CSR_FCSR, CSR_FFLAGS, CSR_MCYCLE
    <3> QED BY <1>3, <2>1, <3>1
  <2> QED BY <1>8, <2>2, <2>3
<1>9. CASE a \notin {CSR_FFLAGS, CSR_MCYCLE, CSR_FRM, CSR_FCSR}
  <2> DEFINE v == IF a \in {CSR_SIP, CSR_MIP} THEN BitAnd(P[a], val)
                  ELSE IF a \in {CSR_SEPC, CSR_MEPC} THEN val - (val % 4) ELSE val
  <2>1. HeldWritten(a, val) = [P EXCEPT ![a] = v]
    BY <1>9 DEF HeldWritten, P
  <2>2. a \in HeldCsrs
    BY <1>9 DEF Csrs
  <2>3. v \in Words
    BY <1>1, <1>5, <2>2 DEF HostTyped
  <2> HIDE DEF v
  <2> QED BY <1>1, <1>9, <2>1, <2>2, <2>3
<1> QED BY <1>7, <1>8, <1>9

\* What a CSR instruction writes is a word.
LEMMA WdataType ==
  ASSUME HostTyped, CsrOK, mcycle \in Nat, regs \in [Registers -> Words],
         NEW i \in Decoded, i.imm \in Csrs
  PROVE  wdata(i) \in Words
<1>1. Operand(i) \in Words
  <2>1. i.raw.rs1 \in 0 .. 255 /\ i.raw.rs1 \in Registers
    BY DecodedFields DEF Registers
  <2> QED BY <2>1, SmallWords DEF Operand, rs1_val
<1>2. csr_read(i.imm) \in Words
  BY CsrReadType
<1>3. Inverted(Operand(i)) \in Words
  BY <1>1, WordSizes DEF Inverted
<1>4. /\ BitOr(csr_read(i.imm), Operand(i)) \in Words
      /\ BitAnd(csr_read(i.imm), Inverted(Operand(i))) \in Words
  BY <1>1, <1>2, <1>3 DEF HostTyped
<1> QED BY <1>1, <1>4 DEF wdata

-----------------------------------------------------------------------------
\* The floating-point unit.

\* The sizes of the floating-point format.
LEMMA FormatSizes ==
  /\ FracBits \in Nat /\ FracBits + 3 <= XLEN /\ FracBits >= 1
  /\ FracCount \in Nat \ {0} /\ ExpCount \in Nat /\ ExpCount * FracCount = Half
  /\ FracCount >= 2 /\ FracCount % 2 = 0 /\ ExpCount >= 2 * XLEN + 2
  /\ Bias \in Nat /\ Bias + XLEN + 1 < ExpCount
<1>1. XLEN \in Nat /\ XLEN >= 12
  BY Widths
<1>2. FracBits \in 1 .. XLEN - 3 /\ ExpCount \in Nat /\ ExpCount * FracCount = Half
      /\ ExpCount \div 2 > XLEN
  BY FormatAssumption DEF FracCount
<1>3. FracCount \in Nat \ {0}
  BY <1>1, <1>2, PowerType DEF FracCount
<1>4. FracCount >= 2 /\ FracCount % 2 = 0
  <2>1. FracBits - 1 \in 0 .. XLEN /\ (FracBits - 1) + 1 = FracBits /\ 1 \in 0 .. XLEN
    BY <1>1, <1>2
  <2>2. Pow2[(FracBits - 1) + 1] = Pow2[FracBits - 1] * Pow2[1]
    BY <1>1, <1>2, <2>1, PowerSum
  <2>3. FracCount = Pow2[FracBits - 1] * 2
    BY <2>1, <2>2, SmallPowers DEF FracCount
  <2>4. Pow2[FracBits - 1] \in Nat \ {0}
    BY <2>1, PowerType
  <2> QED BY <2>3, <2>4
<1>5. Bias \in Nat /\ Bias + XLEN + 1 < ExpCount /\ ExpCount >= 2 * XLEN + 2
  BY <1>1, <1>2 DEF Bias
<1> QED BY <1>1, <1>2, <1>3, <1>4, <1>5

\* A pattern with a sign, an exponent and a fraction.
LEMMA PatternType ==
  ASSUME NEW s \in {0, 1}, NEW e \in 0 .. ExpCount - 1, NEW f \in 0 .. FracCount - 1
  PROVE  /\ e * FracCount + f \in 0 .. Half - 1
         /\ s * Half + e * FracCount + f \in Words
<1>1. f + FracCount * e \in 0 .. FracCount * ExpCount - 1
  BY FormatSizes, TwoDigits
<1>2. FracCount * ExpCount = Half /\ FracCount * e = e * FracCount
  BY FormatSizes
<1>3. e * FracCount + f \in 0 .. Half - 1
  BY <1>1, <1>2, FormatSizes
<1> DEFINE v == e * FracCount + f
<1>4. v \in Int /\ 0 <= v /\ v < Half /\ Half \in Int /\ Size = 2 * Half
  BY <1>3, WordSizes
<1>5. s * Half + e * FracCount + f = s * Half + v
  BY FormatSizes, WordSizes
<1> HIDE DEF v
<1>6. s * Half + v \in Words
  <2>1. CASE s = 0
    BY <1>4, <2>1, WordSizes
  <2>2. CASE s = 1
    BY <1>4, <2>2, WordSizes
  <2> QED BY <2>1, <2>2
<1> QED BY <1>3, <1>5, <1>6

\* The canonical NaN is a pattern.
LEMMA NaNType == FP_CANON_NAN \in Words
<1>1. ExpMax \in 0 .. ExpCount - 1 /\ FracCount \div 2 \in 0 .. FracCount - 1
  BY FormatSizes, Widths DEF ExpMax
<1>2. FP_CANON_NAN \in 0 .. Half - 1
  BY <1>1, PatternType DEF FP_CANON_NAN
<1> QED BY <1>2, WordSizes

\* A pattern is a sign and the rest.
LEMMA SignType ==
  ASSUME NEW a \in Words
  PROVE  /\ sign(a) \in {0, 1} /\ a % Half \in 0 .. Half - 1 /\ a = sign(a) * Half + (a % Half)
<1>1. Half \in Nat /\ Half > 0 /\ a \in Int /\ 0 <= a /\ a < 2 * Half
  BY WordSizes
<1>2. CASE a < Half
  <2>1. a \div Half = 0 /\ a % Half = a
    BY <1>1, <1>2
  <2> QED BY <1>1, <1>2, <2>1 DEF sign
<1>3. CASE a >= Half
  <2>1. a \div Half = 1 /\ a % Half = a - Half
    <3>1. a = Half * 1 + (a - Half)
      BY <1>1
    <3> QED BY <1>1, <1>3, <3>1, DivisionUnique
  <2> QED BY <1>1, <1>3, <2>1 DEF sign
<1> QED BY <1>1, <1>2, <1>3

\* Every sign can be put on the rest of a pattern.
LEMMA SignedPattern ==
  ASSUME NEW a \in Words, NEW s \in {0, 1}
  PROVE  (a % Half) + s * Half \in Words
<1> DEFINE v == a % Half
<1>1. v \in Int /\ 0 <= v /\ v < Half /\ Half \in Int /\ Size = 2 * Half
  BY SignType, WordSizes
<1> HIDE DEF v
<1>2. v + s * Half \in Words
  <2>1. CASE s = 0
    BY <1>1, <2>1, WordSizes
  <2>2. CASE s = 1
    BY <1>1, <2>2, WordSizes
  <2> QED BY <2>1, <2>2
<1> QED BY <1>2 DEF v

\* The results of the arithmetic operations.
LEMMA FpArithType ==
  ASSUME HostTyped, NEW rm, NEW frm, NEW o \in Operations, NEW a \in Words, NEW b \in Words
  PROVE  \A r \in fp_arith(rm, frm, o, a, b) : r.bits \in Words /\ r.flags \subseteq Flags
<1> SUFFICES ASSUME NEW r \in fp_arith(rm, frm, o, a, b)
             PROVE  r.bits \in Words /\ r.flags \subseteq Flags
  OBVIOUS
<1> DEFINE H == HostArith(o, host_rounding(rm, frm), a, b)
<1>1. \A h \in H : h.bits \in Words /\ h.flags \subseteq Flags
  <2>1. host_rounding(rm, frm) \in HostModes
    BY DEF host_rounding, HostModes
  <2> QED BY <2>1 DEF HostTyped
<1> HIDE DEF H
<1>2. PICK h \in H : r = Result(IF bits_is_nan(h.bits) THEN FP_CANON_NAN ELSE h.bits, h.flags)
  BY DEF fp_arith, H
<1>3. (IF bits_is_nan(h.bits) THEN FP_CANON_NAN ELSE h.bits) \in Words
  BY <1>1, NaNType
<1> QED BY <1>1, <1>2, <1>3 DEF Result

\* The flags the conversions and comparisons raise.
LEMMA FlagNames == FP_NV \in Flags /\ FP_NX \in Flags
BY DEF Flags

\* The results of FMIN and FMAX,
LEMMA MinMaxType ==
  ASSUME NEW a \in Words, NEW b \in Words, NEW is_max
  PROVE  /\ fp_minmax(a, b, is_max).bits \in Words
         /\ fp_minmax(a, b, is_max).flags \subseteq Flags
<1>1. \A cond : Raised(FP_NV, cond) \subseteq Flags
  BY FlagNames DEF Raised
<1>2. (a % Half) + Half \in Words /\ (a % Half) + 0 \in Words
  <2>1. (a % Half) + 1 * Half \in Words /\ (a % Half) + 0 * Half \in Words
    BY SignedPattern
  <2> QED BY <2>1, WordSizes
<1> QED BY <1>1, <1>2, NaNType DEF fp_minmax, Result

\* of the comparisons,
LEMMA CompareType ==
  ASSUME NEW f3, NEW a \in Words, NEW b \in Words
  PROVE  /\ fp_compare(f3, a, b).bits \in Words
         /\ fp_compare(f3, a, b).flags \subseteq Flags
<1>1. \A cond : Raised(FP_NV, cond) \subseteq Flags
  BY FlagNames DEF Raised
<1>2. 0 \in Words /\ 1 \in Words
  BY SmallWords
<1> QED BY <1>1, <1>2 DEF fp_compare, Result, Truth

\* and of FCLASS.
LEMMA ClassifyType ==
  ASSUME NEW a
  PROVE  Pow2[fp_classify(a)] \in Words
<1>1. fp_classify(a) \in 0 .. 9
  BY DEF fp_classify
<1> HIDE DEF fp_classify
<1>2. fp_classify(a) \in 0 .. XLEN /\ fp_classify(a) <= XLEN - 1 /\ XLEN - 1 \in 0 .. XLEN
  BY <1>1, Widths
<1>3. Pow2[fp_classify(a)] \in Nat /\ Pow2[fp_classify(a)] <= Half
  BY <1>2, PowerType, PowerMonotone DEF Half
<1> QED BY <1>3, WordSizes

-----------------------------------------------------------------------------
\* Conversions.

\* A rounded quotient is the quotient or one more.
LEMMA RoundedType ==
  ASSUME NEW mode, NEW negative, NEW n \in Nat, NEW d \in Nat \ {0}
  PROVE  /\ Rounded(mode, negative, n, d) \in Nat
         /\ Rounded(mode, negative, n, d) \in {n \div d, (n \div d) + 1}
<1>1. n \div d \in Nat
  BY QuotientType
<1> HIDE DEF Rounded
<1>2. Rounded(mode, negative, n, d) \in {n \div d, (n \div d) + 1}
  BY DEF Rounded
<1> QED BY <1>1, <1>2

\* The parts of a pattern.
LEMMA PartsType ==
  ASSUME NEW a \in Words
  PROVE  /\ frac(a) \in 0 .. FracCount - 1 /\ exp(a) \in Nat
         /\ exp(a) * FracCount <= a % Half
         /\ Mantissa(a) \in Nat
<1> DEFINE m == a % Half
<1>1. m \in Nat
  BY SignType, WordSizes
<1>2. FracCount \in Nat \ {0} /\ a \in Int
  BY FormatSizes, WordSizes
<1>3. frac(a) \in 0 .. FracCount - 1
  BY <1>2 DEF frac
<1> HIDE DEF m
<1>4. m \div FracCount \in Nat /\ (m \div FracCount) * FracCount <= m
  <2> DEFINE q == m \div FracCount
             r == m % FracCount
  <2>1. q \in Nat /\ r \in Nat /\ m = FracCount * q + r
    BY <1>1, <1>2, QuotientType
  <2> HIDE DEF q, r
  <2>2. q * FracCount <= m
    BY <1>1, <1>2, <2>1
  <2> QED BY <2>1, <2>2 DEF q
<1>5. exp(a) = m \div FracCount
  BY DEF exp, m
<1>6. Mantissa(a) \in Nat
  BY <1>2, <1>3 DEF Mantissa
<1> QED BY <1>3, <1>4, <1>5, <1>6 DEF m

\* A number up to 2^XLEN is rounded to an integer.
LEMMA NearbyType ==
  ASSUME NEW mode, NEW a \in Words, a % Half <= Power(XLEN)
  PROVE  Nearby(mode, a) \in Int
<1>1. /\ XLEN \in Nat /\ FracBits \in Nat /\ FracBits + 3 <= XLEN /\ FracBits >= 1
      /\ Bias \in Nat /\ FracCount \in Nat \ {0}
  BY Widths, FormatSizes
<1>2. Mantissa(a) \in Nat /\ exp(a) \in Nat
  BY PartsType
<1>3. exp(a) <= Bias + XLEN
  <2> DEFINE e == exp(a)
             k == Bias + XLEN
  <2>1. e * FracCount <= k * FracCount
    <3>1. exp(a) * FracCount <= a % Half /\ a % Half \in Int
      BY PartsType, SignType, WordSizes
    <3>2. k \in Nat
      BY <1>1
    <3> HIDE DEF k
    <3>3. k * FracCount \in Int /\ e * FracCount \in Int
      BY <1>1, <1>2, <3>2
    <3>4. Power(XLEN) = k * FracCount
      BY DEF Power, k
    <3> QED BY <3>1, <3>3, <3>4
  <2>2. e \in Nat /\ k \in Nat
    BY <1>1, <1>2
  <2> HIDE DEF e, k
  <2>3. CASE e >= k + 1
    <3>1. e * FracCount >= (k + 1) * FracCount
      BY <1>1, <2>2, <2>3
    <3>2. (k + 1) * FracCount = k * FracCount + FracCount
      BY <1>1, <2>2
    <3>3. k * FracCount \in Int /\ e * FracCount \in Int
      BY <1>1, <2>2
    <3> QED BY <1>1, <2>1, <3>1, <3>2, <3>3
  <2>4. CASE e <= k
    BY <2>4 DEF e, k
  <2> QED BY <2>2, <2>3, <2>4
<1>4. Scale(a) \in Int /\ -Scale(a) <= XLEN
  BY <1>1, <1>2, <1>3 DEF Scale
<1>5. CASE Scale(a) <= 0
  <2>1. -Scale(a) \in 0 .. XLEN
    BY <1>1, <1>4, <1>5
  <2>2. Pow2[-Scale(a)] \in Int
    BY <2>1, PowerType
  <2>3. Mantissa(a) * Pow2[-Scale(a)] \in Int
    BY <1>2, <2>2
  <2> QED BY <1>5, <2>3 DEF Nearby
<1>6. CASE Scale(a) > 0
  <2> DEFINE k == IF Scale(a) > FracBits + 2 THEN FracBits + 2 ELSE Scale(a)
  <2>1. k \in 0 .. XLEN
    BY <1>1, <1>4, <1>6
  <2> HIDE DEF k
  <2>2. Rounded(mode, sign(a) = 1, Mantissa(a), Pow2[k]) \in Int
    BY <1>2, <2>1, PowerType, RoundedType
  <2>3. ~(Scale(a) <= 0)
    BY <1>4, <1>6
  <2> QED BY <2>2, <2>3 DEF Nearby, k
<1> QED BY <1>4, <1>5, <1>6

\* 2^XLEN and 2^(XLEN - 1) as patterns.
LEMMA PowersOrdered ==
  /\ Power(XLEN) \in Int /\ Power(XLEN - 1) \in Int /\ Power(XLEN - 1) <= Power(XLEN)
<1>1. XLEN \in Nat /\ Bias \in Nat /\ FracCount \in Nat
  BY Widths, FormatSizes
<1> DEFINE k == Bias + (XLEN - 1)
<1>2. k \in Int /\ Bias + XLEN = k + 1
  BY <1>1
<1>3. Power(XLEN) = (k + 1) * FracCount /\ Power(XLEN - 1) = k * FracCount
  BY <1>2 DEF Power
<1> HIDE DEF k
<1>4. (k + 1) * FracCount = k * FracCount + FracCount /\ k * FracCount \in Int
  BY <1>1, <1>2
<1> QED BY <1>1, <1>3, <1>4

\* What is not out of range converts to a word (fp_float_to_int).
LEMMA FloatToIntType ==
  ASSUME NEW rm, NEW frm, NEW a \in Words, NEW is_unsigned \in BOOLEAN
  PROVE  /\ fp_float_to_int(rm, frm, a, is_unsigned).bits \in Words
         /\ fp_float_to_int(rm, frm, a, is_unsigned).flags \subseteq Flags
<1> DEFINE R == fp_float_to_int(rm, frm, a, is_unsigned)
           M == host_rounding(rm, frm)
           n == Nearby(M, a)
           inside == a % Half <= Power(XLEN)
<1>1. 0 \in Words /\ Size - 1 \in Words /\ Half - 1 \in Words /\ Half \in Words
  BY WordSizes
<1>2. /\ \A cond : Raised(FP_NV, cond) \subseteq Flags
      /\ \A cond : Raised(FP_NX, cond) \subseteq Flags
      /\ {FP_NV} \subseteq Flags
  BY FlagNames DEF Raised
<1>3. /\ a \in Int /\ 0 <= a /\ sign(a) \in {0, 1} /\ Half \in Nat
      /\ a % Half \in Int /\ 0 <= a % Half
      /\ sign(a) = 0 => a % Half = a
      /\ sign(a) = 1 => a = Half + (a % Half)
  <2>1. a % Half \in Int /\ 0 <= a % Half /\ a = sign(a) * Half + (a % Half)
    BY SignType, WordSizes
  <2> QED BY <2>1, SignType, WordSizes
<1>4. Power(XLEN) \in Int /\ Power(XLEN - 1) \in Int /\ Power(XLEN - 1) <= Power(XLEN)
  BY PowersOrdered
<1>5. inside => Wrap(IF sign(a) = 1 THEN -n ELSE n) \in Words
  <2>1. inside => n \in Int
    BY NearbyType
  <2> HIDE DEF n
  <2> QED BY <2>1, WrapType
<1> DEFINE direct == Result(Wrap(IF sign(a) = 1 THEN -n ELSE n), Raised(FP_NX, ~IsInteger(a)))
<1>6. inside => direct.bits \in Words /\ direct.flags \subseteq Flags
  BY <1>2, <1>5 DEF Result
<1>7. \/ R \in {Result(w, f) : w \in {0, Size - 1, Half - 1, Half},
                               f \in {{FP_NV}, Raised(FP_NV, Order(a) < 0)}}
      \/ inside /\ R = direct
  <2> HIDE DEF inside, direct
  <2>1. CASE bits_is_nan(a)
    BY <2>1 DEF fp_float_to_int
  <2>2. CASE ~bits_is_nan(a) /\ is_unsigned
    <3>1. CASE Order(a) <= 0
      BY <2>2, <3>1 DEF fp_float_to_int
    <3>2. CASE ~(Order(a) <= 0) /\ a >= Power(XLEN)
      BY <2>2, <3>2 DEF fp_float_to_int
    <3>3. CASE ~(Order(a) <= 0) /\ ~(a >= Power(XLEN))
      <4>1. sign(a) = 0
        BY <1>3, <3>3 DEF Order
      <4>2. inside
        BY <1>3, <1>4, <3>3, <4>1 DEF inside
      <4>3. R = direct
        BY <2>2, <3>3 DEF fp_float_to_int, direct
      <4> QED BY <4>2, <4>3
    <3> QED BY <3>1, <3>2, <3>3
  <2>3. CASE ~bits_is_nan(a) /\ ~is_unsigned
    <3>1. CASE sign(a) = 0 /\ a >= Power(XLEN - 1)
      BY <2>3, <3>1 DEF fp_float_to_int
    <3>2. CASE sign(a) = 1 /\ a % Half > Power(XLEN - 1)
      BY <2>3, <3>2 DEF fp_float_to_int
    <3>3. CASE ~(sign(a) = 0 /\ a >= Power(XLEN - 1)) /\ ~(sign(a) = 1 /\ a % Half > Power(XLEN - 1))
      <4>1. inside
        BY <1>3, <1>4, <3>3 DEF inside
      <4>2. R = direct
        BY <2>3, <3>3 DEF fp_float_to_int, direct
      <4> QED BY <4>1, <4>2
    <3> QED BY <3>1, <3>2, <3>3
  <2> QED BY <2>1, <2>2, <2>3
<1> HIDE DEF direct, inside, R
<1>8. \A w \in {0, Size - 1, Half - 1, Half}, f \in {{FP_NV}, Raised(FP_NV, Order(a) < 0)} :
         Result(w, f).bits \in Words /\ Result(w, f).flags \subseteq Flags
  BY <1>1, <1>2 DEF Result
<1>9. R.bits \in Words /\ R.flags \subseteq Flags
  <2>1. CASE inside /\ R = direct
    BY <1>6, <2>1
  <2>2. CASE R \in {Result(w, f) : w \in {0, Size - 1, Half - 1, Half},
                                  f \in {{FP_NV}, Raised(FP_NV, Order(a) < 0)}}
    <3>1. PICK w \in {0, Size - 1, Half - 1, Half}, f \in {{FP_NV}, Raised(FP_NV, Order(a) < 0)} :
            R = Result(w, f)
      BY <2>2
    <3> QED BY <1>8, <3>1
  <2> QED BY <1>7, <2>1, <2>2
<1> QED BY <1>9 DEF R

\* The leading 1 of n at bit k and what follows it: FracBits bits, rounded if there are
\* more (fp_int_to_float).
Significand(mode, neg, n, k) ==
    IF k <= FracBits THEN n * Pow2[FracBits - k] ELSE Rounded(mode, neg, n, Pow2[k - FracBits])

\* It lies between FracCount and 2 * FracCount, and reaches the upper end by rounding
\* only; what is not rounded is n in smaller units.
LEMMA SignificandRange ==
  ASSUME NEW mode, NEW neg, NEW n \in 1 .. Size - 1, NEW k \in 0 .. XLEN - 1,
         Pow2[k] <= n, n < 2 * Pow2[k]
  PROVE  LET m == Significand(mode, neg, n, k) IN
         /\ m \in Int /\ FracCount <= m /\ m <= 2 * FracCount
         /\ Pow2[k] \in Nat \ {0}
         /\ k <= FracBits => m * Pow2[k] = n * FracCount
         /\ k > FracBits => /\ Pow2[k - FracBits] \in Nat \ {0}
                            /\ Pow2[k] = Pow2[k - FracBits] * FracCount
                            /\ m = Rounded(mode, neg, n, Pow2[k - FracBits])
<1> DEFINE m == Significand(mode, neg, n, k)
<1>1. /\ XLEN \in Nat /\ FracBits \in Nat /\ FracBits + 3 <= XLEN
      /\ FracCount \in Nat \ {0}
  BY Widths, FormatSizes
<1>2. k \in Nat /\ k <= XLEN - 1 /\ Pow2[k] \in Nat \ {0} /\ n \in Nat
  BY <1>1, PowerType, WordSizes
<1>3. CASE k <= FracBits
  <2> DEFINE p == Pow2[FracBits - k]
             t == Pow2[k]
  <2>1. FracBits - k \in 0 .. XLEN /\ k \in 0 .. XLEN /\ (FracBits - k) + k = FracBits
    BY <1>1, <1>2, <1>3
  <2>2. p \in Nat \ {0} /\ FracCount = p * t
    BY <1>1, <2>1, PowerType, PowerSum DEF FracCount
  <2>3. t \in Nat \ {0} /\ t <= n /\ n < 2 * t
    BY <1>2
  <2>4. m = n * p
    BY <1>3 DEF Significand
  <2> HIDE DEF p, t, m
  <2>5. n * p >= t * p /\ n * p <= (2 * t) * p
    BY <1>2, <2>2, <2>3
  <2>6. (2 * t) * p = 2 * (p * t) /\ t * p = p * t /\ n * p \in Int /\ p * t \in Int
        /\ (n * p) * t = n * (p * t)
    BY <1>2, <2>2, <2>3
  <2>7. m \in Int /\ FracCount <= m /\ m <= 2 * FracCount /\ m * t = n * FracCount
    BY <2>2, <2>4, <2>5, <2>6
  <2> QED BY <1>1, <1>2, <1>3, <2>7 DEF m, t
<1>4. CASE k > FracBits
  <2> DEFINE p == Pow2[k - FracBits]
             t == Pow2[k]
             q == n \div p
             r == n % p
  <2>1. k - FracBits \in 0 .. XLEN /\ FracBits \in 0 .. XLEN /\ (k - FracBits) + FracBits = k
    BY <1>1, <1>2, <1>4
  <2>2. p \in Nat \ {0} /\ t = p * FracCount
    <3>1. Pow2[(k - FracBits) + FracBits] = Pow2[k - FracBits] * Pow2[FracBits]
      BY <1>1, <1>2, <2>1, PowerSum
    <3> QED BY <2>1, <3>1, PowerType DEF FracCount
  <2>3. t \in Nat \ {0} /\ t <= n /\ n < 2 * t
    BY <1>2
  <2>9. m = Rounded(mode, neg, n, p)
    BY <1>1, <1>2, <1>4 DEF Significand
  <2> HIDE DEF p, t
  <2>4. q \in Nat /\ r \in Nat /\ r < p /\ n = p * q + r
    BY <1>2, <2>2, QuotientType
  <2>5. m \in {q, q + 1}
    BY <1>2, <2>2, <2>9, RoundedType
  <2> HIDE DEF q, r, m
  <2>6. q >= FracCount
    <3>1. CASE q + 1 <= FracCount
      <4>1. p * (q + 1) <= p * FracCount
        BY <1>1, <2>2, <2>4, <3>1
      <4>2. p * (q + 1) = p * q + p /\ p * q \in Int
        BY <2>2, <2>4
      <4> QED BY <1>2, <2>2, <2>3, <2>4, <4>1, <4>2
    <3> QED BY <1>1, <2>4, <3>1
  <2>7. q + 1 <= 2 * FracCount
    <3>1. CASE q >= 2 * FracCount
      <4>1. p * q >= p * (2 * FracCount)
        BY <1>1, <2>2, <2>4, <3>1
      <4>2. p * (2 * FracCount) = 2 * (p * FracCount) /\ p * q \in Int /\ p * FracCount \in Int
        BY <1>1, <2>2, <2>4
      <4> QED BY <1>2, <2>2, <2>3, <2>4, <4>1, <4>2
    <3> QED BY <1>1, <2>4, <3>1
  <2>8. m \in Int /\ FracCount <= m /\ m <= 2 * FracCount
    BY <1>1, <2>4, <2>5, <2>6, <2>7
  <2> QED BY <1>1, <1>2, <1>4, <2>2, <2>8, <2>9 DEF m, p, t
<1> QED BY <1>1, <1>2, <1>3, <1>4

\* Every integer converts to a pattern: the rounded fraction may carry into the
\* exponent, but never into the sign (fp_int_to_float).
LEMMA IntToFloatType ==
  ASSUME NEW rm, NEW frm, NEW value \in Words, NEW is_unsigned \in BOOLEAN
  PROVE  /\ fp_int_to_float(rm, frm, value, is_unsigned).bits \in Words
         /\ fp_int_to_float(rm, frm, value, is_unsigned).flags \subseteq Flags
<1> DEFINE negative == ~is_unsigned /\ value >= Half
           n == IF negative THEN Size - value ELSE value
           k == CHOOSE j \in 0 .. XLEN - 1 : Pow2[j] <= n /\ n < 2 * Pow2[j]
           m == IF k <= FracBits THEN n * Pow2[FracBits - k]
                ELSE Rounded(host_rounding(rm, frm), negative, n, Pow2[k - FracBits])
           bits == (IF negative THEN Half ELSE 0) + Power(k) + m - FracCount
           flags == Raised(FP_NX, k > FracBits /\ n % Pow2[k - FracBits] # 0)
<1>1. fp_int_to_float(rm, frm, value, is_unsigned)
        = IF n = 0 THEN Result(0, {}) ELSE Result(bits, flags)
  BY DEF fp_int_to_float
<1>2. flags \subseteq Flags
  BY FlagNames DEF Raised
<1>3. n = 0 \/ n \in 1 .. Size - 1
  BY WordSizes
<1> HIDE DEF n, negative, flags
<1>4. ASSUME n \in 1 .. Size - 1 PROVE bits \in Words
  <2>1. /\ k \in 0 .. XLEN - 1 /\ Pow2[k] <= n /\ n < 2 * Pow2[k]
    BY <1>4, TopBitAssumption
  <2> HIDE DEF k
  <2>2. /\ XLEN \in Nat /\ FracBits \in Nat /\ FracBits + 3 <= XLEN
        /\ FracCount \in Nat \ {0} /\ Bias \in Nat /\ Bias + XLEN + 1 < ExpCount
    BY Widths, FormatSizes
  <2>3. k \in Nat /\ k <= XLEN - 1 /\ Pow2[k] \in Nat \ {0} /\ n \in Nat
    BY <1>4, <2>1, <2>2, PowerType, WordSizes
  <2>4. m \in Int /\ FracCount <= m /\ m <= 2 * FracCount
    <3>1. m = Significand(host_rounding(rm, frm), negative, n, k)
      BY DEF Significand
    <3> HIDE DEF m
    <3> QED BY <1>4, <2>1, <3>1, SignificandRange
  <2> HIDE DEF m
  <2>5. Power(k) \in Int /\ 0 <= Power(k) /\ Power(k) + 2 * FracCount <= Half
    <3> DEFINE e == Bias + k
    <3>1. e \in Nat /\ e + 2 <= ExpCount /\ ExpCount \in Nat
      BY <2>2, <2>3, FormatSizes
    <3>2. Power(k) = e * FracCount
      BY DEF Power
    <3> HIDE DEF e
    <3>3. (e + 2) * FracCount <= ExpCount * FracCount
      BY <2>2, <3>1
    <3>4. (e + 2) * FracCount = e * FracCount + 2 * FracCount /\ e * FracCount \in Nat
      BY <2>2, <3>1
    <3>5. ExpCount * FracCount = Half /\ Half \in Int
      BY FormatSizes, WordSizes
    <3> QED BY <2>2, <3>2, <3>3, <3>4, <3>5
  <2>6. Half \in Nat /\ Size = 2 * Half
    BY WordSizes
  <2>7. Power(k) + m - FracCount \in Int /\ 0 <= Power(k) + m - FracCount
        /\ Power(k) + m - FracCount < Half
    BY <2>2, <2>4, <2>5, <2>6
  <2>8. CASE negative
    BY <2>2, <2>4, <2>5, <2>6, <2>7, <2>8, WordSizes
  <2>9. CASE ~negative
    BY <2>2, <2>4, <2>5, <2>6, <2>7, <2>9, WordSizes
  <2> QED BY <2>8, <2>9
<1> HIDE DEF bits
<1>5. 0 \in Words
  BY SmallWords
<1> QED BY <1>1, <1>2, <1>3, <1>4, <1>5 DEF Result

\* What fpu_execute writes to the f registers,
LEMMA ToFregType ==
  ASSUME HostTyped, NEW w, NEW frm, NEW a \in Words, NEW b \in Words, NEW x \in Words
  PROVE  \A r \in ToFreg(w, frm, a, b, x) : r.bits \in Words /\ r.flags \subseteq Flags
<1> DEFINE Good(r) == r.bits \in Words /\ r.flags \subseteq Flags
<1>1. \A o \in Operations : \A y \in Words : \A r \in fp_arith(w.f3, frm, o, a, y) : Good(r)
  BY FpArithType
<1>2. Good(Result((a % Half) + Half * Signs(w.f3, a, b), {}))
  <2>1. Signs(w.f3, a, b) \in {0, 1}
    BY SignType DEF Signs
  <2>2. (a % Half) + Signs(w.f3, a, b) * Half \in Words
    BY <2>1, SignedPattern
  <2>3. Half * Signs(w.f3, a, b) = Signs(w.f3, a, b) * Half
    BY <2>1, WordSizes
  <2> QED BY <2>2, <2>3 DEF Result
<1>3. Good(fp_minmax(a, b, w.f3 = 1))
  BY MinMaxType
<1>4. Good(fp_int_to_float(w.f3, frm, x, w.rs2 = 1))
  <2>1. (w.rs2 = 1) \in BOOLEAN
    OBVIOUS
  <2> QED BY <2>1, IntToFloatType
<1>5. Good(Result(x, {}))
  BY DEF Result
<1>6. 0 \in Words
  BY SmallWords
<1> HIDE DEF Good
<1>7. \A r \in ToFreg(w, frm, a, b, x) : Good(r)
  <2>1. CASE w.f7 \in {0, 4, 8, 12}
    BY <1>1, <2>1 DEF ToFreg, Operations
  <2>2. CASE w.f7 = 44
    BY <1>1, <1>6, <2>2 DEF ToFreg, Operations
  <2>3. CASE w.f7 \notin {0, 4, 8, 12, 44}
    BY <1>2, <1>3, <1>4, <1>5, <2>3 DEF ToFreg, If
  <2> QED BY <2>1, <2>2, <2>3
<1> QED BY <1>7 DEF Good

\* and what it writes to the x registers.
LEMMA ToRegType ==
  ASSUME NEW w, NEW frm, NEW a \in Words, NEW b \in Words
  PROVE  \A r \in ToReg(w, frm, a, b) : r.bits \in Words /\ r.flags \subseteq Flags
<1> DEFINE Good(r) == r.bits \in Words /\ r.flags \subseteq Flags
<1>1. Good(fp_compare(w.f3, a, b))
  BY CompareType
<1>2. Good(fp_float_to_int(w.f3, frm, a, w.rs2 = 1))
  <2>1. (w.rs2 = 1) \in BOOLEAN
    OBVIOUS
  <2> QED BY <2>1, FloatToIntType
<1>3. Good(Result(IF w.f3 = 0 THEN a ELSE Pow2[fp_classify(a)], {}))
  BY ClassifyType DEF Result
<1> HIDE DEF Good
<1>4. \A r \in ToReg(w, frm, a, b) : Good(r)
  BY <1>1, <1>2, <1>3 DEF ToReg, If
<1> QED BY <1>4 DEF Good

-----------------------------------------------------------------------------
\* The machine.

CInv == /\ CTypeOK
        /\ boot \in Boots
        /\ csr[CSR_FRM] \in 0 .. 7

\* What the lemmas above need of the state.
LEMMA CInvParts ==
  ASSUME CInv
  PROVE  MemOK /\ CsrOK /\ Instruction \subseteq Decoded
BY InstructionType DEF CInv, CTypeOK, MemOK, CsrOK, Bytes

\* x0 stays 0.
LEMMA RegWriteType ==
  ASSUME CInv, NEW r \in Registers, NEW v \in Words
  PROVE  /\ reg_write(r, v) \in [Registers -> Words]
         /\ reg_write(r, v)[0] = 0
<1>1. regs \in [Registers -> Words] /\ regs[0] = 0
  BY DEF CInv, CTypeOK
<1>2. CASE r = 0
  BY <1>1, <1>2 DEF reg_write
<1>3. CASE r # 0
  <2>1. reg_write(r, v) = [regs EXCEPT ![r] = v]
    BY <1>3 DEF reg_write
  <2>2. 0 \in Registers
    BY DEF Registers
  <2> QED BY <1>1, <1>3, <2>1, <2>2
<1> QED BY <1>2, <1>3

\* The booted machine.
LEMMA InitType ==
  Init => CInv
<1> SUFFICES ASSUME Init PROVE CInv
  OBVIOUS
<1>1. 0 \in Words /\ boot.entry \in Words /\ boot.mtime \in Nat /\ boot \in Boots
  BY BootAssumption, SmallWords, WordSizes DEF Init, IsBoot
<1>2. CSR_FRM \in HeldCsrs
  BY DEF HeldCsrs
<1> QED BY <1>1, <1>2 DEF Init, CInv, CTypeOK, Registers

\* Where control goes.
LEMMA FollowingType ==
  ASSUME CInv, NEW i \in Instruction
  PROVE  Following(i) \in Words /\ Wrap(pc + i.imm) \in Words
<1>1. pc \in Int /\ i.len \in Int /\ i.imm \in Int
  BY CInvParts, DecodedFields, WordSizes DEF CInv, CTypeOK
<1>2. pc + i.len \in Int /\ pc + i.imm \in Int
  BY <1>1
<1> QED BY <1>2, WrapType DEF Following

\* What the actions have in common: the registers that only data passes through.
Kept == /\ csr' \in [HeldCsrs -> Words] /\ csr'[CSR_FRM] \in 0 .. 7
        /\ fflags' \subseteq Flags
        /\ pc' \in Words
        /\ regs' \in [Registers -> Words] /\ regs'[0] = 0
        /\ fregs' \in [Registers -> Words]
Outer == /\ state' \in {"RUNNING", "HALTED", "EXCEPTION"}
         /\ exit_code' \in Words
         /\ MemOK'
         /\ mtimecmp' \in Nat
         /\ out' \in Seq(Bytes)

\* One lemma per action.
LEMMA ComputeStep ==
  ASSUME HostTyped, CInv, NEW i \in Instruction, Compute(i)
  PROVE  Kept /\ Outer
<1>1. i \in Decoded /\ CsrOK /\ MemOK
  BY CInvParts
<1>2. Computed(i) \in Words /\ i.raw.rd \in Registers
  BY <1>1, ComputedType, DecodedFields DEF CInv, CTypeOK
<1>3. csr' \in [HeldCsrs -> Words] /\ csr'[CSR_FRM] \in 0 .. 7
  BY <1>1, PolledType DEF Compute
<1>4. regs' \in [Registers -> Words] /\ regs'[0] = 0
  BY <1>2, RegWriteType DEF Compute
<1>5. pc' \in Words
  BY FollowingType DEF Compute, Retire
<1>6. fflags' \subseteq Flags /\ fregs' \in [Registers -> Words]
  BY DEF Compute, CInv, CTypeOK
<1>7. Outer
  BY <1>1 DEF Outer, Compute, Retire, CInv, CTypeOK, MemOK, Bytes
<1> QED BY <1>3, <1>4, <1>5, <1>6, <1>7 DEF Kept

\* Branches.
LEMMA BranchStep ==
  ASSUME HostTyped, CInv, NEW i \in Instruction, Branch(i)
  PROVE  Kept /\ Outer
<1>1. CsrOK /\ MemOK
  BY CInvParts
<1>2. csr' \in [HeldCsrs -> Words] /\ csr'[CSR_FRM] \in 0 .. 7
  BY <1>1, PolledType DEF Branch
<1>3. pc' \in Words
  BY FollowingType DEF Branch, Retire
<1>4. /\ fflags' \subseteq Flags /\ fregs' \in [Registers -> Words]
      /\ regs' \in [Registers -> Words] /\ regs'[0] = 0
  BY DEF Branch, CInv, CTypeOK
<1>5. Outer
  BY <1>1 DEF Outer, Branch, Retire, CInv, CTypeOK, MemOK, Bytes
<1> QED BY <1>2, <1>3, <1>4, <1>5 DEF Kept

\* Jumps.
LEMMA JumpStep ==
  ASSUME HostTyped, CInv, NEW i \in Instruction, Jump(i)
  PROVE  Kept /\ Outer
<1>1. i \in Decoded /\ CsrOK /\ MemOK
  BY CInvParts
<1>2. csr' \in [HeldCsrs -> Words] /\ csr'[CSR_FRM] \in 0 .. 7
  BY <1>1, PolledType DEF Jump
<1>3. pc' \in Words
  <2>1. Target(i) \in Words
    BY <1>1, TargetType DEF CInv, CTypeOK
  <2>2. Target(i) - (Target(i) % 2) \in Words
    BY <2>1, WordSizes
  <2> QED BY <2>2, FollowingType DEF Jump, Retire
<1>4. i.raw.rd \in Registers /\ Following(i) \in Words
  BY <1>1, DecodedFields, FollowingType
<1>5. regs' \in [Registers -> Words] /\ regs'[0] = 0
  BY <1>4, RegWriteType DEF Jump
<1>6. fflags' \subseteq Flags /\ fregs' \in [Registers -> Words]
  BY DEF Jump, CInv, CTypeOK
<1>7. Outer
  BY <1>1 DEF Outer, Jump, Retire, CInv, CTypeOK, MemOK, Bytes
<1> QED BY <1>2, <1>3, <1>5, <1>6, <1>7 DEF Kept

\* Loads.
LEMMA LoadStep ==
  ASSUME HostTyped, CInv, NEW i \in Instruction, Load(i)
  PROVE  Kept /\ Outer
<1>1. i \in Decoded /\ CsrOK /\ MemOK /\ i.raw.rd \in Registers
  BY CInvParts, DecodedFields
<1>2. csr' \in [HeldCsrs -> Words] /\ csr'[CSR_FRM] \in 0 .. 7
  BY <1>1, PolledType DEF Load
<1>3. pc' \in Words
  BY FollowingType DEF Load, Retire
<1>4. Wrap(mtime + 1) \in Words
  BY WrapType DEF CInv, CTypeOK
<1>5. LoadedInt(i) \in Words
  <2>1. Width(i) \in {1, 2, 4}
    BY <1>1, WidthType DEF Load
  <2>2. Value(Target(i), Width(i)) \in 0 .. Capacity(Width(i)) - 1
    BY <1>1, <2>1, ValueType
  <2> QED BY <2>1, <2>2, SignExtendedType DEF LoadedInt
<1>6. regs' \in [Registers -> Words] /\ regs'[0] = 0
  BY <1>1, <1>4, <1>5, RegWriteType DEF Load
<1>7. fflags' \subseteq Flags /\ fregs' \in [Registers -> Words]
  BY DEF Load, CInv, CTypeOK
<1>8. Outer
  BY <1>1 DEF Outer, Load, Retire, CInv, CTypeOK, MemOK, Bytes
<1> QED BY <1>2, <1>3, <1>6, <1>7, <1>8 DEF Kept

\* A store of n bytes inside memory.
LEMMA StoreMemory ==
  ASSUME CInv, NEW a \in Words, NEW n \in {1, 2, 4}, NEW val \in Words, InMemory(a, n),
         mem' = Stored(a, n, val)
  PROVE  MemOK'
BY CInvParts, StoredType DEF MemOK

\* Stores: to memory, to the timer, to the UART.
LEMMA StoreStep ==
  ASSUME HostTyped, CInv, NEW i \in Instruction, Store(i)
  PROVE  Kept /\ Outer
<1>1. i \in Decoded /\ CsrOK /\ MemOK
  BY CInvParts
<1>2. csr' \in [HeldCsrs -> Words] /\ csr'[CSR_FRM] \in 0 .. 7
  BY <1>1, PolledType DEF Store
<1>3. pc' \in Words
  BY FollowingType DEF Store, Retire
<1>4. /\ fflags' \subseteq Flags /\ fregs' \in [Registers -> Words]
      /\ regs' \in [Registers -> Words] /\ regs'[0] = 0
  BY DEF Store, CInv, CTypeOK
<1>5. /\ Target(i) \in Words /\ rs2_val(i) \in Words /\ Width(i) \in {1, 2, 4}
  <2>1. regs \in [Registers -> Words]
    BY DEF CInv, CTypeOK
  <2>2. i.raw.f3 \in {0, 1, 2, 4, 5}
    BY DEF Store
  <2> QED BY <1>1, <2>1, <2>2, TargetType, WidthType, DecodedFields DEF rs2_val
<1>6. MemOK' /\ mtimecmp' \in Nat /\ out' \in Seq(Bytes)
  <2>0. mtimecmp \in Nat /\ out \in Seq(Bytes) /\ rs2_val(i) \in Int
    BY <1>5, WordSizes DEF CInv, CTypeOK, Bytes
  <2>1. CASE ArmsTimer(i) /\ mtimecmp' = Deadline(rs2_val(i)) /\ UNCHANGED <<mem, out>>
    <3>1. Wrap(mtimecmp) \in Int /\ Wrap(mtimecmp) <= mtimecmp
      BY <2>0, WordSizes DEF Wrap
    <3>2. rs2_val(i) \in Nat
      BY <1>5, WordSizes
    <3>3. Deadline(rs2_val(i)) \in Nat
      BY <2>0, <3>1, <3>2 DEF Deadline
    <3> QED BY <1>1, <2>0, <2>1, <3>3 DEF MemOK
  <2>2. CASE Prints(i) /\ out' = Append(out, rs2_val(i) % ByteSize) /\ UNCHANGED <<mem, mtimecmp>>
    <3>1. rs2_val(i) % ByteSize \in Bytes
      BY <2>0, ByteSizes DEF Bytes
    <3> QED BY <1>1, <2>0, <2>2, <3>1 DEF MemOK
  <2>3. CASE /\ InMemory(Target(i), Width(i)) /\ mem' = Stored(Target(i), Width(i), rs2_val(i))
             /\ UNCHANGED <<mtimecmp, out>>
    BY <1>5, <2>0, <2>3, StoreMemory
  <2> QED BY <2>1, <2>2, <2>3 DEF Store
<1>7. Outer
  BY <1>6 DEF Outer, Store, Retire, CInv, CTypeOK
<1> QED BY <1>2, <1>3, <1>4, <1>7 DEF Kept

\* FLW.
LEMMA FpLoadStep ==
  ASSUME HostTyped, CInv, NEW i \in Instruction, FpLoad(i)
  PROVE  Kept /\ Outer
<1>1. i \in Decoded /\ CsrOK /\ MemOK /\ i.raw.rd \in Registers
  BY CInvParts, DecodedFields
<1>2. csr' \in [HeldCsrs -> Words] /\ csr'[CSR_FRM] \in 0 .. 7
  BY <1>1, PolledType DEF FpLoad
<1>3. pc' \in Words
  BY FollowingType DEF FpLoad, Retire
<1>4. Value(Target(i), 4) \in Words
  BY <1>1, ValueType, WordSizes DEF Capacity
<1>5. fregs' \in [Registers -> Words]
  BY <1>1, <1>4 DEF FpLoad, CInv, CTypeOK
<1>6. fflags' \subseteq Flags /\ regs' \in [Registers -> Words] /\ regs'[0] = 0
  BY DEF FpLoad, CInv, CTypeOK
<1>7. Outer
  BY <1>1 DEF Outer, FpLoad, Retire, CInv, CTypeOK, MemOK, Bytes
<1> QED BY <1>2, <1>3, <1>5, <1>6, <1>7 DEF Kept

\* FSW.
LEMMA FpStoreStep ==
  ASSUME HostTyped, CInv, NEW i \in Instruction, FpStore(i)
  PROVE  Kept /\ Outer
<1>1. i \in Decoded /\ CsrOK /\ MemOK /\ i.raw.rs2 \in Registers
  BY CInvParts, DecodedFields
<1>2. csr' \in [HeldCsrs -> Words] /\ csr'[CSR_FRM] \in 0 .. 7
  BY <1>1, PolledType DEF FpStore
<1>3. pc' \in Words
  BY FollowingType DEF FpStore, Retire
<1>4. Target(i) \in Words /\ fregs[i.raw.rs2] \in Words
  BY <1>1, TargetType DEF CInv, CTypeOK
<1>5. MemOK'
  BY <1>4, StoreMemory DEF FpStore
<1>6. /\ fflags' \subseteq Flags /\ fregs' \in [Registers -> Words]
      /\ regs' \in [Registers -> Words] /\ regs'[0] = 0
  BY DEF FpStore, CInv, CTypeOK
<1>7. Outer
  BY <1>5 DEF Outer, FpStore, Retire, CInv, CTypeOK, Bytes
<1> QED BY <1>2, <1>3, <1>6, <1>7 DEF Kept

\* Floating-point operations.
LEMMA FpOpStep ==
  ASSUME HostTyped, CInv, NEW i \in Instruction, FpOp(i)
  PROVE  Kept /\ Outer
<1>1. i \in Decoded /\ CsrOK /\ MemOK /\ i.raw.rd \in Registers
      /\ i.raw.rs1 \in Registers /\ i.raw.rs2 \in Registers
  BY CInvParts, DecodedFields
<1>2. csr' \in [HeldCsrs -> Words] /\ csr'[CSR_FRM] \in 0 .. 7
  BY <1>1, PolledType DEF FpOp
<1>3. pc' \in Words
  BY FollowingType DEF FpOp, Retire
<1>4. fregs[i.raw.rs1] \in Words /\ fregs[i.raw.rs2] \in Words /\ rs1_val(i) \in Words
  BY <1>1 DEF CInv, CTypeOK, rs1_val
<1>5. \A r \in FregResults(i) : r.bits \in Words /\ r.flags \subseteq Flags
  BY <1>4, ToFregType DEF FregResults
<1>6. \A r \in RegResults(i) : r.bits \in Words /\ r.flags \subseteq Flags
  BY <1>4, ToRegType DEF RegResults
<1>7. /\ fflags' \subseteq Flags /\ fregs' \in [Registers -> Words]
      /\ regs' \in [Registers -> Words] /\ regs'[0] = 0
  <2>0. /\ fflags \subseteq Flags /\ fregs \in [Registers -> Words]
        /\ regs \in [Registers -> Words] /\ regs[0] = 0
    BY DEF CInv, CTypeOK
  <2>1. ASSUME NEW r \in FregResults(i), fregs' = [fregs EXCEPT ![i.raw.rd] = r.bits],
               fflags' = Accrued(r), UNCHANGED regs
        PROVE  /\ fflags' \subseteq Flags /\ fregs' \in [Registers -> Words]
               /\ regs' \in [Registers -> Words] /\ regs'[0] = 0
    BY <1>1, <1>5, <2>0, <2>1 DEF Accrued
  <2>2. ASSUME NEW r \in RegResults(i), regs' = reg_write(i.raw.rd, r.bits),
               fflags' = Accrued(r), UNCHANGED fregs
        PROVE  /\ fflags' \subseteq Flags /\ fregs' \in [Registers -> Words]
               /\ regs' \in [Registers -> Words] /\ regs'[0] = 0
    BY <1>1, <1>6, <2>0, <2>2, RegWriteType DEF Accrued
  <2> QED BY <2>1, <2>2 DEF FpOp
<1>8. Outer
  BY <1>1 DEF Outer, FpOp, Retire, CInv, CTypeOK, MemOK, Bytes
<1> QED BY <1>2, <1>3, <1>7, <1>8 DEF Kept

\* The bytes a write call gets out of memory.
LEMMA WritableType ==
  ASSUME NEW a \in Words, NEW len \in Words
  PROVE  Writable(a, len) \in Words
<1> DEFINE n == IF len > MaxWrite THEN MaxWrite ELSE len
<1>1. /\ n \in Nat /\ MemSize \in Words /\ a \in Nat /\ 0 \in Words
  BY MemoryAssumption, WordSizes
<1>2. Writable(a, len)
        = IF a >= MemSize THEN 0 ELSE IF a + n > MemSize THEN MemSize - a ELSE n
  BY DEF Writable
<1> HIDE DEF n
<1> QED BY <1>1, <1>2, WordSizes

\* ECALL, EBREAK and SFENCE.VMA.
LEMMA SystemStep ==
  ASSUME HostTyped, CInv, NEW i \in Instruction, System(i)
  PROVE  Kept /\ Outer
<1>1. CsrOK /\ MemOK
  BY CInvParts
<1>2. csr' \in [HeldCsrs -> Words] /\ csr'[CSR_FRM] \in 0 .. 7
  BY <1>1, PolledType DEF System
<1>3. pc' \in Words
  BY FollowingType DEF System
<1>4. fflags' \subseteq Flags /\ fregs' \in [Registers -> Words]
  BY DEF System, CInv, CTypeOK
<1>5. /\ regs \in [Registers -> Words] /\ regs[0] = 0 /\ out \in Seq(Bytes)
      /\ exit_code \in Words /\ state \in {"RUNNING", "HALTED", "EXCEPTION"} /\ mtimecmp \in Nat
      /\ 10 \in Registers /\ 11 \in Registers /\ 12 \in Registers /\ 17 \in Registers
      /\ 0 \in Words
  BY SmallWords DEF CInv, CTypeOK, Bytes, Registers
<1>6. /\ regs' \in [Registers -> Words] /\ regs'[0] = 0 /\ out' \in Seq(Bytes)
      /\ exit_code' \in Words /\ state' \in {"RUNNING", "HALTED", "EXCEPTION"}
  <2>1. CASE Exit(i)
    BY <1>5, <2>1 DEF Exit
  <2>2. CASE Write(i)
    <3> DEFINE n == Writable(regs[11], regs[12])
               s == [k \in 1 .. n |-> Byte(regs[11] + k - 1)]
    <3>1. n \in Words
      BY <1>5, WritableType
    <3>2. n \in Nat
      BY <3>1, WordSizes
    <3> HIDE DEF n
    <3>3. s \in Seq(Bytes)
      BY <1>1, <3>2, ByteType
    <3>4. out' = out \o s /\ regs' = reg_write(10, n) /\ UNCHANGED <<state, exit_code>>
      BY <2>2 DEF Write, n
    <3> HIDE DEF s
    <3>5. out \o s \in Seq(Bytes)
      BY <1>5, <3>3
    <3> QED BY <1>5, <3>1, <3>4, <3>5, RegWriteType
  <2>3. CASE UnknownService(i)
    BY <1>5, <2>3 DEF UnknownService
  <2>4. CASE Ebreak(i)
    BY <1>5, <2>4 DEF Ebreak
  <2>5. CASE Sfence(i)
    BY <1>5, <2>5 DEF Sfence
  <2> QED BY <2>1, <2>2, <2>3, <2>4, <2>5 DEF System
<1>7. Outer
  BY <1>1, <1>5, <1>6 DEF Outer, System, MemOK
<1> QED BY <1>2, <1>3, <1>4, <1>6, <1>7 DEF Kept

\* CSR instructions.
LEMMA CsrInstrStep ==
  ASSUME HostTyped, CInv, NEW i \in Instruction, CsrInstr(i)
  PROVE  Kept /\ Outer
<1>1. i \in Decoded /\ CsrOK /\ MemOK /\ i.raw.rd \in Registers /\ i.imm \in Csrs
  BY CInvParts, DecodedFields DEF CsrInstr
<1>2. regs \in [Registers -> Words] /\ mcycle \in Nat /\ fflags \subseteq Flags
  BY DEF CInv, CTypeOK
<1>3. wdata(i) \in Words /\ csr_read(i.imm) \in Words
  BY <1>1, <1>2, WdataType, CsrReadType
<1>4. csr' \in [HeldCsrs -> Words] /\ csr'[CSR_FRM] \in 0 .. 7
  BY <1>1, <1>3, HeldWrittenType DEF CsrInstr
<1>5. pc' \in Words
  BY FollowingType DEF CsrInstr, Retire
<1>6. regs' \in [Registers -> Words] /\ regs'[0] = 0
  BY <1>1, <1>3, RegWriteType DEF CsrInstr
<1>7. fflags' \subseteq Flags
  BY <1>2 DEF CsrInstr, FlagsWritten, Bits
<1>8. fregs' \in [Registers -> Words]
  BY DEF CsrInstr, CInv, CTypeOK
<1>9. Outer
  BY <1>1 DEF Outer, CsrInstr, Retire, CInv, CTypeOK, MemOK, Bytes
<1> QED BY <1>4, <1>5, <1>6, <1>7, <1>8, <1>9 DEF Kept

\* Exceptions.
LEMMA FaultStep ==
  ASSUME HostTyped, CInv, Fault
  PROVE  Kept /\ Outer
<1>1. CsrOK /\ MemOK
  BY CInvParts
<1>2. csr' \in [HeldCsrs -> Words] /\ csr'[CSR_FRM] \in 0 .. 7
  BY <1>1, PolledType DEF Fault
<1>3. Kept
  BY <1>2 DEF Kept, Fault, CInv, CTypeOK
<1>4. Outer
  BY <1>1 DEF Outer, Fault, CInv, CTypeOK, MemOK, Bytes
<1> QED BY <1>3, <1>4

\* The cycle counter.
LEMMA CountedType ==
  ASSUME HostTyped, CInv, NEW i \in Instruction, Execute(i)
  PROVE  Counted(i) \in Nat
<1>1. i \in Decoded /\ CsrOK
  BY CInvParts
<1>2. mcycle \in Nat /\ regs \in [Registers -> Words]
  BY DEF CInv, CTypeOK
<1>3. CASE i.raw.op = OP_SYSTEM /\ i.raw.f3 \notin {0, 4} /\ i.imm = CSR_MCYCLE
  <2>1. i.imm \in Csrs
    BY <1>3 DEF Csrs
  <2>2. wdata(i) \in Nat
    BY <1>1, <1>2, <2>1, WdataType, WordSizes
  <2>3. Wrap(mcycle) \in Int /\ Wrap(mcycle) <= mcycle
    BY <1>2, WordSizes DEF Wrap
  <2>4. Counted(i) = 1 + (mcycle - Wrap(mcycle) + wdata(i))
    BY <1>3 DEF Counted
  <2> QED BY <1>2, <2>2, <2>3, <2>4
<1>4. CASE ~(i.raw.op = OP_SYSTEM /\ i.raw.f3 \notin {0, 4} /\ i.imm = CSR_MCYCLE)
  <2>1. Counted(i) = 1 + mcycle
    BY <1>4 DEF Counted
  <2> QED BY <1>2, <2>1
<1> QED BY <1>3, <1>4

\* Every step.
LEMMA StepType ==
  ASSUME HostTyped, CInv, [Next]_vars
  PROVE  CInv'
<1>1. CASE UNCHANGED vars
  BY <1>1 DEF vars, CInv, CTypeOK
<1>2. CASE Step
  <2>1. mtime' \in Nat /\ boot' \in Boots
    BY <1>2 DEF Step, CInv, CTypeOK
  <2>2. Kept /\ Outer /\ mcycle' \in Nat
    <3>1. CASE Fault /\ UNCHANGED mcycle
      BY <3>1, FaultStep DEF CInv, CTypeOK
    <3>2. ASSUME NEW i \in Instruction, Execute(i), mcycle' = Counted(i)
          PROVE  Kept /\ Outer /\ mcycle' \in Nat
      <4>1. mcycle' \in Nat
        BY <3>2, CountedType
      <4>2. CASE Compute(i) \/ Branch(i) \/ Jump(i)
        BY <4>1, <4>2, ComputeStep, BranchStep, JumpStep
      <4>3. CASE Load(i) \/ Store(i) \/ FpLoad(i) \/ FpStore(i)
        BY <4>1, <4>3, LoadStep, StoreStep, FpLoadStep, FpStoreStep
      <4>4. CASE FpOp(i) \/ System(i) \/ CsrInstr(i)
        BY <4>1, <4>4, FpOpStep, SystemStep, CsrInstrStep
      <4> QED BY <3>2, <4>2, <4>3, <4>4 DEF Execute
    <3> QED BY <1>2, <3>1, <3>2 DEF Step
  <2> QED BY <2>1, <2>2 DEF Kept, Outer, MemOK, Bytes, CInv, CTypeOK
<1>3. CASE Returned
  BY <1>1, <1>3 DEF Returned
<1> QED BY <1>1, <1>2, <1>3 DEF Next

\* On every program, word width and host, the machine stays of its type: registers,
\* f registers and CSRs hold words, x0 holds 0, pc and the exit code are words, and no
\* store writes outside the memory (reg_write, mem_write8 to mem_write32, csr_write).
THEOREM MachineTypeCorrect ==
  ASSUME HostTyped
  PROVE  Spec => []CTypeOK
<1>1. Init => CInv
  BY InitType
<1>2. CInv /\ [Next]_vars => CInv'
  BY StepType
<1>3. CInv => CTypeOK
  BY DEF CInv
<1> QED BY <1>1, <1>2, <1>3, PTL DEF Spec

\* An operation's flags stay in fflags until software writes the register
\* (accrue_host_fp_exceptions and csr_write).
THEOREM FlagsAccumulate == Spec => FlagsAccrue
<1> DEFINE writes == \E i \in Instruction : i.raw.op = OP_SYSTEM /\ i.imm \in {CSR_FFLAGS, CSR_FCSR}
<1>1. ASSUME [Next]_vars PROVE [~writes => fflags \subseteq fflags']_vars
  <2>1. CASE UNCHANGED vars
    BY <2>1
  <2>2. CASE Returned
    BY <2>2 DEF Returned
  <2>3. CASE Fault
    BY <2>3 DEF Fault
  <2>4. ASSUME NEW i \in Instruction, Execute(i), ~writes PROVE fflags \subseteq fflags'
    <3>1. CASE CsrInstr(i)
      <4>1. i.imm \notin {CSR_FFLAGS, CSR_FCSR}
        BY <2>4, <3>1 DEF CsrInstr
      <4> QED BY <3>1, <4>1 DEF CsrInstr, FlagsWritten
    <3>2. CASE FpOp(i)
      BY <3>2 DEF FpOp, Accrued
    <3>3. CASE Compute(i) \/ Branch(i) \/ Jump(i) \/ Load(i) \/ FpLoad(i)
      BY <3>3 DEF Compute, Branch, Jump, Load, FpLoad
    <3>4. CASE Store(i) \/ FpStore(i) \/ System(i)
      BY <3>4 DEF Store, FpStore, System
    <3> QED BY <2>4, <3>1, <3>2, <3>3, <3>4 DEF Execute
  <2> QED BY <1>1, <2>1, <2>2, <2>3, <2>4 DEF Next, Step
<1> QED BY <1>1, PTL DEF Spec, FlagsAccrue

-----------------------------------------------------------------------------
\* Recursion and induction on the naturals.

\* A set of naturals with 0 and with the successor of each of its members has all of
\* them.  It follows from the least element outside it.
LEMMA Induction ==
  ASSUME NEW S, 0 \in S, \A n \in Nat : n \in S => n + 1 \in S
  PROVE  Nat \subseteq S
<1> DEFINE R == {ss \in Nat \X Nat : ss[1] < ss[2]}
           T == Nat \ S
<1>1. \A m, n \in Nat : m < n => <<m, n>> \in R
  OBVIOUS
<1>2. IsWellFoundedOn(R, Nat)
  BY NatLessThanWellFounded DEF OpToRel
<1> SUFFICES ASSUME T # {} PROVE FALSE
  OBVIOUS
<1> HIDE DEF R
<1>3. PICK x \in T : \A y \in T : <<y, x>> \notin R
  BY <1>2, WFMin
<1>4. x \in Nat /\ x # 0
  BY <1>3
<1>5. x - 1 \in Nat /\ x - 1 < x
  BY <1>4
<1>6. x - 1 \in S
  BY <1>1, <1>3, <1>4, <1>5
<1> QED BY <1>3, <1>4, <1>5, <1>6

\* g is the first n + 1 values of the recursion that begins with v and goes on with step.
Unrolled(V, v, step, g, n) ==
    /\ g \in [0 .. n -> V] /\ g[0] = v
    /\ \A m \in 0 .. n - 1 : g[m + 1] = step[<<m, g[m]>>]

\* Two such agree as far as both go.
LEMMA UnrolledUnique ==
  ASSUME NEW V, NEW v, NEW step, NEW j \in Nat, NEW k \in Nat, NEW g, NEW h,
         Unrolled(V, v, step, g, j), Unrolled(V, v, step, h, k)
  PROVE  \A m \in Nat : m <= j /\ m <= k => g[m] = h[m]
<1> DEFINE S == {m \in Nat : m <= j /\ m <= k => g[m] = h[m]}
<1>1. 0 \in S
  BY DEF Unrolled
<1>2. ASSUME NEW m \in Nat, m \in S PROVE m + 1 \in S
  <2> SUFFICES ASSUME m + 1 <= j, m + 1 <= k PROVE g[m + 1] = h[m + 1]
    OBVIOUS
  <2>1. m \in 0 .. j - 1 /\ m \in 0 .. k - 1 /\ g[m] = h[m]
    BY <1>2
  <2> QED BY <2>1 DEF Unrolled
<1> HIDE DEF S
<1>3. Nat \subseteq S
  BY <1>1, <1>2, Induction
<1> QED BY <1>3 DEF S

\* What such a recursion computes next, and what solves it.
Steps(V) == [Nat \X V -> V]
Solves(V, v, step, f) ==
    f \in [Nat -> V] /\ f[0] = v /\ \A n \in Nat : f[n + 1] = step[<<n, f[n]>>]

\* Every recursion of the kind has a solution.
LEMMA Recursion ==
  ASSUME NEW V, NEW v \in V, NEW step \in Steps(V)
  PROVE  \E f : Solves(V, v, step, f)
<1> USE DEF Steps
<1> DEFINE S == {n \in Nat : \E g : Unrolled(V, v, step, g, n)}
           G(n) == CHOOSE g : Unrolled(V, v, step, g, n)
           f == [n \in Nat |-> G(n)[n]]
<1>1. 0 \in S
  <2> DEFINE g == [m \in 0 .. 0 |-> v]
  <2>1. Unrolled(V, v, step, g, 0)
    BY DEF Unrolled
  <2> QED BY <2>1
<1>2. ASSUME NEW n \in Nat, n \in S PROVE n + 1 \in S
  <2>1. PICK g : Unrolled(V, v, step, g, n)
    BY <1>2
  <2> DEFINE h == [m \in 0 .. n + 1 |-> IF m = n + 1 THEN step[<<n, g[n]>>] ELSE g[m]]
  <2>2. g \in [0 .. n -> V] /\ g[0] = v /\ \A m \in 0 .. n - 1 : g[m + 1] = step[<<m, g[m]>>]
    BY <2>1 DEF Unrolled
  <2>3. step[<<n, g[n]>>] \in V
    BY <2>2
  <2>4. h \in [0 .. n + 1 -> V] /\ h[0] = v
    BY <2>2, <2>3
  <2>5. ASSUME NEW m \in 0 .. n PROVE h[m + 1] = step[<<m, h[m]>>]
    <3>1. m \in 0 .. n + 1 /\ m + 1 \in 0 .. n + 1 /\ m # n + 1 /\ n \in Nat
      OBVIOUS
    <3>2. h[m] = g[m]
      BY <3>1
    <3>3. CASE m = n
      BY <3>1, <3>2, <3>3
    <3>4. CASE m # n
      <4>1. m \in 0 .. n - 1 /\ m + 1 # n + 1
        BY <3>4
      <4>2. h[m + 1] = g[m + 1]
        BY <3>1, <4>1
      <4> HIDE DEF h
      <4> QED BY <2>2, <3>2, <4>1, <4>2
    <3> QED BY <3>3, <3>4
  <2> HIDE DEF h
  <2>6. Unrolled(V, v, step, h, n + 1)
    BY <2>4, <2>5 DEF Unrolled
  <2> QED BY <2>6
<1> HIDE DEF S
<1>3. Nat \subseteq S
  BY <1>1, <1>2, Induction
<1>4. ASSUME NEW n \in Nat PROVE Unrolled(V, v, step, G(n), n)
  BY <1>3 DEF S
<1>5. ASSUME NEW n \in Nat
      PROVE  G(n)[n] \in V /\ G(n + 1)[n + 1] = step[<<n, G(n)[n]>>]
  <2> DEFINE g == G(n)
             h == G(n + 1)
  <2>1. Unrolled(V, v, step, g, n) /\ Unrolled(V, v, step, h, n + 1) /\ n + 1 \in Nat
    BY <1>4
  <2> HIDE DEF g, h
  <2>2. g[n] = h[n]
    BY <2>1, UnrolledUnique
  <2>3. g[n] \in V /\ h[n + 1] = step[<<n, h[n]>>]
    BY <2>1 DEF Unrolled
  <2> QED BY <2>2, <2>3 DEF g, h
<1>6. G(0)[0] = v
  BY <1>4 DEF Unrolled
<1> HIDE DEF G
<1>7. ASSUME NEW n \in Nat PROVE f[n] \in V /\ f[n + 1] = step[<<n, f[n]>>]
  <2>1. f[n] = G(n)[n] /\ f[n + 1] = G(n + 1)[n + 1]
    OBVIOUS
  <2> QED BY <1>5, <2>1
<1>8. f[0] = v
  BY <1>6
<1> HIDE DEF f
<1>9. DOMAIN f = Nat /\ f = [n \in Nat |-> f[n]]
  BY DEF f
<1> QED BY <1>7, <1>8, <1>9 DEF Solves

-----------------------------------------------------------------------------
\* The assembler.

\* Where item k of a program lies.
AddressOf(items, base, k) == Placed(items, base)[k]

\* An item begins where the one before it ends.
LEMMA PlacedIs ==
  ASSUME NEW items, Len(items) \in Nat, NEW base \in Int
  PROVE  /\ \A k \in 1 .. Len(items) + 1 : AddressOf(items, base, k) \in Int
         /\ AddressOf(items, base, 1) = base
         /\ \A k \in 1 .. Len(items) :
               AddressOf(items, base, k + 1) = AddressOf(items, base, k) + SizeOf(items[k])
<1> DEFINE n == Len(items)
           step == [x \in Nat \X Int |-> x[2] + SizeOf(items[x[1] + 1])]
           Body(at) == [k \in 0 .. n |-> IF k = 0 THEN <<base>>
                          ELSE Append(at[k - 1], at[k - 1][k] + SizeOf(items[k]))]
           at == CHOOSE at : at = Body(at)
<1>1. \A item : SizeOf(item) \in Int
  BY DEF SizeOf
<1>2. step \in [Nat \X Int -> Int]
  BY <1>1
<1>3. PICK f \in [Nat -> Int] : f[0] = base /\ \A m \in Nat : f[m + 1] = step[<<m, f[m]>>]
  <2>1. step \in Steps(Int)
    BY <1>2 DEF Steps
  <2> HIDE DEF step
  <2>2. \E f : Solves(Int, base, step, f)
    BY <2>1, Recursion
  <2> QED BY <2>2 DEF Solves
<1>4. \A m \in Nat : f[m + 1] = f[m] + SizeOf(items[m + 1])
  BY <1>3
<1> HIDE DEF step
<1> DEFINE first(k) == [j \in 1 .. k + 1 |-> f[j - 1]]
           g == [k \in 0 .. n |-> first(k)]
<1>5. ASSUME NEW k \in 1 .. n
      PROVE  Append(first(k - 1), first(k - 1)[k] + SizeOf(items[k])) = first(k)
  <2>1. k \in Nat /\ k - 1 \in Nat /\ (k - 1) + 1 = k
    OBVIOUS
  <2>a. first(k - 1) \in Seq(Int) /\ Len(first(k - 1)) = k
    BY <1>3, <2>1
  <2>b. first(k - 1)[k] = f[k - 1]
    BY <2>1
  <2>c. f[k] = f[k - 1] + SizeOf(items[k])
    BY <1>4, <2>1
  <2>2. first(k - 1)[k] + SizeOf(items[k]) = f[k]
    BY <2>b, <2>c
  <2>3. Append(first(k - 1), f[k]) = first(k)
    BY <2>1, <2>a
  <2> QED BY <2>2, <2>3
<1>6. first(0) = <<base>>
  BY <1>3
<1>7. g = Body(g)
  <2>1. ASSUME NEW k \in 0 .. n PROVE g[k] = Body(g)[k]
    <3>1. CASE k = 0
      BY <1>6, <3>1
    <3>2. CASE k # 0
      <4>1. k \in 1 .. n /\ k - 1 \in 0 .. n
        BY <3>2
      <4>2. g[k] = first(k) /\ g[k - 1] = first(k - 1)
        BY <4>1
      <4> HIDE DEF g, first
      <4>3. Body(g)[k] = Append(g[k - 1], g[k - 1][k] + SizeOf(items[k]))
        BY <4>1
      <4> QED BY <1>5, <4>1, <4>2, <4>3
    <3> QED BY <3>1, <3>2
  <2> QED BY <2>1
<1>8. at = Body(at)
  BY <1>7
<1>9. \A k \in 0 .. n : at[k] = IF k = 0 THEN <<base>>
                          ELSE Append(at[k - 1], at[k - 1][k] + SizeOf(items[k]))
  BY <1>8
<1>10. Placed(items, base) = at[n]
  BY DEF Placed
<1> HIDE DEF at, g
<1> DEFINE S == {k \in Nat : k <= n => at[k] = first(k)}
<1>11. 0 \in S
  BY <1>6, <1>9
<1>12. ASSUME NEW k \in Nat, k \in S PROVE k + 1 \in S
  <2> SUFFICES ASSUME k + 1 <= n PROVE at[k + 1] = first(k + 1)
    OBVIOUS
  <2>1. k + 1 \in 1 .. n /\ at[k] = first(k) /\ (k + 1) - 1 = k
    BY <1>12
  <2>2. at[k + 1] = Append(at[k], at[k][k + 1] + SizeOf(items[k + 1]))
    <3>1. k + 1 \in 0 .. n /\ k + 1 # 0
      BY <2>1
    <3> QED BY <1>9, <2>1, <3>1
  <2>3. Append(first(k), first(k)[k + 1] + SizeOf(items[k + 1])) = first(k + 1)
    BY <1>5, <2>1
  <2> QED BY <2>1, <2>2, <2>3
<1> HIDE DEF S
<1>13. Nat \subseteq S
  BY <1>11, <1>12, Induction
<1>14. at[n] = first(n)
  BY <1>13 DEF S
<1> HIDE DEF first
<1>15. Placed(items, base) = first(n)
  BY <1>10, <1>14
<1>16. first(n) \in [1 .. n + 1 -> Int] /\ first(n)[1] = base
  BY <1>3 DEF first
<1>17. ASSUME NEW k \in 1 .. n PROVE first(n)[k + 1] = first(n)[k] + SizeOf(items[k])
  <2>1. /\ k - 1 \in Nat /\ (k - 1) + 1 = k /\ (k + 1) - 1 = k
        /\ k \in 1 .. n + 1 /\ k + 1 \in 1 .. n + 1
    OBVIOUS
  <2>2. first(n)[k + 1] = f[k] /\ first(n)[k] = f[k - 1]
    BY <2>1 DEF first
  <2> QED BY <1>4, <2>1, <2>2
<1> DEFINE p == Placed(items, base)
<1>18. /\ p \in [1 .. n + 1 -> Int] /\ p[1] = base
       /\ \A k \in 1 .. n : p[k + 1] = p[k] + SizeOf(items[k])
  BY <1>15, <1>16, <1>17
<1> HIDE DEF p
<1>19. /\ \A k \in 1 .. n + 1 : p[k] \in Int
  BY <1>18
<1> QED BY <1>18, <1>19 DEF p, AddressOf

\* The number of half words of an item.
HalfCount(item) == IF item.kind = "label" THEN 0 ELSE IF item.kind = "half" THEN 1
                   ELSE IF item.kind = "li32" THEN 4 ELSE 2

\* Two pairs in a row.
LEMMA TwoPairs ==
  ASSUME NEW a, NEW b, NEW c, NEW d
  PROVE  LET e == <<a, b>> \o <<c, d>> IN
         /\ e \in Seq({a, b, c, d}) /\ Len(e) = 4
         /\ e[1] = a /\ e[2] = b /\ e[3] = c /\ e[4] = d
<1> DEFINE s == <<a, b>>
           t == <<c, d>>
           Y == {a, b, c, d}
<1>1. s \in Seq(Y) /\ t \in Seq(Y)
  OBVIOUS
<1>2. Len(s) = 2 /\ Len(t) = 2 /\ s[1] = a /\ s[2] = b /\ t[1] = c /\ t[2] = d
  OBVIOUS
<1> HIDE DEF s, t, Y
<1>3. /\ s \o t \in Seq(Y)
      /\ Len(s \o t) = Len(s) + Len(t)
      /\ \A i \in 1 .. Len(s) + Len(t) :
            (s \o t)[i] = IF i <= Len(s) THEN s[i] ELSE t[i - Len(s)]
  BY <1>1, ConcatProperties
<1>4. /\ (s \o t)[1] = a /\ (s \o t)[2] = b /\ (s \o t)[3] = c /\ (s \o t)[4] = d
      /\ Len(s \o t) = 4
  BY <1>2, <1>3
<1> QED BY <1>3, <1>4 DEF s, t, Y

\* An item has as many half words as its size says.
LEMMA EncodedLength ==
  ASSUME NEW item, NEW here, NEW addresses, NEW X,
         \A j \in 1 .. HalfCount(item) : Encoded(item, here, addresses)[j] \in X
  PROVE  /\ Encoded(item, here, addresses) \in Seq(X)
         /\ Len(Encoded(item, here, addresses)) = HalfCount(item)
         /\ HalfCount(item) \in Nat /\ SizeOf(item) = 2 * HalfCount(item)
<1> DEFINE e == Encoded(item, here, addresses)
<1>1. HalfCount(item) \in Nat /\ SizeOf(item) = 2 * HalfCount(item)
  BY DEF HalfCount, SizeOf
<1>3. e \in Seq(X) /\ Len(e) = HalfCount(item)
  <2>1. CASE item.kind = "label"
    BY <2>1 DEF Encoded, HalfCount
  <2>2. CASE item.kind = "half"
    <3>1. e = <<item.half>> /\ HalfCount(item) = 1
      BY <2>2 DEF Encoded, HalfCount
    <3>2. e[1] \in X
      BY <3>1
    <3> HIDE DEF e
    <3> QED BY <3>1, <3>2
  <2>3. CASE item.kind = "li32"
    <3>1. PICK u, v : e = Halves(u) \o Halves(v)
      <4>1. /\ item.kind # "label" /\ item.kind # "half" /\ item.kind # "word"
            /\ item.kind = "li32"
        BY <2>3
      <4> DEFINE upper_word == enc_u(upper(item.val) * 4096, item.rd, OP_LUI)
                 lower_word == enc_i(lower(item.val), item.rd, 0, item.rd, OP_ALUI)
      <4>2. e = Halves(upper_word) \o Halves(lower_word)
        BY ONLY <4>1 DEF Encoded
      <4> HIDE DEF e, upper_word, lower_word
      <4> QED BY <4>2
    <3>2. PICK a, b : Halves(u) = <<a, b>>
      BY DEF Halves
    <3>3. PICK c, d : Halves(v) = <<c, d>>
      BY DEF Halves
    <3>4. HalfCount(item) = 4
      BY <2>3 DEF HalfCount
    <3>5. e \in Seq({a, b, c, d}) /\ Len(e) = 4
      BY <3>1, <3>2, <3>3, TwoPairs
    <3>6. \A j \in 1 .. 4 : e[j] \in X
      BY <3>4
    <3> HIDE DEF e
    <3>7. e \in [1 .. 4 -> {a, b, c, d}]
      BY <3>5, LenProperties
    <3>8. e = [j \in 1 .. 4 |-> e[j]]
      BY <3>7
    <3>9. e = <<e[1], e[2], e[3], e[4]>>
      BY <3>5, <3>7, LenProperties
    <3>10. e \in Seq(X)
      <4>1. \A x1, x2, x3, x4 \in X : <<x1, x2, x3, x4>> \in Seq(X)
        OBVIOUS
      <4>2. e[1] \in X /\ e[2] \in X /\ e[3] \in X /\ e[4] \in X
        BY <3>6
      <4>3. <<e[1], e[2], e[3], e[4]>> \in Seq(X)
        BY <4>1, <4>2
      <4> QED BY ONLY <3>9, <4>3
    <3> QED BY <3>4, <3>5, <3>10
  <2>4. CASE item.kind \notin {"label", "half", "li32"}
    <3>1. HalfCount(item) = 2
      BY <2>4 DEF HalfCount
    <3>0. PICK w : e = Halves(w)
      <4>1. item.kind # "label" /\ item.kind # "half" /\ item.kind # "li32"
        BY <2>4
      <4>2. \/ Encoded(item, here, addresses) = Halves(item.word)
            \/ Encoded(item, here, addresses) =
                  Halves(enc_j(addresses[item.to] - here, item.rd, OP_JAL))
            \/ Encoded(item, here, addresses) =
                  Halves(enc_b(addresses[item.to] - here, item.rs2, item.rs1, item.f3, OP_BRANCH))
        BY ONLY <4>1 DEF Encoded
      <4> QED BY <4>2
    <3>2. PICK a, b : e = <<a, b>>
      BY <3>0 DEF Halves
    <3>3. e[1] \in X /\ e[2] \in X
      BY <3>1
    <3> HIDE DEF e
    <3> QED BY <3>1, <3>2, <3>3
  <2> QED BY <2>1, <2>2, <2>3, <2>4
<1> QED BY <1>1, <1>3

\* The addresses of the labels.
Addresses(items, base) ==
    LET at == Placed(items, base)
        labels == {k \in 1 .. Len(items) : items[k].kind = "label"}
    IN [name \in {items[k].name : k \in labels} |->
            at[CHOOSE k \in labels : items[k].name = name]]

\* The half words of item k.
CodeOf(items, base, k) ==
    Encoded(items[k], AddressOf(items, base, k), Addresses(items, base))

\* The text c has the n half words of h from a on.
HasHalves(c, a, h, n) ==
    \A j \in 1 .. n : a + 2 * (j - 1) \in DOMAIN c /\ c[a + 2 * (j - 1)] = h[j]

\* The text of a program has the half words of every item from the address where the
\* item is placed, and nothing else.
LEMMA AssembleIs ==
  ASSUME NEW items, Len(items) \in Nat, NEW base \in Int
  PROVE  /\ \A a \in DOMAIN assemble(items, base) :
               a \in base .. AddressOf(items, base, Len(items) + 1) - 2
         /\ \A k \in 1 .. Len(items) :
               HasHalves(assemble(items, base), AddressOf(items, base, k),
                         CodeOf(items, base, k), HalfCount(items[k]))
<1> DEFINE n == Len(items)
           p == Placed(items, base)
           A == Addresses(items, base)
           E(k) == Encoded(items[k], p[k], A)
           h(k) == HalfCount(items[k])
           X == {E(k)[j] : k \in 1 .. n, j \in 1 .. 4}
           step == [x \in Nat \X Seq(X) |-> IF x[1] < n THEN x[2] \o E(x[1] + 1) ELSE x[2]]
<1>1. ASSUME NEW k \in 1 .. n
      PROVE  E(k) \in Seq(X) /\ Len(E(k)) = h(k) /\ h(k) \in Nat /\ SizeOf(items[k]) = 2 * h(k)
  <2>1. h(k) \in 0 .. 4
    BY DEF HalfCount
  <2>2. \A j \in 1 .. h(k) : E(k)[j] \in X
    BY <2>1
  <2> HIDE DEF X
  <2> QED BY <2>2, EncodedLength
<1>2. step \in Steps(Seq(X))
  <2> HIDE DEF X, E
  <2>1. ASSUME NEW m \in Nat, NEW s \in Seq(X), m < n PROVE s \o E(m + 1) \in Seq(X)
    <3>1. m + 1 \in 1 .. n
      BY <2>1
    <3> QED BY <1>1, <3>1, ConcatProperties
  <2> QED BY <2>1 DEF Steps
<1>3. PICK f : Solves(Seq(X), <<>>, step, f)
  <2>1. <<>> \in Seq(X)
    OBVIOUS
  <2> HIDE DEF step, X
  <2> QED BY <1>2, <2>1, Recursion
<1>4. f \in [Nat -> Seq(X)] /\ f[0] = <<>>
  BY <1>3 DEF Solves
<1>5. ASSUME NEW k \in 1 .. n
      PROVE  f[k] = f[k - 1] \o E(k)
  <2>1. k - 1 \in Nat /\ k - 1 < n /\ (k - 1) + 1 = k
    OBVIOUS
  <2>2. f[(k - 1) + 1] = step[<<k - 1, f[k - 1]>>]
    <3> HIDE DEF step
    <3> QED BY <1>3, <2>1 DEF Solves
  <2>3. f[k - 1] \in Seq(X)
    BY <1>4, <2>1
  <2> HIDE DEF X, E
  <2> QED BY <2>1, <2>2, <2>3
<1> HIDE DEF X, step

\* The recursive function of assemble is f.
<1> DEFINE Body(em) == [k \in 0 .. n |-> IF k = 0 THEN <<>> ELSE em[k - 1] \o E(k)]
           em == CHOOSE em : em = Body(em)
           g == [k \in 0 .. n |-> f[k]]
<1>6. g = Body(g)
  <2> HIDE DEF E
  <2>1. ASSUME NEW k \in 0 .. n PROVE g[k] = IF k = 0 THEN <<>> ELSE g[k - 1] \o E(k)
    <3>1. CASE k = 0
      BY <1>4, <3>1
    <3>2. CASE k # 0
      <4>1. k \in 1 .. n /\ k - 1 \in 0 .. n
        BY <3>2
      <4>2. g[k] = f[k] /\ g[k - 1] = f[k - 1]
        BY <4>1
      <4> HIDE DEF g
      <4> QED BY <1>5, <3>2, <4>1, <4>2
    <3> QED BY <3>1, <3>2
  <2>2. g = [k \in 0 .. n |-> g[k]]
    OBVIOUS
  <2> HIDE DEF g
  <2> QED BY <2>1, <2>2
<1>7. em = Body(em)
  BY <1>6
<1>8. \A k \in 0 .. n : em[k] = IF k = 0 THEN <<>> ELSE em[k - 1] \o E(k)
  BY <1>7
<1> DEFINE text == em[n]
<1>9. assemble(items, base)
        = [a \in {base + 2 * i : i \in 0 .. Len(text) - 1} |-> text[((a - base) \div 2) + 1]]
  BY DEF assemble, Addresses
<1> HIDE DEF em, g, E
<1> DEFINE S == {k \in Nat : k <= n => em[k] = f[k]}
<1>10. 0 \in S
  BY <1>4, <1>8
<1>11. ASSUME NEW k \in Nat, k \in S PROVE k + 1 \in S
  <2> SUFFICES ASSUME k + 1 <= n PROVE em[k + 1] = f[k + 1]
    OBVIOUS
  <2>1. k + 1 \in 1 .. n /\ k + 1 \in 0 .. n /\ k + 1 # 0 /\ em[k] = f[k] /\ (k + 1) - 1 = k
    BY <1>11
  <2> HIDE DEF S
  <2> QED BY <1>5, <1>8, <2>1
<1> HIDE DEF S
<1>12. Nat \subseteq S
  BY <1>10, <1>11, Induction
<1>13. text = f[n]
  BY <1>12 DEF S

\* Where the half words of an item are in f.
<1>14. /\ p[1] = base /\ \A k \in 1 .. n : p[k + 1] = p[k] + 2 * h(k)
       /\ \A k \in 1 .. n + 1 : p[k] \in Int
  <2> DEFINE P(k) == AddressOf(items, base, k)
  <2>1. \A k : p[k] = P(k)
    BY DEF AddressOf
  <2>2. /\ \A k \in 1 .. n + 1 : P(k) \in Int
        /\ P(1) = base
        /\ \A k \in 1 .. n : P(k + 1) = P(k) + SizeOf(items[k])
    BY PlacedIs
  <2>3. \A k \in 1 .. n : SizeOf(items[k]) = 2 * h(k)
    BY <1>1
  <2> HIDE DEF p, P, h
  <2> QED BY <2>1, <2>2, <2>3
<1> HIDE DEF p, h
<1> DEFINE Q == {k \in Nat : k <= n =>
                    /\ p[k + 1] = base + 2 * Len(f[k])
                    /\ \A i \in 1 .. k : \A j \in 1 .. h(i) :
                         /\ Len(f[i - 1]) + h(i) <= Len(f[k])
                         /\ f[k][Len(f[i - 1]) + j] = E(i)[j]}
<1>15. 0 \in Q
  <2>1. Len(f[0]) = 0 /\ p[0 + 1] = base
    BY <1>4, <1>14
  <2> QED BY <2>1
<1>16. ASSUME NEW k \in Nat, k \in Q PROVE k + 1 \in Q
  <2> SUFFICES ASSUME k + 1 <= n
               PROVE  /\ p[k + 2] = base + 2 * Len(f[k + 1])
                      /\ \A i \in 1 .. k + 1 : \A j \in 1 .. h(i) :
                           /\ Len(f[i - 1]) + h(i) <= Len(f[k + 1])
                           /\ f[k + 1][Len(f[i - 1]) + j] = E(i)[j]
    BY DEF Q
  <2> DEFINE s == f[k]
             e == E(k + 1)
  <2>1. /\ k + 1 \in 1 .. n /\ (k + 1) - 1 = k /\ (k + 1) + 1 = k + 2
        /\ s \in Seq(X) /\ e \in Seq(X) /\ Len(e) = h(k + 1) /\ h(k + 1) \in Nat
    BY <1>1, <1>4
  <2>2. f[k + 1] = s \o e
    BY <1>5, <2>1
  <2>3. /\ p[k + 1] = base + 2 * Len(s)
        /\ \A i \in 1 .. k : \A j \in 1 .. h(i) :
             /\ Len(f[i - 1]) + h(i) <= Len(s)
             /\ s[Len(f[i - 1]) + j] = E(i)[j]
    BY <1>16 DEF Q
  <2>4. /\ \A i \in 1 .. n : h(i) \in Nat
        /\ \A i \in Nat : Len(f[i]) \in Nat
    <3>1. ASSUME NEW i \in 1 .. n PROVE h(i) \in Nat
      BY <1>1
    <3>2. ASSUME NEW i \in Nat PROVE Len(f[i]) \in Nat
      BY <1>4
    <3> QED BY <3>1, <3>2
  <2> HIDE DEF s, e, Q
  <2>5. /\ Len(s \o e) = Len(s) + Len(e) /\ Len(s) \in Nat
        /\ \A i \in 1 .. Len(s) + Len(e) :
              (s \o e)[i] = IF i <= Len(s) THEN s[i] ELSE e[i - Len(s)]
    <3>1. s \in Seq(X) /\ e \in Seq(X)
      BY <2>1
    <3> QED BY ONLY <3>1, ConcatProperties, LenProperties
  <2>6. p[k + 2] = base + 2 * Len(f[k + 1])
    BY <1>14, <2>1, <2>2, <2>3, <2>5
  <2>7. ASSUME NEW i \in 1 .. k + 1, NEW j \in 1 .. h(i)
        PROVE  /\ Len(f[i - 1]) + h(i) <= Len(s \o e)
               /\ (s \o e)[Len(f[i - 1]) + j] = E(i)[j]
    <3>1. CASE i = k + 1
      <4>1. f[i - 1] = s /\ E(i) = e
        BY <2>1, <3>1 DEF s, e
      <4>2. Len(s) + j \in 1 .. Len(s) + Len(e) /\ ~(Len(s) + j <= Len(s))
        BY <2>1, <2>5, <3>1
      <4>3. (Len(s) + j) - Len(s) = j
        BY <2>1, <2>5, <3>1
      <4> QED BY <2>1, <2>5, <3>1, <4>1, <4>2, <4>3
    <3>2. CASE i # k + 1
      <4>1. i \in 1 .. k /\ i - 1 \in Nat /\ i \in 1 .. n
        BY <2>1, <3>2
      <4>2. Len(f[i - 1]) + h(i) <= Len(s) /\ s[Len(f[i - 1]) + j] = E(i)[j]
        BY <2>3, <4>1
      <4>3. h(i) \in Nat /\ Len(f[i - 1]) \in Nat
        BY <2>4, <4>1
      <4>4. /\ Len(f[i - 1]) + j \in 1 .. Len(s) + Len(e) /\ Len(f[i - 1]) + j <= Len(s)
            /\ Len(s) + Len(e) \in Nat
        <5> DEFINE l == Len(f[i - 1])
                   m == h(i)
        <5>1. /\ l \in Nat /\ m \in Nat /\ l + m <= Len(s) /\ j \in 1 .. m
              /\ Len(s) \in Nat /\ Len(e) \in Nat
          BY <2>1, <2>5, <4>2, <4>3
        <5> HIDE DEF l, m
        <5>2. l + j \in 1 .. Len(s) + Len(e) /\ l + j <= Len(s) /\ Len(s) + Len(e) \in Nat
          BY ONLY <5>1
        <5> QED BY <5>2 DEF l
      <4> DEFINE x == Len(f[i - 1]) + j
      <4>5. (s \o e)[x] = s[x]
        BY ONLY <2>5, <4>4
      <4>6. s[x] = E(i)[j]
        BY <4>2
      <4>7. Len(f[i - 1]) + h(i) <= Len(s \o e)
        <5>1. Len(e) \in Nat /\ Len(s) \in Nat /\ Len(s \o e) = Len(s) + Len(e)
          BY <2>1, <2>5
        <5> DEFINE l == Len(f[i - 1])
                   m == h(i)
                   t == Len(s \o e)
        <5>2. l \in Nat /\ m \in Nat /\ l + m <= Len(s)
          BY <4>2, <4>3
        <5>3. t = Len(s) + Len(e)
          BY <5>1
        <5> HIDE DEF l, m, t
        <5>4. l + m <= t
          BY ONLY <5>1, <5>2, <5>3
        <5> QED BY <5>4 DEF l, m, t
      <4> HIDE DEF x
      <4>8. (s \o e)[x] = E(i)[j]
        BY <4>5, <4>6
      <4> QED BY <4>7, <4>8 DEF x
    <3> QED BY <3>1, <3>2
  <2> QED BY <2>2, <2>6, <2>7
<1> HIDE DEF Q
<1>17. Nat \subseteq Q
  BY <1>15, <1>16, Induction

\* Which are the half words of the text.
<1>18. n \in Nat /\ Len(text) \in Nat /\ \A i \in Nat : Len(f[i]) \in Nat
  BY <1>4, <1>13
<1>19. \A k \in Nat : k <= n => p[k + 1] = base + 2 * Len(f[k])
  BY <1>17 DEF Q
<1> HIDE DEF text
<1> DEFINE c == assemble(items, base)
<1>20. \A a \in DOMAIN c : a \in base .. p[n + 1] - 2
  <2>1. p[n + 1] = base + 2 * Len(text)
    BY <1>13, <1>18, <1>19
  <2>2. DOMAIN c = {base + 2 * i : i \in 0 .. Len(text) - 1}
    BY <1>9
  <2> QED BY <1>18, <2>1, <2>2
<1>21. ASSUME NEW k \in 1 .. n, NEW j \in 1 .. h(k)
       PROVE  /\ p[k] + 2 * (j - 1) \in DOMAIN c
              /\ c[p[k] + 2 * (j - 1)] = E(k)[j]
  <2> DEFINE l == Len(f[k - 1])
             a == p[k] + 2 * (j - 1)
  <2>1. k - 1 \in Nat /\ k - 1 <= n /\ (k - 1) + 1 = k /\ h(k) \in Nat /\ l \in Nat
    BY <1>1, <1>18
  <2>2. p[k] = base + 2 * l
    BY <1>19, <2>1
  <2>3. l + h(k) <= Len(text) /\ text[l + j] = E(k)[j]
    <3>1. \A i \in 1 .. n : \A m \in 1 .. h(i) :
             /\ Len(f[i - 1]) + h(i) <= Len(f[n])
             /\ f[n][Len(f[i - 1]) + m] = E(i)[m]
      <4>1. n \in Q
        BY <1>17
      <4> QED BY <4>1 DEF Q
    <3> QED BY <1>13, <3>1
  <2> HIDE DEF l
  <2>4. a = base + 2 * (l + j - 1) /\ l + j - 1 \in 0 .. Len(text) - 1
    <3>1. j \in Nat /\ 1 <= j /\ j <= h(k) /\ base \in Int
      BY <2>1
    <3>2. l + j - 1 \in 0 .. Len(text) - 1
      BY ONLY <1>18, <2>1, <2>3, <3>1
    <3>3. a = base + 2 * (l + j - 1)
      BY ONLY <2>1, <2>2, <3>1
    <3> QED BY <3>2, <3>3
  <2>5. a \in {base + 2 * i : i \in 0 .. Len(text) - 1}
    BY <2>4
  <2>6. ((a - base) \div 2) + 1 = l + j
    <3>1. base \in Int /\ l \in Nat /\ j \in Nat
      BY <2>1
    <3> QED BY ONLY <2>4, <3>1
  <2> HIDE DEF a
  <2>7. a \in DOMAIN c /\ c[a] = text[((a - base) \div 2) + 1]
    BY <1>9, <2>5
  <2> QED BY <2>3, <2>6, <2>7 DEF a
<1>22. /\ \A k : AddressOf(items, base, k) = p[k]
       /\ \A k : CodeOf(items, base, k) = E(k)
       /\ \A k : HalfCount(items[k]) = h(k)
  BY DEF p, h, E, AddressOf, CodeOf
<1>23. \A k \in 1 .. n : HasHalves(c, p[k], E(k), h(k))
  <2> HIDE DEF c
  <2> QED BY <1>21 DEF HasHalves
<1> QED BY <1>20, <1>22, <1>23

-----------------------------------------------------------------------------
\* Words of a program, by address.

\* The text c has the word w at a.
Holds(c, a, w) ==
    /\ a \in DOMAIN c /\ a + 2 \in DOMAIN c
    /\ c[a] = Halves(w)[1] /\ c[a + 2] = Halves(w)[2]

\* The two instructions of li32.
Lui(rd, val)  == enc_u(upper(val) * 4096, rd, OP_LUI)
Addi(rd, val) == enc_i(lower(val), rd, 0, rd, OP_ALUI)

\* A word is where it is placed.
LEMMA WordPlaced ==
  ASSUME NEW items, Len(items) \in Nat, NEW base \in Int, NEW k \in 1 .. Len(items),
         items[k].kind = "word"
  PROVE  /\ Holds(assemble(items, base), AddressOf(items, base, k), items[k].word)
         /\ AddressOf(items, base, k) \in Int
         /\ AddressOf(items, base, k + 1) = AddressOf(items, base, k) + 4
<1> DEFINE p == AddressOf(items, base, k)
           c == assemble(items, base)
<1>1. HalfCount(items[k]) = 2 /\ SizeOf(items[k]) = 4
  BY DEF HalfCount, SizeOf
<1>2. HasHalves(c, p, Halves(items[k].word), 2)
  <2>1. CodeOf(items, base, k) = Halves(items[k].word)
    BY DEF CodeOf, Encoded
  <2>2. HasHalves(c, p, CodeOf(items, base, k), HalfCount(items[k]))
    BY AssembleIs
  <2> QED BY <1>1, <2>1, <2>2
<1>3. p \in Int /\ AddressOf(items, base, k + 1) = p + 4
  BY <1>1, PlacedIs
<1> HIDE DEF p, c
<1>4. p + 2 * (1 - 1) = p /\ p + 2 * (2 - 1) = p + 2
  BY <1>3
<1>5. 1 \in 1 .. 2 /\ 2 \in 1 .. 2
  OBVIOUS
<1>6. Holds(c, p, items[k].word)
  BY <1>2, <1>4, <1>5 DEF Holds, HasHalves
<1> QED BY <1>3, <1>6 DEF p, c

\* So are the two instructions of li32.
LEMMA ConstantPlaced ==
  ASSUME NEW items, Len(items) \in Nat, NEW base \in Int, NEW k \in 1 .. Len(items),
         items[k].kind = "li32"
  PROVE  /\ Holds(assemble(items, base), AddressOf(items, base, k), Lui(items[k].rd, items[k].val))
         /\ Holds(assemble(items, base), AddressOf(items, base, k) + 4,
                  Addi(items[k].rd, items[k].val))
         /\ AddressOf(items, base, k) \in Int
         /\ AddressOf(items, base, k + 1) = AddressOf(items, base, k) + 8
<1> DEFINE p == AddressOf(items, base, k)
           c == assemble(items, base)
           u == Lui(items[k].rd, items[k].val)
           v == Addi(items[k].rd, items[k].val)
           e == Halves(u) \o Halves(v)
<1>1. HalfCount(items[k]) = 4 /\ SizeOf(items[k]) = 8
  BY DEF HalfCount, SizeOf
<1>2. CodeOf(items, base, k) = e
  BY DEF CodeOf, Encoded, Lui, Addi
<1>3. HasHalves(c, p, e, 4)
  <2> HIDE DEF e
  <2>1. HasHalves(c, p, CodeOf(items, base, k), HalfCount(items[k]))
    BY AssembleIs
  <2> QED BY <1>1, <1>2, <2>1
<1>4. p \in Int /\ AddressOf(items, base, k + 1) = p + 8
  BY <1>1, PlacedIs
<1>5. e[1] = Halves(u)[1] /\ e[2] = Halves(u)[2] /\ e[3] = Halves(v)[1] /\ e[4] = Halves(v)[2]
  <2> HIDE DEF u, v
  <2>1. PICK a, b : Halves(u) = <<a, b>>
    BY DEF Halves
  <2>2. PICK d, f : Halves(v) = <<d, f>>
    BY DEF Halves
  <2>3. e[1] = a /\ e[2] = b /\ e[3] = d /\ e[4] = f
    BY <2>1, <2>2, TwoPairs
  <2> QED BY <2>1, <2>2, <2>3
<1> HIDE DEF p, c, e
<1>6. /\ p + 2 * (1 - 1) = p /\ p + 2 * (2 - 1) = p + 2
      /\ p + 2 * (3 - 1) = p + 4 /\ p + 2 * (4 - 1) = (p + 4) + 2
  BY <1>4
<1>7. 1 \in 1 .. 4 /\ 2 \in 1 .. 4 /\ 3 \in 1 .. 4 /\ 4 \in 1 .. 4
  OBVIOUS
<1>8. Holds(c, p, u) /\ Holds(c, p + 4, v)
  BY <1>3, <1>5, <1>6, <1>7 DEF Holds, HasHalves
<1> QED BY <1>4, <1>8 DEF p, c

\* Item k of a program begins n bytes after base.
ItemAt(items, base, k, n) ==
    /\ Len(items) \in Nat /\ k \in 1 .. Len(items) + 1 /\ base \in Int /\ n \in Int
    /\ AddressOf(items, base, k) = base + n

\* A constant comes first.
LEMMA FirstConstant ==
  ASSUME NEW items, Len(items) \in Nat, Len(items) >= 1, NEW base \in Int, NEW rd, NEW val,
         items[1] = li32(rd, val)
  PROVE  /\ Holds(assemble(items, base), base, Lui(rd, val))
         /\ Holds(assemble(items, base), base + 4, Addi(rd, val))
         /\ ItemAt(items, base, 2, 8)
<1>1. items[1].kind = "li32" /\ items[1].rd = rd /\ items[1].val = val
  BY DEF li32
<1>2. AddressOf(items, base, 1) = base
  BY PlacedIs
<1>3. /\ Holds(assemble(items, base), base, Lui(rd, val))
      /\ Holds(assemble(items, base), base + 4, Addi(rd, val))
      /\ AddressOf(items, base, 1 + 1) = base + 8
  BY <1>1, <1>2, ConstantPlaced
<1> QED BY <1>3 DEF ItemAt

\* From one item to the next: a word,
LEMMA NextWord ==
  ASSUME NEW items, NEW base \in Int, NEW k \in Int, NEW n \in Int, NEW w,
         ItemAt(items, base, k, n), k <= Len(items), items[k] = Word(w)
  PROVE  Holds(assemble(items, base), base + n, w) /\ ItemAt(items, base, k + 1, n + 4)
<1>1. items[k].kind = "word" /\ items[k].word = w
  BY DEF Word
<1>2. /\ Len(items) \in Nat /\ k \in 1 .. Len(items) /\ k + 1 \in 1 .. Len(items) + 1
      /\ base \in Int /\ AddressOf(items, base, k) = base + n /\ n \in Int
  BY DEF ItemAt
<1>3. /\ Holds(assemble(items, base), AddressOf(items, base, k), items[k].word)
      /\ AddressOf(items, base, k + 1) = AddressOf(items, base, k) + 4
  BY <1>1, <1>2, WordPlaced
<1> QED BY <1>1, <1>2, <1>3 DEF ItemAt

\* a constant,
LEMMA NextConstant ==
  ASSUME NEW items, NEW base \in Int, NEW k \in Int, NEW n \in Int, NEW rd, NEW val,
         ItemAt(items, base, k, n), k <= Len(items), items[k] = li32(rd, val)
  PROVE  /\ Holds(assemble(items, base), base + n, Lui(rd, val))
         /\ Holds(assemble(items, base), base + (n + 4), Addi(rd, val))
         /\ ItemAt(items, base, k + 1, n + 8)
<1>1. items[k].kind = "li32" /\ items[k].rd = rd /\ items[k].val = val
  BY DEF li32
<1>2. /\ Len(items) \in Nat /\ k \in 1 .. Len(items) /\ k + 1 \in 1 .. Len(items) + 1
      /\ base \in Int /\ AddressOf(items, base, k) = base + n /\ n \in Int
  BY DEF ItemAt
<1>3. /\ Holds(assemble(items, base), AddressOf(items, base, k), Lui(items[k].rd, items[k].val))
      /\ Holds(assemble(items, base), AddressOf(items, base, k) + 4, Addi(items[k].rd, items[k].val))
      /\ AddressOf(items, base, k + 1) = AddressOf(items, base, k) + 8
  BY <1>1, <1>2, ConstantPlaced
<1>4. (base + n) + 4 = base + (n + 4)
  BY <1>2
<1> QED BY <1>1, <1>2, <1>3, <1>4 DEF ItemAt

\* a label.
LEMMA NextLabel ==
  ASSUME NEW items, NEW base \in Int, NEW k \in Int, NEW n \in Int, NEW name,
         ItemAt(items, base, k, n), k <= Len(items), items[k] = Label(name)
  PROVE  ItemAt(items, base, k + 1, n)
<1>1. SizeOf(items[k]) = 0
  BY DEF Label, SizeOf
<1>2. /\ Len(items) \in Nat /\ k \in 1 .. Len(items) /\ k + 1 \in 1 .. Len(items) + 1
      /\ base \in Int /\ AddressOf(items, base, k) = base + n /\ n \in Int
      /\ k \in 1 .. Len(items) + 1
  BY DEF ItemAt
<1>3. AddressOf(items, base, k + 1) = AddressOf(items, base, k) + 0 /\ AddressOf(items, base, k) \in Int
  BY <1>1, <1>2, PlacedIs
<1>4. AddressOf(items, base, k + 1) = AddressOf(items, base, k)
  BY <1>3
<1> QED BY <1>2, <1>4 DEF ItemAt

\* A 12-bit immediate in its field and back.
LEMMA SignedImmediate ==
  ASSUME NEW imm \in Int, -2048 <= imm, imm < 2048, NEW rs2, NEW rs1, NEW f3, NEW rd, NEW o
  PROVE  /\ imm_i(enc_i(imm, rs1, f3, rd, o)) = imm
         /\ imm_s(enc_s(imm, rs2, rs1, f3, o)) = imm
BY SMT, ImmediatesRoundTrip

\* A number cut to some bits and extended again is the number up to the bits cut.
LEMMA SextShift ==
  ASSUME NEW n \in Int, NEW d \in Nat \ {0}, NEW s \in Int, d = 2 * s
  PROVE  \E j \in Int : Sext(n % d, s) = n + j * d
<1> DEFINE q == n \div d
           r == n % d
<1>1. q \in Int /\ r \in 0 .. d - 1 /\ n = d * q + r
  <2>1. n \in Int /\ d \in Nat \ {0}
    OBVIOUS
  <2> QED BY ONLY <2>1
<1> HIDE DEF q, r
<1>2. r = n + (-q) * d /\ r - d = n + (-q - 1) * d /\ -q \in Int /\ -q - 1 \in Int
  BY <1>1
<1>3. Sext(r, s) = r \/ Sext(r, s) = r - d
  BY <1>1 DEF Sext
<1> QED BY <1>2, <1>3 DEF r

\* lui and addi together give the constant: what the first rounds up the second takes
\* back, also where the upper half does not fit 20 bits.
LEMMA ConstantLoaded ==
  ASSUME XLEN <= 32, NEW val \in Words, NEW rd \in Registers
  PROVE  LET u == Immediate(Lui(rd, val))
             v == Immediate(Addi(rd, val)) IN
         /\ u \in Int /\ v \in Int
         /\ Wrap(Wrap(u) + Wrap(v)) = val
<1> DEFINE n == upper(val)
           u == Immediate(Lui(rd, val))
           v == Immediate(Addi(rd, val))
           m == (n % 1048576)
<1>0. val \in Nat /\ Size \in Nat \ {0}
  BY WordSizes
<1>1. n \in Int /\ lower(val) \in Int /\ -2048 <= lower(val) /\ lower(val) < 2048
      /\ val = 4096 * n + lower(val)
  BY <1>0 DEF upper, lower
<1>2. \E q \in Nat : 4294967296 = q * Size
  <2>1. XLEN \in {12, 16, 20, 24, 28, 32}
    <3>1. XLEN \in Nat /\ XLEN >= 12 /\ XLEN % 4 = 0 /\ XLEN <= 32
      BY WidthAssumption
    <3> QED BY ONLY <3>1
  <2>2. Pow2[12] = 4096 /\ Pow2[4] = 16 /\ Pow2[8] = 256
    BY SmallPowers
  <2>3. XLEN >= 16 => Pow2[16] = 65536
    BY <2>1, <2>2, PowerSum
  <2>4. XLEN >= 20 => Pow2[20] = 1048576
    BY <2>1, <2>2, PowerSum
  <2>5. XLEN >= 24 => Pow2[24] = 16777216
    BY <2>1, <2>2, PowerSum
  <2>6. XLEN >= 28 => Pow2[28] = 268435456
    BY <2>1, <2>2, <2>3, PowerSum
  <2>7. XLEN >= 32 => Pow2[32] = 4294967296
    BY <2>1, <2>3, PowerSum
  <2>8. Size \in {4096, 65536, 1048576, 16777216, 268435456, 4294967296}
    BY <2>1, <2>2, <2>3, <2>4, <2>5, <2>6, <2>7 DEF Size
  <2>9. /\ 4294967296 = 1048576 * 4096 /\ 4294967296 = 65536 * 65536
        /\ 4294967296 = 4096 * 1048576 /\ 4294967296 = 256 * 16777216
        /\ 4294967296 = 16 * 268435456 /\ 4294967296 = 1 * 4294967296
    OBVIOUS
  <2> QED BY ONLY <2>8, <2>9
<1>3. u = 4096 * Sext(m, 524288)
  <2>1. get_fmt(OP_LUI) = "U"
    BY DEF get_fmt, OP_LUI, OP_ALU, OP_AMO, OP_FP, OP_ALUI, OP_LOAD, OP_JALR, OP_LOAD_FP, OP_SYSTEM,
           OP_STORE, OP_STORE_FP, OP_BRANCH, OP_AUIPC
  <2>2. u = imm_u(Lui(rd, val))
    BY <2>1 DEF Immediate, Lui, enc_u, enc_r
  <2> HIDE DEF u, n
  <2>3. /\ (n * 4096) \div 33554432 = n \div 8192 /\ (n * 4096) \div 1048576 = n \div 256
        /\ (n * 4096) \div 32768 = n \div 8 /\ (n * 4096) \div 4096 = n
    BY SMTT(30), <1>1
  <2>4. ((n \div 8192) % 128) * 8192 + ((n \div 256) % 32) * 256 + ((n \div 8) % 32) * 8 + (n % 8)
        = n % 1048576
    BY SMTT(30), <1>1
  <2> QED BY <2>2, <2>3, <2>4 DEF imm_u, Lui, enc_u, enc_r, n
<1>4. v = lower(val)
  <2>1. get_fmt(OP_ALUI) = "I"
    BY DEF get_fmt, OP_ALU, OP_AMO, OP_FP, OP_ALUI
  <2>2. v = imm_i(Addi(rd, val))
    BY <2>1 DEF Immediate, Addi, enc_i, enc_r
  <2>3. ASSUME NEW x \in Int, -2048 <= x, x < 2048
        PROVE  imm_i(enc_i(x, rd, 0, rd, OP_ALUI)) = x
    BY SMT, <2>3, SignedImmediate
  <2> HIDE DEF v
  <2> QED BY <1>1, <2>2, <2>3 DEF Addi
<1> HIDE DEF u, v, n
<1>5. PICK j \in Int : u = 4096 * n + j * 4294967296
  <2>1. PICK j \in Int : Sext(m, 524288) = n + j * 1048576
    <3>1. 1048576 = 2 * 524288 /\ 1048576 \in Nat \ {0} /\ 524288 \in Int
      BY SMT
    <3>2. ASSUME NEW d \in Nat \ {0}, NEW s \in Int, d = 2 * s
          PROVE  \E j \in Int : Sext(n % d, s) = n + j * d
      <4>1. n \in Int
        BY <1>1
      <4> QED BY <3>2, <4>1, SextShift
    <3> QED BY SMT, <3>1, <3>2 DEF m
  <2> HIDE DEF m
  <2>2. u = 4096 * n + j * 4294967296
    BY SMT, <1>1, <1>3, <2>1
  <2> QED BY SMT, <2>2
<1>6. PICK q \in Nat : 4294967296 = q * Size
  BY <1>2
<1>7. u \in Int /\ v \in Int
  BY <1>1, <1>4, <1>5
<1>8. PICK s \in Int : Wrap(u) = u + s * Size
  BY <1>7, WrapIs
<1>9. PICK t \in Int : Wrap(v) = v + t * Size
  BY <1>7, WrapIs
<1>10. Wrap(u) + Wrap(v) = val + (j * q + s + t) * Size
  <2>1. u = 4096 * n + (j * q) * Size
    BY <1>0, <1>1, <1>5, <1>6
  <2>2. j * q \in Int
    OBVIOUS
  <2> DEFINE x == j * q
             z == Size
  <2>3. /\ u = 4096 * n + x * z /\ x \in Int /\ z \in Int
        /\ val = 4096 * n + v /\ v \in Int /\ n \in Int
    BY <1>0, <1>1, <1>4, <2>1, <2>2
  <2> HIDE DEF x, z
  <2>4. (u + s * z) + (v + t * z) = val + (x + s + t) * z
    BY <2>3
  <2> QED BY <1>8, <1>9, <2>4 DEF x, z
<1>11. j * q + s + t \in Int
  OBVIOUS
<1>12. Wrap(val + (j * q + s + t) * Size) = val
  <2> DEFINE x == j * q + s + t
  <2>1. x \in Int
    BY <1>11
  <2> HIDE DEF x
  <2>2. Wrap(val + x * Size) = Wrap(val)
    BY <1>0, <2>1, WrapShift
  <2>3. Wrap(val) = val
    BY WrapWord
  <2> QED BY <2>2, <2>3 DEF x
<1> QED BY <1>7, <1>10, <1>12 DEF u, v

-----------------------------------------------------------------------------
\* Steps of the machine.

\* The instruction of a 32-bit word.
I(w) == [raw |-> w, len |-> 4, imm |-> Immediate(w)]

\* The machine is about to execute the word w.
Reads(w) ==
    /\ w \in Fields /\ get_fmt(w.op) # "UNKNOWN"
    /\ Holds(boot.code, pc, w)
    /\ pc % 2 = 0 /\ pc + 4 <= MemSize

\* The opcodes are different.
LEMMA Opcodes ==
  /\ OP_LUI = 55 /\ OP_AUIPC = 23 /\ OP_JAL = 111 /\ OP_JALR = 103 /\ OP_BRANCH = 99
  /\ OP_LOAD = 3 /\ OP_STORE = 35 /\ OP_LOAD_FP = 7 /\ OP_STORE_FP = 39 /\ OP_ALUI = 19
  /\ OP_ALU = 51 /\ OP_AMO = 47 /\ OP_FP = 83 /\ OP_SYSTEM = 115
BY DEF OP_LUI, OP_AUIPC, OP_JAL, OP_JALR, OP_BRANCH, OP_LOAD, OP_STORE, OP_LOAD_FP, OP_STORE_FP,
       OP_ALUI, OP_ALU, OP_AMO, OP_FP, OP_SYSTEM

\* The instruction fetched is that of the word at pc.
LEMMA Fetched ==
  ASSUME CInv, NEW w, Reads(w)
  PROVE  /\ I(w) \in Decoded /\ Instruction = {I(w)}
         /\ Following(I(w)) = pc + 4 /\ pc + 4 \in Words
         /\ ~FetchRefused
<1>1. /\ w \in Fields /\ get_fmt(w.op) # "UNKNOWN" /\ pc \in Nat /\ pc % 2 = 0
      /\ pc + 4 <= MemSize /\ MemSize \in 1 .. Size - 1
  BY MemoryAssumption, WordSizes DEF Reads, CInv, CTypeOK
<1>2. /\ Parcel(pc) = Halves(w)[1] /\ Parcel(pc + 2) = Halves(w)[2]
  BY DEF Reads, Holds, Parcel
<1>3. Joined(Parcel(pc), Parcel(pc + 2)) = w
  BY <1>1, <1>2, FetchJoinsHalves
<1>4. w.op % 4 = 3
  BY <1>1, Opcodes DEF get_fmt
<1>5. Halves(w)[1] % 4 = w.op % 4
  <2>1. Halves(w)[1] = (w.rs1 % 2) * 32768 + w.f3 * 4096 + w.rd * 128 + w.op
    BY DEF Halves
  <2>2. w.rs1 \in Int /\ w.f3 \in Int /\ w.rd \in Int /\ w.op \in Int
    BY <1>1, FieldBounds
  <2>3. \A a, b, c, d \in Int : (a * 32768 + b * 4096 + c * 128 + d) % 4 = d % 4
    OBVIOUS
  <2>4. w.rs1 % 2 \in Int
    BY <2>2
  <2> QED BY <2>1, <2>2, <2>3, <2>4
<1>6. Instruction = decode(w, 4)
  BY <1>1, <1>2, <1>3, <1>4, <1>5 DEF Instruction, InMemory
<1>7. decode(w, 4) = {I(w)}
  BY <1>1 DEF decode, I
<1>8. I(w) \in Decoded
  BY <1>6, <1>7, CInvParts
<1>9. Following(I(w)) = pc + 4 /\ pc + 4 \in Words
  <2>1. pc + 4 \in Words
    BY <1>1, WordSizes
  <2> QED BY <2>1, WrapWord DEF Following, I
<1>10. ~FetchRefused
  <2>1. Wrap(pc + 2) = pc + 2
    <3>1. pc + 2 \in Words
      BY <1>1, WordSizes
    <3> QED BY <3>1, WrapWord
  <2> QED BY <1>1, <1>6, <1>7, <2>1 DEF FetchRefused, OutOfMemory
<1> QED BY <1>6, <1>7, <1>8, <1>9, <1>10

\* What an instruction faults for.
Faulty(i) == \/ i.raw.op = OP_BRANCH /\ i.raw.f3 \notin BranchKinds
             \/ AccessRefused(i)
             \/ i.raw.op = OP_FP /\ FregResults(i) \cup RegResults(i) = {}
             \/ SystemRefused(i)

\* A step executes the instruction fetched, unless it faults.
LEMMA StepOf ==
  ASSUME Step, NEW i, Instruction = {i}, ~FetchRefused
  PROVE  /\ mtime' = mtime + 1 /\ boot' = boot /\ state = "RUNNING"
         /\ \/ Faulty(i) /\ Fault
            \/ Execute(i) /\ mcycle' = Counted(i)
<1>1. Fault => Faulty(i)
  BY DEF Fault, Faulty
<1> QED BY <1>1 DEF Step, Going

\* In particular the word at pc.
LEMMA StepAt ==
  ASSUME CInv, Step, NEW w, Reads(w)
  PROVE  /\ mtime' = mtime + 1 /\ boot' = boot /\ state = "RUNNING"
         /\ \/ Faulty(I(w)) /\ Fault
            \/ Execute(I(w)) /\ mcycle' = Counted(I(w))
BY Fetched, StepOf

\* The machine goes on with the next word.
Advances == /\ mtime' = mtime + 1 /\ boot' = boot
            /\ state = "RUNNING" /\ state' = "RUNNING"
            /\ pc' = pc + 4

\* The opcode decides which action executes an instruction.
LEMMA OpcodeDecides ==
  ASSUME NEW i, Execute(i)
  PROVE  /\ i.raw.op \in {OP_LUI, OP_AUIPC, OP_ALUI, OP_ALU} => Compute(i)
         /\ i.raw.op = OP_BRANCH => Branch(i)
         /\ i.raw.op \in {OP_JAL, OP_JALR} => Jump(i)
         /\ i.raw.op = OP_LOAD => Load(i)
         /\ i.raw.op = OP_STORE => Store(i)
         /\ i.raw.op = OP_LOAD_FP => FpLoad(i)
         /\ i.raw.op = OP_STORE_FP => FpStore(i)
         /\ i.raw.op = OP_FP => FpOp(i)
         /\ i.raw.op = OP_SYSTEM => System(i) \/ CsrInstr(i)
<1>1. ECALL.op = OP_SYSTEM /\ EBREAK.op = OP_SYSTEM
  BY DEF ECALL, EBREAK, Special, enc_i, enc_r
<1>2. System(i) \/ CsrInstr(i) => i.raw.op = OP_SYSTEM
  BY <1>1 DEF System, Exit, Write, UnknownService, Ebreak, Sfence, IsSfence, CsrInstr
<1>3. /\ Compute(i) => i.raw.op \in {OP_LUI, OP_AUIPC, OP_ALUI, OP_ALU}
      /\ Branch(i) => i.raw.op = OP_BRANCH
      /\ Jump(i) => i.raw.op \in {OP_JAL, OP_JALR}
      /\ Load(i) => i.raw.op = OP_LOAD
      /\ Store(i) => i.raw.op = OP_STORE
      /\ FpLoad(i) => i.raw.op = OP_LOAD_FP
      /\ FpStore(i) => i.raw.op = OP_STORE_FP
      /\ FpOp(i) => i.raw.op = OP_FP
  BY DEF Compute, Branch, Jump, Load, Store, FpLoad, FpStore, FpOp
<1>4. \/ Compute(i) \/ Branch(i) \/ Jump(i) \/ Load(i) \/ Store(i) \/ FpLoad(i)
      \/ FpStore(i) \/ FpOp(i) \/ System(i) \/ CsrInstr(i)
  BY DEF Execute
<1> QED BY <1>2, <1>3, <1>4, Opcodes

\* Computation.
LEMMA ComputeAt ==
  ASSUME CInv, Step, NEW w, Reads(w), w.op \in {OP_LUI, OP_AUIPC, OP_ALUI, OP_ALU}
  PROVE  /\ Advances /\ regs' = reg_write(w.rd, Computed(I(w)))
         /\ csr' = Polled
         /\ UNCHANGED <<fregs, fflags, mem, mtimecmp, out>>
<1> DEFINE i == I(w)
<1>1. i.raw = w
  BY DEF I
<1>2. w.op \notin {OP_BRANCH, OP_JAL, OP_JALR, OP_LOAD, OP_STORE, OP_LOAD_FP, OP_STORE_FP, OP_FP, OP_SYSTEM}
  BY Opcodes
<1>3. ~Faulty(i)
  BY <1>1, <1>2 DEF Faulty, AccessRefused, SystemRefused
<1>4. Compute(i)
  BY <1>1, <1>3, StepAt, OpcodeDecides
<1> QED BY <1>1, <1>4, StepAt, Fetched DEF Compute, Retire, Advances

\* An access of n bytes that lie in the memory is not out of it, nor to a device.
LEMMA InsideMemory ==
  ASSUME NEW a \in Words, NEW n \in {1, 2, 4}, a + n <= MemSize
  PROVE  /\ InMemory(a, n) /\ ~OutOfMemory(a, n)
         /\ a \notin {CSR_MMIO_UART, CLINT_MTIME_LO, CLINT_MTIMECMP_LO}
<1>1. a + n \in Words /\ a \in Nat
  BY MemoryAssumption, WordSizes
<1>2. Wrap(a + n) = a + n
  BY <1>1, WrapWord
<1>3. /\ CSR_MMIO_UART >= MemSize /\ CLINT_MTIME_LO >= MemSize /\ CLINT_MTIMECMP_LO >= MemSize
      /\ MemSize \in Nat
  BY MemoryAssumption, WordSizes
<1> QED BY <1>1, <1>2, <1>3 DEF InMemory, OutOfMemory

\* A load from the memory.
LEMMA LoadAt ==
  ASSUME CInv, Step, NEW w, Reads(w), w.op = OP_LOAD, w.f3 \in {0, 1, 2, 4, 5},
         Aligned(I(w)), Target(I(w)) + Width(I(w)) <= MemSize
  PROVE  /\ Advances /\ regs' = reg_write(w.rd, LoadedInt(I(w)))
         /\ csr' = Polled
         /\ UNCHANGED <<fregs, fflags, mem, mtimecmp, out>>
<1> DEFINE i == I(w)
<1>1. i.raw = w /\ i \in Decoded
  BY Fetched DEF I
<1>2. Target(i) \in Words /\ Width(i) \in {1, 2, 4}
  BY <1>1, TargetType, WidthType DEF CInv, CTypeOK
<1>3. ~OutOfMemory(Target(i), Width(i)) /\ Target(i) # CLINT_MTIME_LO
  BY <1>2, InsideMemory
<1>4. ~Faulty(i)
  BY <1>1, <1>3, Opcodes DEF Faulty, AccessRefused, SystemRefused
<1>5. Load(i) /\ ~ReadsMtime(i)
  BY <1>1, <1>3, <1>4, StepAt, OpcodeDecides DEF ReadsMtime
<1> HIDE DEF i
<1>6. Following(i) = pc + 4
  BY Fetched DEF i
<1> QED BY <1>1, <1>5, <1>6, StepAt DEF Load, Retire, Advances, i

\* A store to the memory.
LEMMA StoreAt ==
  ASSUME CInv, Step, NEW w, Reads(w), w.op = OP_STORE, w.f3 \in 0 .. 2,
         Aligned(I(w)), Target(I(w)) + Width(I(w)) <= MemSize
  PROVE  /\ Advances /\ mem' = Stored(Target(I(w)), Width(I(w)), rs2_val(I(w)))
         /\ csr' = Polled
         /\ UNCHANGED <<regs, fregs, fflags, mtimecmp, out>>
<1> DEFINE i == I(w)
<1>1. i.raw = w /\ i \in Decoded
  BY Fetched DEF I
<1>2. Target(i) \in Words /\ Width(i) \in {1, 2, 4}
  BY <1>1, TargetType, WidthType DEF CInv, CTypeOK
<1>3. ~OutOfMemory(Target(i), Width(i)) /\ Target(i) \notin {CLINT_MTIMECMP_LO, CSR_MMIO_UART}
  BY <1>2, InsideMemory
<1>4. ~Faulty(i)
  BY <1>1, <1>3, Opcodes DEF Faulty, AccessRefused, SystemRefused
<1>5. Store(i) /\ ~ArmsTimer(i) /\ ~Prints(i)
  BY <1>1, <1>3, <1>4, StepAt, OpcodeDecides DEF ArmsTimer, Prints
<1> HIDE DEF i
<1>6. Following(i) = pc + 4
  BY Fetched DEF i
<1> QED BY <1>1, <1>5, <1>6, StepAt DEF Store, Retire, Advances, i

\* Floating-point loads and stores.
LEMMA FpLoadAt ==
  ASSUME CInv, Step, NEW w, Reads(w), w.op = OP_LOAD_FP, w.f3 = 2,
         Aligned(I(w)), Target(I(w)) + 4 <= MemSize
  PROVE  /\ Advances /\ fregs' = [fregs EXCEPT ![w.rd] = Value(Target(I(w)), 4)]
         /\ csr' = Polled
         /\ UNCHANGED <<regs, fflags, mem, mtimecmp, out>>
<1> DEFINE i == I(w)
<1>1. i.raw = w /\ i \in Decoded
  BY Fetched DEF I
<1>2. Target(i) \in Words
  BY <1>1, TargetType DEF CInv, CTypeOK
<1>3. ~OutOfMemory(Target(i), 4)
  BY <1>2, InsideMemory
<1>4. ~Faulty(i)
  BY <1>1, <1>3, Opcodes DEF Faulty, AccessRefused, SystemRefused
<1>5. FpLoad(i)
  BY <1>1, <1>4, StepAt, OpcodeDecides
<1> HIDE DEF i
<1>6. Following(i) = pc + 4
  BY Fetched DEF i
<1> QED BY <1>1, <1>5, <1>6, StepAt DEF FpLoad, Retire, Advances, i

\* and fsw of one inside memory,
LEMMA FpStoreAt ==
  ASSUME CInv, Step, NEW w, Reads(w), w.op = OP_STORE_FP, w.f3 = 2,
         Aligned(I(w)), Target(I(w)) + 4 <= MemSize
  PROVE  /\ Advances /\ mem' = Stored(Target(I(w)), 4, fregs[w.rs2])
         /\ csr' = Polled
         /\ UNCHANGED <<regs, fregs, fflags, mtimecmp, out>>
<1> DEFINE i == I(w)
<1>1. i.raw = w /\ i \in Decoded
  BY Fetched DEF I
<1>2. Target(i) \in Words
  BY <1>1, TargetType DEF CInv, CTypeOK
<1>3. ~OutOfMemory(Target(i), 4)
  BY <1>2, InsideMemory
<1>4. ~Faulty(i)
  BY <1>1, <1>3, Opcodes DEF Faulty, AccessRefused, SystemRefused
<1>5. FpStore(i)
  BY <1>1, <1>4, StepAt, OpcodeDecides
<1> HIDE DEF i
<1>6. Following(i) = pc + 4
  BY Fetched DEF i
<1> QED BY <1>1, <1>5, <1>6, StepAt DEF FpStore, Retire, Advances, i

\* A floating-point operation with a result for an f register, or for an x register.
LEMMA FpOpAt ==
  ASSUME CInv, Step, NEW w, Reads(w), w.op = OP_FP,
         FregResults(I(w)) \cup RegResults(I(w)) # {}
  PROVE  /\ Advances
         /\ \/ \E r \in FregResults(I(w)) :
                 /\ fregs' = [fregs EXCEPT ![w.rd] = r.bits]
                 /\ fflags' = Accrued(r)
                 /\ UNCHANGED regs
            \/ \E r \in RegResults(I(w)) :
                 /\ regs' = reg_write(w.rd, r.bits)
                 /\ fflags' = Accrued(r)
                 /\ UNCHANGED fregs
         /\ csr' = Polled
         /\ UNCHANGED <<mem, mtimecmp, out>>
<1> DEFINE i == I(w)
<1>1. i.raw = w
  BY DEF I
<1>2. ~Faulty(i)
  BY <1>1, Opcodes DEF Faulty, AccessRefused, SystemRefused
<1>3. FpOp(i)
  BY <1>1, <1>2, StepAt, OpcodeDecides
<1> HIDE DEF i
<1>4. Following(i) = pc + 4
  BY Fetched DEF i
<1> QED BY <1>1, <1>3, <1>4, StepAt DEF FpOp, Retire, Advances, i

\* An instruction on a control and status register.
LEMMA CsrAt ==
  ASSUME CInv, Step, NEW w, Reads(w), w.op = OP_SYSTEM, w.f3 \notin {0, 4},
         Immediate(w) \in Csrs
  PROVE  /\ Advances
         /\ csr' = HeldWritten(Immediate(w), wdata(I(w)))
         /\ fflags' = FlagsWritten(Immediate(w), wdata(I(w)))
         /\ regs' = reg_write(w.rd, csr_read(Immediate(w)))
         /\ UNCHANGED <<fregs, mem, mtimecmp, out>>
<1> DEFINE i == I(w)
<1>1. i.raw = w /\ i.imm = Immediate(w)
  BY DEF I
<1>2. ~Faulty(i)
  BY <1>1, Opcodes DEF Faulty, AccessRefused, SystemRefused
<1>3. ~System(i)
  BY <1>1 DEF System, Exit, Write, UnknownService, Ebreak, Sfence, ECALL, EBREAK, Special, enc_i,
              enc_r, IsSfence
<1>4. CsrInstr(i)
  BY <1>1, <1>2, <1>3, StepAt, OpcodeDecides
<1> HIDE DEF i
<1>5. Following(i) = pc + 4
  BY Fetched DEF i
<1> QED BY <1>1, <1>4, <1>5, StepAt DEF CsrInstr, Retire, Advances, i

\* A branch.
LEMMA BranchAt ==
  ASSUME CInv, Step, NEW w, Reads(w), w.op = OP_BRANCH, w.f3 \in BranchKinds
  PROVE  /\ mtime' = mtime + 1 /\ boot' = boot /\ state = "RUNNING" /\ state' = "RUNNING"
         /\ pc' = IF taken(w.f3, regs[w.rs1], regs[w.rs2]) THEN Wrap(pc + Immediate(w)) ELSE pc + 4
         /\ csr' = Polled
         /\ UNCHANGED <<regs, fregs, fflags, mem, mtimecmp, out>>
<1> DEFINE i == I(w)
<1>1. i.raw = w /\ i.imm = Immediate(w)
  BY DEF I
<1>2. ~Faulty(i)
  BY <1>1, Opcodes DEF Faulty, AccessRefused, SystemRefused
<1>3. Branch(i)
  BY <1>1, <1>2, StepAt, OpcodeDecides
<1> HIDE DEF i
<1>4. Following(i) = pc + 4
  BY Fetched DEF i
<1> QED BY <1>1, <1>3, <1>4, StepAt DEF Branch, Retire, rs1_val, rs2_val

\* The end: ebreak, of 16 or of 32 bits.
LEMMA EbreakOf ==
  ASSUME Step, NEW i, Instruction = {i}, ~FetchRefused, i.raw = EBREAK
  PROVE  /\ mtime' = mtime + 1 /\ boot' = boot /\ state' = "HALTED" /\ exit_code' = 0
         /\ csr' = Polled
         /\ UNCHANGED <<regs, fregs, fflags, mem, mtimecmp, out>>
<1>1. EBREAK.op = OP_SYSTEM /\ EBREAK.f3 = 0 /\ EBREAK # ECALL /\ ~IsSfence(EBREAK)
  BY DEF ECALL, EBREAK, Special, enc_i, enc_r, IsSfence
<1>2. ~Faulty(i)
  BY <1>1, Opcodes DEF Faulty, AccessRefused, SystemRefused
<1>3. System(i)
  BY <1>1, <1>2, StepOf, OpcodeDecides DEF CsrInstr
<1>4. Ebreak(i)
  BY <1>1, <1>3 DEF System, Exit, Write, UnknownService, Ebreak, Sfence
<1> QED BY <1>3, <1>4, StepOf DEF System, Ebreak

\* An ebreak ends the run (execute.c).
LEMMA EbreakAt ==
  ASSUME CInv, Step, Reads(EBREAK)
  PROVE  /\ mtime' = mtime + 1 /\ boot' = boot /\ state' = "HALTED" /\ exit_code' = 0
         /\ csr' = Polled
         /\ UNCHANGED <<regs, fregs, fflags, mem, mtimecmp, out>>
<1>1. I(EBREAK).raw = EBREAK
  BY DEF I
<1> QED BY <1>1, Fetched, EbreakOf

-----------------------------------------------------------------------------
\* The instructions of programs.

\* The machine is at the word w.
AtWord(w) == Holds(boot.code, pc, w) /\ pc % 2 = 0 /\ pc + 4 <= MemSize

\* The machine goes on, and only register rd changes.
Writes(rd, v) ==
    /\ Advances /\ regs' = [regs EXCEPT ![rd] = v]
    /\ csr' = Polled
    /\ UNCHANGED <<fregs, fflags, mem, mtimecmp, out>>

\* The opcodes that programs use have formats.
LEMMA Formats ==
  /\ get_fmt(OP_ALU) = "R" /\ get_fmt(OP_FP) = "R" /\ get_fmt(OP_ALUI) = "I"
  /\ get_fmt(OP_LOAD) = "I" /\ get_fmt(OP_JALR) = "I" /\ get_fmt(OP_LOAD_FP) = "I"
  /\ get_fmt(OP_SYSTEM) = "I" /\ get_fmt(OP_STORE) = "S" /\ get_fmt(OP_STORE_FP) = "S"
  /\ get_fmt(OP_BRANCH) = "B" /\ get_fmt(OP_LUI) = "U" /\ get_fmt(OP_JAL) = "J"
BY Opcodes DEF get_fmt

\* Numbers of registers.
LEMMA RegisterNumbers ==
  ASSUME NEW r \in 1 .. 31
  PROVE  r \in Registers /\ r # 0
BY DEF Registers

\* lui
LEMMA LuiRuns ==
  ASSUME CInv, Step, NEW rd \in 1 .. 31, NEW val \in Words, AtWord(Lui(rd, val))
  PROVE  Writes(rd, Wrap(Immediate(Lui(rd, val))))
<1> DEFINE w == Lui(rd, val)
<1>1. w.op = OP_LUI /\ w.rd = rd
  BY DEF Lui, enc_u, enc_r
<1>2. w \in Fields
  <2>1. upper(val) * 4096 \in Int
    BY WordSizes DEF upper
  <2>2. OP_LUI \in Codes7
    BY NamedCodes
  <2> QED BY <2>1, <2>2, EncodeU, RegisterNumbers DEF Lui
<1> HIDE DEF w
<1>3. Reads(w)
  BY <1>1, <1>2, Formats DEF Reads, AtWord, w
<1>4. Computed(I(w)) = Wrap(Immediate(w))
  BY <1>1 DEF Computed, I
<1> QED BY <1>1, <1>3, <1>4, ComputeAt DEF Writes, reg_write, w

\* An operation with an immediate.
LEMMA ImmRuns ==
  ASSUME CInv, Step, NEW rd \in 1 .. 31, NEW rs \in Registers, NEW f3 \in Codes3,
         NEW imm \in Int, -2048 <= imm, imm < 2048,
         AtWord(enc_i(imm, rs, f3, rd, OP_ALUI))
  PROVE  Writes(rd, op_alui((imm \div 32) % 128, f3, regs[rs], imm))
<1> DEFINE w == enc_i(imm, rs, f3, rd, OP_ALUI)
<1>1. /\ w.op = OP_ALUI /\ w.rd = rd /\ w.rs1 = rs /\ w.f3 = f3
      /\ w.f7 = (imm \div 32) % 128
  BY DEF enc_i, enc_r
<1>2. w \in Fields
  <2>1. OP_ALUI \in Codes7
    BY NamedCodes
  <2> QED BY <2>1, EncodeI, RegisterNumbers
<1>3. imm_i(w) = imm
  BY SMT, SignedImmediate
<1> HIDE DEF w
<1>4. Immediate(w) = imm
  BY <1>1, <1>3, Formats DEF Immediate
<1>5. Reads(w)
  BY <1>1, <1>2, Formats DEF Reads, AtWord, w
<1>6. Computed(I(w)) = op_alui((imm \div 32) % 128, f3, regs[rs], imm)
  BY <1>1, <1>4, Opcodes DEF Computed, I, rs1_val
<1> QED BY <1>1, <1>5, <1>6, ComputeAt DEF Writes, reg_write

\* Addition of an immediate.
LEMMA AddRuns ==
  ASSUME CInv, Step, NEW rd \in 1 .. 31, NEW rs \in Registers,
         NEW imm \in Int, -2048 <= imm, imm < 2048,
         AtWord(enc_i(imm, rs, 0, rd, OP_ALUI))
  PROVE  Writes(rd, Wrap(regs[rs] + Wrap(imm)))
<1>1. 0 \in Codes3
  BY NamedCodes
<1>2. Writes(rd, op_alui((imm \div 32) % 128, 0, regs[rs], imm))
  BY <1>1, ImmRuns
<1>3. \A f7 : op_alui(f7, 0, regs[rs], imm) = Wrap(regs[rs] + Wrap(imm))
  BY DEF op_alui, Arith, Sub
<1> QED BY <1>2, <1>3

\* The second instruction of li32.
LEMMA AddiRuns ==
  ASSUME CInv, Step, XLEN <= 32, NEW rd \in 1 .. 31, NEW val \in Words,
         AtWord(Addi(rd, val)), regs[rd] = Wrap(Immediate(Lui(rd, val)))
  PROVE  Writes(rd, val)
<1>1. lower(val) \in Int /\ -2048 <= lower(val) /\ lower(val) < 2048
  BY SMT, WordSizes DEF upper, lower
<1>2. rd \in Registers
  BY RegisterNumbers
<1>3. Immediate(Addi(rd, val)) = lower(val)
  <2> DEFINE x == lower(val)
  <2>1. x \in Int /\ -2048 <= x /\ x < 2048
    BY <1>1
  <2> HIDE DEF x
  <2>2. imm_i(enc_i(x, rd, 0, rd, OP_ALUI)) = x
    BY SMT, <2>1, SignedImmediate
  <2>3. Immediate(enc_i(x, rd, 0, rd, OP_ALUI)) = imm_i(enc_i(x, rd, 0, rd, OP_ALUI))
    BY Formats DEF Immediate, enc_i, enc_r
  <2> QED BY <2>2, <2>3 DEF x, Addi
<1>4. Writes(rd, Wrap(regs[rd] + Wrap(lower(val))))
  BY <1>1, <1>2, AddRuns DEF Addi
<1> QED BY <1>2, <1>3, <1>4, ConstantLoaded

\* A register operation.
LEMMA OpRuns ==
  ASSUME CInv, Step, NEW f7 \in Codes7, NEW f3 \in Codes3, NEW rd \in 1 .. 31,
         NEW rs1 \in Registers, NEW rs2 \in Registers,
         AtWord(enc_r(f7, rs2, rs1, f3, rd, OP_ALU))
  PROVE  Writes(rd, op_alu(f7, f3, regs[rs1], regs[rs2]))
<1> DEFINE w == enc_r(f7, rs2, rs1, f3, rd, OP_ALU)
<1>1. w.op = OP_ALU /\ w.rd = rd /\ w.rs1 = rs1 /\ w.rs2 = rs2 /\ w.f3 = f3 /\ w.f7 = f7
  BY DEF enc_r
<1>2. w \in Fields
  BY Opcodes DEF enc_r, Fields, Registers, Codes3, Codes7
<1> HIDE DEF w
<1>3. Reads(w)
  BY <1>1, <1>2, Formats DEF Reads, AtWord, w
<1>4. Computed(I(w)) = op_alu(f7, f3, regs[rs1], regs[rs2])
  BY <1>1, Opcodes DEF Computed, I, rs1_val, rs2_val
<1> QED BY <1>1, <1>3, <1>4, ComputeAt DEF Writes, reg_write

\* ebreak is a word.
LEMMA EbreakIsWord ==
  /\ EBREAK \in Fields /\ get_fmt(EBREAK.op) # "UNKNOWN"
  /\ EBREAK = enc_i(1, 0, 0, 0, OP_SYSTEM)
<1>1. enc_i(1, 0, 0, 0, OP_SYSTEM) \in Fields
  BY NamedCodes, EncodeI
<1> QED BY <1>1, Formats DEF EBREAK, Special, enc_i, enc_r

\* ebreak
LEMMA EbreakRuns ==
  ASSUME CInv, Step, AtWord(EBREAK)
  PROVE  /\ mtime' = mtime + 1 /\ boot' = boot /\ state' = "HALTED" /\ exit_code' = 0
         /\ csr' = Polled
         /\ UNCHANGED <<regs, fregs, fflags, mem, mtimecmp, out>>
BY EbreakIsWord, EbreakAt DEF AtWord, Reads

\* csrrw, csrrs, csrrc and csrrwi.
CsrWord(f3, rd, a, rs) == enc_i(a, rs, f3, rd, OP_SYSTEM)

\* What they write.
WrittenTo(f3, a, rs) ==
    IF f3 = 5 THEN rs
    ELSE IF f3 = 1 THEN regs[rs]
    ELSE IF f3 = 2 THEN BitOr(csr_read(a), regs[rs])
    ELSE BitAnd(csr_read(a), Inverted(regs[rs]))

\* They run.
LEMMA CsrRuns ==
  ASSUME CInv, Step, NEW f3 \in {1, 2, 3, 5}, NEW rd \in Registers, NEW rs \in Registers,
         NEW a \in Csrs, a \in Int, 0 <= a, a < 2048, AtWord(CsrWord(f3, rd, a, rs))
  PROVE  /\ Advances
         /\ csr' = HeldWritten(a, WrittenTo(f3, a, rs))
         /\ fflags' = FlagsWritten(a, WrittenTo(f3, a, rs))
         /\ regs' = reg_write(rd, csr_read(a))
         /\ UNCHANGED <<fregs, mem, mtimecmp, out>>
<1> DEFINE w == CsrWord(f3, rd, a, rs)
<1>1. w.op = OP_SYSTEM /\ w.f3 = f3 /\ w.rd = rd /\ w.rs1 = rs
  BY DEF CsrWord, enc_i, enc_r
<1>2. w \in Fields
  <2>1. f3 \in Codes3 /\ OP_SYSTEM \in Codes7
    BY NamedCodes DEF Codes3
  <2> QED BY <2>1, EncodeI DEF CsrWord
<1>3. imm_i(w) = a
  <2>1. \A x \in Int : -2048 <= x /\ x < 2048 => imm_i(enc_i(x, rs, f3, rd, OP_SYSTEM)) = x
    BY SMT, SignedImmediate
  <2>2. -2048 <= a
    BY SMT
  <2> QED BY <2>1, <2>2 DEF CsrWord
<1> HIDE DEF w
<1>4. Immediate(w) = a
  BY <1>1, <1>3, Formats DEF Immediate
<1>5. Reads(w)
  BY <1>1, <1>2, Formats DEF Reads, AtWord, w
<1>6. wdata(I(w)) = WrittenTo(f3, a, rs)
  <2>1. I(w).raw = w /\ I(w).imm = a
    BY <1>4 DEF I
  <2> QED BY <1>1, <2>1 DEF wdata, Operand, rs1_val, WrittenTo
<1>7. w.f3 \notin {0, 4}
  BY <1>1
<1> QED BY <1>1, <1>4, <1>5, <1>6, <1>7, CsrAt

\* Its number (csr.h).
CSR_MCAUSE == 834

\* The numbers of the registers that the programs use.
LEMMA CsrNumbers ==
  /\ CSR_FFLAGS = 1 /\ CSR_FRM = 2 /\ CSR_FCSR = 3
  /\ {CSR_FFLAGS, CSR_FRM, CSR_FCSR, CSR_MIP, CSR_MEPC, CSR_MCAUSE} \subseteq Csrs
  /\ {CSR_FRM, CSR_MIP, CSR_MEPC, CSR_MCAUSE} \subseteq HeldCsrs
  /\ CSR_MIP \in 800 .. 840 /\ CSR_MEPC \in 800 .. 840 /\ CSR_MCAUSE \in 800 .. 840
  /\ CSR_MIP # CSR_MEPC /\ CSR_MIP # CSR_MCAUSE /\ CSR_MEPC # CSR_MCAUSE
  /\ {CSR_MIP, CSR_MEPC, CSR_MCAUSE} \cap {1, 2, 3, CSR_SIP, CSR_SEPC, CSR_MCYCLE} = {}
BY SMT DEF CSR_FFLAGS, CSR_FRM, CSR_FCSR, CSR_MIP, CSR_MEPC, CSR_MCAUSE, CSR_SIP, CSR_SEPC, CSR_MCYCLE,
           Csrs, HeldCsrs, PlainCsrs

\* The flags of a number, as a number.
LEMMA NumberOfBits ==
  ASSUME NEW n \in Nat
  PROVE  Number(Bits(n)) = n % 32
<1>1. /\ Pow2[FlagBit[FP_NX]] = 1 /\ Pow2[FlagBit[FP_UF]] = 2 /\ Pow2[FlagBit[FP_OF]] = 4
      /\ Pow2[FlagBit[FP_DZ]] = 8 /\ Pow2[FlagBit[FP_NV]] = 16
  BY SmallPowers DEF FlagBit, FP_NX, FP_UF, FP_OF, FP_DZ, FP_NV
<1>2. {FP_NX, FP_UF, FP_OF, FP_DZ, FP_NV} = Flags
  BY DEF Flags
<1>3. /\ FP_NX \in Bits(n) <=> (n \div 1) % 2 = 1
      /\ FP_UF \in Bits(n) <=> (n \div 2) % 2 = 1
      /\ FP_OF \in Bits(n) <=> (n \div 4) % 2 = 1
      /\ FP_DZ \in Bits(n) <=> (n \div 8) % 2 = 1
      /\ FP_NV \in Bits(n) <=> (n \div 16) % 2 = 1
  BY <1>1, <1>2 DEF Bits
<1> DEFINE b(f, k) == IF f \in Bits(n) THEN k ELSE 0
<1>4. Number(Bits(n)) = b(FP_NX, 1) + b(FP_UF, 2) + b(FP_OF, 4) + b(FP_DZ, 8) + b(FP_NV, 16)
  BY <1>1 DEF Number
<1>5. /\ b(FP_NX, 1) = 1 * ((n \div 1) % 2) /\ b(FP_UF, 2) = 2 * ((n \div 2) % 2)
      /\ b(FP_OF, 4) = 4 * ((n \div 4) % 2) /\ b(FP_DZ, 8) = 8 * ((n \div 8) % 2)
      /\ b(FP_NV, 16) = 16 * ((n \div 16) % 2)
  BY <1>3
<1> HIDE DEF b
<1>6. n % 32 = (n % 2) + 2 * ((n \div 2) % 2) + 4 * ((n \div 4) % 2) + 8 * ((n \div 8) % 2)
               + 16 * ((n \div 16) % 2)
  <2>1. n \in Int
    OBVIOUS
  <2> QED BY ONLY <2>1
<1>7. n \div 1 = n
  OBVIOUS
<1>8. \A x \in Int : x % 2 \in Int
  OBVIOUS
<1>9. /\ (n \div 1) % 2 \in Int /\ (n \div 2) % 2 \in Int /\ (n \div 4) % 2 \in Int
      /\ (n \div 8) % 2 \in Int /\ (n \div 16) % 2 \in Int
  BY <1>8
<1> DEFINE x0 == (n \div 1) % 2
           x1 == (n \div 2) % 2
           x2 == (n \div 4) % 2
           x3 == (n \div 8) % 2
           x4 == (n \div 16) % 2
<1>10. /\ Number(Bits(n)) = 1 * x0 + 2 * x1 + 4 * x2 + 8 * x3 + 16 * x4
       /\ n % 32 = x0 + 2 * x1 + 4 * x2 + 8 * x3 + 16 * x4
       /\ x0 \in Int
  BY <1>4, <1>5, <1>6, <1>7, <1>9
<1> HIDE DEF x0, x1, x2, x3, x4
<1> QED BY <1>10

\* Polling leaves every register but mip as it is.
LEMMA PolledAt ==
  ASSUME CInv, NEW a \in HeldCsrs, a # CSR_MIP
  PROVE  Polled[a] = csr[a]
BY DEF Polled, CInv, CTypeOK

\* What a register shows.
Shown(a) ==
    IF a = CSR_FFLAGS THEN Number(fflags)
    ELSE IF a = CSR_FCSR THEN 32 * csr[CSR_FRM] + Number(fflags)
    ELSE csr[a]

\* A register is read: its view of fcsr is the one asked for, and nothing changes but rd.
LEMMA CsrReadRuns ==
  ASSUME CInv, Step, \A x \in Words : BitOr(x, 0) = x,
         NEW rd \in 1 .. 31, NEW a \in {CSR_FFLAGS, CSR_FRM, CSR_FCSR},
         AtWord(CsrWord(2, rd, a, 0))
  PROVE  /\ Advances
         /\ regs' = [regs EXCEPT ![rd] = Shown(a)]
         /\ csr'[CSR_FRM] = csr[CSR_FRM] /\ csr'[CSR_MCAUSE] = csr[CSR_MCAUSE]
         /\ Number(fflags') = Number(fflags)
         /\ UNCHANGED <<fregs, mem, mtimecmp, out>>
<1> DEFINE v == csr_read(a)
<1>1. /\ a \in Csrs /\ a \in Int /\ 0 <= a /\ a < 2048 /\ rd \in Registers /\ 0 \in Registers /\ rd # 0
      /\ regs[0] = 0 /\ mcycle \in Nat /\ CsrOK
  <2>1. CsrOK /\ regs[0] = 0 /\ mcycle \in Nat
    BY CInvParts DEF CInv, CTypeOK
  <2> QED BY <2>1, CsrNumbers, RegisterNumbers DEF Registers
<1>2. v \in Words
  BY <1>1, CsrReadType
<1>3. WrittenTo(2, a, 0) = v
  BY <1>1, <1>2 DEF WrittenTo
<1>4. /\ Advances /\ csr' = HeldWritten(a, v) /\ fflags' = FlagsWritten(a, v)
      /\ regs' = [regs EXCEPT ![rd] = v]
      /\ UNCHANGED <<fregs, mem, mtimecmp, out>>
  <2>1. 2 \in {1, 2, 3, 5}
    OBVIOUS
  <2> QED BY <1>1, <1>3, <2>1, CsrRuns DEF reg_write
<1>5. Polled[CSR_FRM] = csr[CSR_FRM] /\ csr[CSR_FRM] \in 0 .. 7 /\ CSR_FRM # CSR_MIP
      /\ CSR_FRM \in HeldCsrs
  BY CsrNumbers, PolledAt DEF CInv
<1>6. Number(fflags) \in 0 .. 31
  BY FlagNumber
<1>7. v = IF a = CSR_FFLAGS THEN Number(fflags)
          ELSE IF a = CSR_FRM THEN csr[CSR_FRM]
          ELSE 32 * csr[CSR_FRM] + Number(fflags)
  BY <1>5, CsrNumbers DEF csr_read, CSR_MCYCLE
<1>10. v = Shown(a)
  BY <1>7, CsrNumbers DEF Shown
<1> HIDE DEF v
<1>8. Number(fflags') = Number(fflags)
  <2>1. CASE a = CSR_FRM
    BY <1>4, <2>1, CsrNumbers DEF FlagsWritten
  <2>2. CASE a # CSR_FRM
    <3>1. fflags' = Bits(v)
      BY <1>4, <2>2 DEF FlagsWritten
    <3>2. v % 32 = Number(fflags) /\ v \in Nat
      BY <1>5, <1>6, <1>7, <2>2, CsrNumbers
    <3> QED BY <3>1, <3>2, NumberOfBits
  <2> QED BY <2>1, <2>2
<1>9. ASSUME NEW b \in HeldCsrs, b # CSR_MIP PROVE csr'[b] = csr[b]
  <2>1. Polled \in [HeldCsrs -> Words] /\ Polled[b] = csr[b]
    BY <1>1, <1>9, PolledType, PolledAt
  <2>2. csr' = Polled \/ csr' = [Polled EXCEPT ![CSR_FRM] = csr[CSR_FRM]]
    <3>1. CASE a = CSR_FFLAGS
      BY <1>4, <3>1 DEF HeldWritten
    <3>2. CASE a = CSR_FRM
      <4>1. v % 8 = csr[CSR_FRM]
        BY <1>5, <1>7, <3>2, CsrNumbers
      <4>2. HeldWritten(a, v) = [Polled EXCEPT ![CSR_FRM] = v % 8]
        BY <3>2, CsrNumbers DEF HeldWritten, CSR_MCYCLE
      <4> QED BY <1>4, <4>1, <4>2
    <3>3. CASE a = CSR_FCSR
      <4>1. (v \div 32) % 8 = csr[CSR_FRM]
        BY <1>5, <1>6, <1>7, <3>3, CsrNumbers
      <4>2. HeldWritten(a, v) = [Polled EXCEPT ![CSR_FRM] = (v \div 32) % 8]
        BY <3>3, CsrNumbers DEF HeldWritten, CSR_MCYCLE
      <4> QED BY <1>4, <4>1, <4>2
    <3> QED BY <3>1, <3>2, <3>3
  <2> QED BY <1>5, <2>1, <2>2
<1> QED BY <1>4, <1>8, <1>9, <1>10, CsrNumbers
\* The registers that the programs use, the trap vectors and mip aside.
UsedCsrs == {CSR_FFLAGS, CSR_FRM, CSR_FCSR, CSR_MEPC, CSR_MCAUSE}

\* An instruction on one of them: what it leaves in each, and in rd.
LEMMA CsrEffect ==
  ASSUME CInv, Step, HostTyped, NEW f3 \in {1, 2, 3, 5}, NEW rd \in Registers,
         NEW rs \in Registers, NEW a \in UsedCsrs, AtWord(CsrWord(f3, rd, a, rs)),
         NEW v, v = WrittenTo(f3, a, rs)
  PROVE  /\ Advances /\ csr_read(a) = Shown(a) /\ v \in Words
         /\ regs' = IF rd = 0 THEN regs ELSE [regs EXCEPT ![rd] = Shown(a)]
         /\ csr'[CSR_FRM] = IF a = CSR_FRM THEN v % 8
                            ELSE IF a = CSR_FCSR THEN (v \div 32) % 8 ELSE csr[CSR_FRM]
         /\ Number(fflags') = IF a \in {CSR_FFLAGS, CSR_FCSR} THEN v % 32 ELSE Number(fflags)
         /\ csr'[CSR_MCAUSE] = IF a = CSR_MCAUSE THEN v ELSE csr[CSR_MCAUSE]
         /\ csr'[CSR_MEPC] = IF a = CSR_MEPC THEN v - (v % 4) ELSE csr[CSR_MEPC]
         /\ UNCHANGED <<fregs, mem, mtimecmp, out>>
<1>1. /\ a \in Csrs /\ a \in Int /\ 0 <= a /\ a < 2048
  BY SMT, CsrNumbers DEF UsedCsrs
<1>2. CsrOK /\ mcycle \in Nat /\ regs \in [Registers -> Words]
  BY CInvParts DEF CInv, CTypeOK
<1>3. csr_read(a) \in Words
  BY <1>1, <1>2, CsrReadType
<1>4. v \in Words
  <2>1. rs \in Words /\ regs[rs] \in Words
    BY <1>2, SmallWords DEF Registers
  <2>2. Inverted(regs[rs]) \in Words
    BY <2>1, WordSizes DEF Inverted
  <2> QED BY <1>3, <2>1, <2>2 DEF WrittenTo, HostTyped
<1>5. /\ Advances /\ csr' = HeldWritten(a, v) /\ fflags' = FlagsWritten(a, v)
      /\ regs' = reg_write(rd, csr_read(a))
      /\ UNCHANGED <<fregs, mem, mtimecmp, out>>
  BY <1>1, CsrRuns
<1>6. \A b \in {CSR_FRM, CSR_MEPC, CSR_MCAUSE} : b \in HeldCsrs /\ Polled[b] = csr[b]
  BY CsrNumbers, PolledAt
<1>7. csr_read(a) = Shown(a)
  <2>1. a # CSR_MCYCLE
    BY SMT, <1>1 DEF CSR_MCYCLE
  <2> QED BY <1>6, <2>1 DEF csr_read, Shown, UsedCsrs
<1>8. Number(fflags') = IF a \in {CSR_FFLAGS, CSR_FCSR} THEN v % 32 ELSE Number(fflags)
  <2>1. v \in Nat
    BY <1>4, WordSizes
  <2> QED BY <1>5, <2>1, NumberOfBits DEF FlagsWritten
<1>9. /\ csr'[CSR_FRM] = IF a = CSR_FRM THEN v % 8
                         ELSE IF a = CSR_FCSR THEN (v \div 32) % 8 ELSE csr[CSR_FRM]
      /\ csr'[CSR_MCAUSE] = IF a = CSR_MCAUSE THEN v ELSE csr[CSR_MCAUSE]
      /\ csr'[CSR_MEPC] = IF a = CSR_MEPC THEN v - (v % 4) ELSE csr[CSR_MEPC]
  <2>1. Polled \in [HeldCsrs -> Words]
    BY <1>2, PolledType
  <2> DEFINE P == Polled
             F == CSR_FRM
             E == CSR_MEPC
             S == CSR_MCAUSE
  <2>2. /\ P \in [HeldCsrs -> Words] /\ F \in HeldCsrs /\ E \in HeldCsrs /\ S \in HeldCsrs
        /\ P[F] = csr[F] /\ P[E] = csr[E] /\ P[S] = csr[S]
        /\ F # E /\ F # S /\ E # S
    BY SMT, <1>6, <2>1, CsrNumbers
  <2>3. /\ csr' = IF a = CSR_FFLAGS THEN P
                  ELSE IF a = F THEN [P EXCEPT ![F] = v % 8]
                  ELSE IF a = CSR_FCSR THEN [P EXCEPT ![F] = (v \div 32) % 8]
                  ELSE IF a = E THEN [P EXCEPT ![E] = v - (v % 4)]
                  ELSE [P EXCEPT ![S] = v]
        /\ a \in {CSR_FFLAGS, F, CSR_FCSR, E, S}
        /\ F # CSR_FFLAGS /\ E # CSR_FFLAGS /\ S # CSR_FFLAGS
        /\ F # CSR_FCSR /\ E # CSR_FCSR /\ S # CSR_FCSR /\ CSR_FFLAGS # CSR_FCSR
    <3>1. a \notin {CSR_MCYCLE, CSR_SIP, CSR_MIP}
      BY SMT, CsrNumbers DEF UsedCsrs, CSR_MCYCLE, CSR_SIP
    <3>2. CSR_SEPC \notin {CSR_FFLAGS, F, CSR_FCSR, E, S}
      BY SMT, CsrNumbers DEF CSR_SEPC
    <3>3. F # CSR_FFLAGS /\ E # CSR_FFLAGS /\ S # CSR_FFLAGS
          /\ F # CSR_FCSR /\ E # CSR_FCSR /\ S # CSR_FCSR /\ CSR_FFLAGS # CSR_FCSR
      BY SMT, CsrNumbers
    <3>4. a \in {CSR_FFLAGS, F, CSR_FCSR, E, S}
      BY DEF UsedCsrs
    <3>5. csr' = HeldWritten(a, v)
      BY <1>5
    <3> HIDE DEF S
    <3> QED BY <2>2, <3>1, <3>2, <3>3, <3>4, <3>5 DEF HeldWritten
  <2> HIDE DEF P, F, E, S
  <2>4. /\ csr'[F] = IF a = F THEN v % 8 ELSE IF a = CSR_FCSR THEN (v \div 32) % 8 ELSE csr[F]
        /\ csr'[S] = IF a = S THEN v ELSE csr[S]
        /\ csr'[E] = IF a = E THEN v - (v % 4) ELSE csr[E]
    <3>1. CASE a = CSR_FFLAGS
      BY <2>2, <2>3, <3>1
    <3>2. CASE a = F
      BY <2>2, <2>3, <3>2
    <3>3. CASE a = CSR_FCSR
      BY <2>2, <2>3, <3>3
    <3>4. CASE a = E
      BY <2>2, <2>3, <3>4
    <3>5. CASE a = S
      BY <2>2, <2>3, <3>5
    <3> QED BY <2>3, <3>1, <3>2, <3>3, <3>4, <3>5
  <2> QED BY <2>4 DEF F, E, S
<1>10. regs' = IF rd = 0 THEN regs ELSE [regs EXCEPT ![rd] = Shown(a)]
  BY <1>5, <1>7 DEF reg_write
<1> QED BY <1>4, <1>5, <1>7, <1>8, <1>9, <1>10
-----------------------------------------------------------------------------
\* Accesses to the memory.

\* The bytes that funct3 asks for.
BytesOf(f3) == <<1, 2, 4>>[(f3 % 4) + 1]

\* Register rs and an immediate name n bytes of the memory at a, where they may lie.
Names(rs, imm, a, n) ==
    /\ imm \in Int /\ -2048 <= imm /\ imm < 2048
    /\ a \in Words /\ Wrap(regs[rs] + imm) = a /\ a % n = 0 /\ a + n <= MemSize

\* What an access of format I or S with such a name asks for.
LEMMA AccessAt ==
  ASSUME CInv, NEW w \in Fields, w.op \in {OP_LOAD, OP_STORE, OP_LOAD_FP, OP_STORE_FP},
         w.f3 \in {0, 1, 2, 4, 5}, AtWord(w), NEW a, Names(w.rs1, Immediate(w), a, BytesOf(w.f3))
  PROVE  /\ Reads(w) /\ Target(I(w)) = a /\ Width(I(w)) = BytesOf(w.f3) /\ Aligned(I(w))
         /\ BytesOf(w.f3) \in {1, 2, 4} /\ I(w).raw = w
<1>1. get_fmt(w.op) # "UNKNOWN"
  BY Formats
<1>2. I(w).raw = w /\ I(w).imm = Immediate(w)
  BY DEF I
<1>3. Width(I(w)) = BytesOf(w.f3) /\ BytesOf(w.f3) \in {1, 2, 4}
  BY <1>2 DEF Width, BytesOf
<1>4. Target(I(w)) = a
  BY <1>2 DEF Target, rs1_val, Names
<1> QED BY <1>1, <1>2, <1>3, <1>4 DEF Reads, AtWord, Aligned, Names

\* The encoders give such words.
LEMMA LoadWord ==
  ASSUME NEW imm \in Int, -2048 <= imm, imm < 2048, NEW rs \in Registers, NEW r \in Registers,
         NEW f3 \in {0, 1, 2, 4, 5}, NEW o \in {OP_LOAD, OP_LOAD_FP}
  PROVE  /\ enc_i(imm, rs, f3, r, o) \in Fields /\ enc_i(imm, rs, f3, r, o).op = o
         /\ enc_i(imm, rs, f3, r, o).f3 = f3 /\ enc_i(imm, rs, f3, r, o).rs1 = rs
         /\ enc_i(imm, rs, f3, r, o).rd = r /\ Immediate(enc_i(imm, rs, f3, r, o)) = imm
<1> DEFINE w == enc_i(imm, rs, f3, r, o)
<1>1. w.op = o /\ w.f3 = f3 /\ w.rs1 = rs /\ w.rd = r
  BY DEF enc_i, enc_r
<1>2. w \in Fields
  <2>1. f3 \in Codes3 /\ o \in Codes7
    BY Opcodes DEF Codes3, Codes7
  <2> QED BY <2>1, EncodeI
<1>3. imm_i(w) = imm
  BY SMT, SignedImmediate
<1> HIDE DEF w
<1> QED BY <1>1, <1>2, <1>3, Formats DEF Immediate, w

\* See LoadWord.
LEMMA StoreWord ==
  ASSUME NEW imm \in Int, -2048 <= imm, imm < 2048, NEW rs \in Registers, NEW r \in Registers,
         NEW f3 \in {0, 1, 2, 4, 5}, NEW o \in {OP_STORE, OP_STORE_FP}
  PROVE  /\ enc_s(imm, r, rs, f3, o) \in Fields /\ enc_s(imm, r, rs, f3, o).op = o
         /\ enc_s(imm, r, rs, f3, o).f3 = f3 /\ enc_s(imm, r, rs, f3, o).rs1 = rs
         /\ enc_s(imm, r, rs, f3, o).rs2 = r /\ Immediate(enc_s(imm, r, rs, f3, o)) = imm
<1> DEFINE w == enc_s(imm, r, rs, f3, o)
<1>1. w.op = o /\ w.f3 = f3 /\ w.rs1 = rs /\ w.rs2 = r
  BY DEF enc_s, enc_r
<1>2. w \in Fields
  <2>1. f3 \in Codes3 /\ o \in Codes7
    BY Opcodes DEF Codes3, Codes7
  <2> QED BY <2>1, EncodeS
<1>3. imm_s(w) = imm
  BY SMT, SignedImmediate
<1> HIDE DEF w
<1> QED BY <1>1, <1>2, <1>3, Formats DEF Immediate, w

\* Loads.
LEMMA LoadRuns ==
  ASSUME CInv, Step, NEW f3 \in {0, 1, 2, 4, 5}, NEW rd \in 1 .. 31, NEW rs \in Registers,
         NEW imm, NEW a, Names(rs, imm, a, BytesOf(f3)), AtWord(enc_i(imm, rs, f3, rd, OP_LOAD))
  PROVE  Writes(rd, IF f3 < 4 THEN SignExtended(Value(a, BytesOf(f3)), BytesOf(f3))
                    ELSE Value(a, BytesOf(f3)))
<1> DEFINE w == enc_i(imm, rs, f3, rd, OP_LOAD)
<1>1. /\ w \in Fields /\ w.op = OP_LOAD /\ w.f3 = f3 /\ w.rs1 = rs /\ w.rd = rd
      /\ Immediate(w) = imm
  <2>1. imm \in Int /\ -2048 <= imm /\ imm < 2048 /\ rd \in Registers
    BY RegisterNumbers DEF Names
  <2>2. OP_LOAD \in {OP_LOAD, OP_LOAD_FP}
    OBVIOUS
  <2>3. f3 \in {0, 1, 2, 4, 5} /\ rs \in Registers
    OBVIOUS
  <2> QED BY ONLY <2>1, <2>2, <2>3, LoadWord, Z3
<1> HIDE DEF w
<1>2. AtWord(w)
  BY DEF w
<1>3. /\ Reads(w) /\ Target(I(w)) = a /\ Width(I(w)) = BytesOf(f3) /\ Aligned(I(w))
      /\ I(w).raw = w
  BY <1>1, <1>2, AccessAt
<1>4. Target(I(w)) + Width(I(w)) <= MemSize
  BY <1>3 DEF Names
<1>5. /\ Advances /\ regs' = reg_write(rd, LoadedInt(I(w)))
      /\ csr' = Polled
      /\ UNCHANGED <<fregs, fflags, mem, mtimecmp, out>>
  BY <1>1, <1>3, <1>4, LoadAt
<1>6. LoadedInt(I(w)) = IF f3 < 4 THEN SignExtended(Value(a, BytesOf(f3)), BytesOf(f3))
                        ELSE Value(a, BytesOf(f3))
  BY <1>1, <1>3 DEF LoadedInt
<1> QED BY <1>5, <1>6 DEF Writes, reg_write

\* The machine goes on, and only n bytes at a change.
Puts(a, n, val) ==
    /\ Advances /\ mem' = Stored(a, n, val)
    /\ csr' = Polled
    /\ UNCHANGED <<regs, fregs, fflags, mtimecmp, out>>

\* Stores.
LEMMA StoreRuns ==
  ASSUME CInv, Step, NEW f3 \in 0 .. 2, NEW r \in Registers, NEW rs \in Registers,
         NEW imm, NEW a, Names(rs, imm, a, BytesOf(f3)), AtWord(enc_s(imm, r, rs, f3, OP_STORE))
  PROVE  Puts(a, BytesOf(f3), regs[r])
<1> DEFINE w == enc_s(imm, r, rs, f3, OP_STORE)
<1>1. /\ w \in Fields /\ w.op = OP_STORE /\ w.f3 = f3 /\ w.rs1 = rs /\ w.rs2 = r
      /\ Immediate(w) = imm /\ f3 \in {0, 1, 2, 4, 5}
  BY StoreWord DEF Names
<1> HIDE DEF w
<1>2. AtWord(w)
  BY DEF w
<1>3. /\ Reads(w) /\ Target(I(w)) = a /\ Width(I(w)) = BytesOf(f3) /\ Aligned(I(w))
      /\ I(w).raw = w
  BY <1>1, <1>2, AccessAt
<1>4. Target(I(w)) + Width(I(w)) <= MemSize
  BY <1>3 DEF Names
<1>5. rs2_val(I(w)) = regs[r]
  BY <1>1, <1>3 DEF rs2_val
<1> QED BY <1>1, <1>3, <1>4, <1>5, StoreAt DEF Puts

\* Floating-point loads and stores.
LEMMA FpLoadRuns ==
  ASSUME CInv, Step, NEW rd \in Registers, NEW rs \in Registers,
         NEW imm, NEW a, Names(rs, imm, a, 4), AtWord(enc_i(imm, rs, 2, rd, OP_LOAD_FP))
  PROVE  /\ Advances /\ fregs' = [fregs EXCEPT ![rd] = Value(a, 4)]
         /\ csr' = Polled
         /\ UNCHANGED <<regs, fflags, mem, mtimecmp, out>>
<1> DEFINE w == enc_i(imm, rs, 2, rd, OP_LOAD_FP)
<1>a. /\ imm \in Int /\ -2048 <= imm /\ imm < 2048
      /\ 2 \in {0, 1, 2, 4, 5} /\ OP_LOAD_FP \in {OP_LOAD, OP_LOAD_FP}
  BY DEF Names
<1>b. BytesOf(2) = 4
  BY DEF BytesOf
<1>1. /\ w \in Fields /\ w.op = OP_LOAD_FP /\ w.f3 = 2 /\ w.rs1 = rs /\ w.rd = rd
      /\ Immediate(w) = imm
  BY <1>a, LoadWord
<1> HIDE DEF w
<1>2. AtWord(w)
  BY DEF w
<1>3. Reads(w) /\ Target(I(w)) = a /\ Aligned(I(w)) /\ I(w).raw = w
  BY <1>1, <1>2, <1>b, AccessAt
<1>4. Target(I(w)) + 4 <= MemSize
  BY <1>3 DEF Names
<1> QED BY <1>1, <1>3, <1>4, FpLoadAt

\* See FpLoadRuns.
LEMMA FpStoreRuns ==
  ASSUME CInv, Step, NEW r \in Registers, NEW rs \in Registers,
         NEW imm, NEW a, Names(rs, imm, a, 4), AtWord(enc_s(imm, r, rs, 2, OP_STORE_FP))
  PROVE  Puts(a, 4, fregs[r])
<1> DEFINE w == enc_s(imm, r, rs, 2, OP_STORE_FP)
<1>a. /\ imm \in Int /\ -2048 <= imm /\ imm < 2048
      /\ 2 \in {0, 1, 2, 4, 5} /\ OP_STORE_FP \in {OP_STORE, OP_STORE_FP}
  BY DEF Names
<1>b. BytesOf(2) = 4
  BY DEF BytesOf
<1>1. /\ w \in Fields /\ w.op = OP_STORE_FP /\ w.f3 = 2 /\ w.rs1 = rs /\ w.rs2 = r
      /\ Immediate(w) = imm
  BY <1>a, StoreWord
<1> HIDE DEF w
<1>2. AtWord(w)
  BY DEF w
<1>3. Reads(w) /\ Target(I(w)) = a /\ Aligned(I(w)) /\ I(w).raw = w
  BY <1>1, <1>2, <1>b, AccessAt
<1>4. Target(I(w)) + 4 <= MemSize
  BY <1>3 DEF Names
<1> QED BY <1>1, <1>3, <1>4, FpStoreAt DEF Puts

\* A store changes the bytes it names, and no other.
LEMMA StoredBytes ==
  ASSUME NEW a \in Int, NEW n \in Int, NEW val, mem' = Stored(a, n, val)
  PROVE  /\ \A j \in 0 .. n - 1 :
              Byte(a + j)' = (val \div Pow2[(XLEN \div 4) * j]) % ByteSize
         /\ \A x : x \notin a .. a + n - 1 => Byte(x)' = Byte(x)
<1>1. ASSUME NEW j \in 0 .. n - 1
      PROVE  Byte(a + j)' = (val \div Pow2[(XLEN \div 4) * j]) % ByteSize
  <2>1. a + j \in a .. a + n - 1 /\ (a + j) - a = j
    OBVIOUS
  <2> QED BY <2>1 DEF Byte, Stored
<1>2. ASSUME NEW x, x \notin a .. a + n - 1 PROVE Byte(x)' = Byte(x)
  BY <1>2 DEF Byte, Stored
<1> QED BY <1>1, <1>2

-----------------------------------------------------------------------------
\* One sequence after another.
IsJoin(c, p, n, q, m) ==
    /\ Len(c) = n + m
    /\ \A i \in 1 .. n : c[i] = p[i]
    /\ \A i \in 1 .. m : c[n + i] = q[i]

\* Joining two sequences does that.
LEMMA Appended ==
  ASSUME NEW S, NEW T, NEW p \in Seq(S), NEW q \in Seq(T), NEW n, NEW m, Len(p) = n, Len(q) = m
  PROVE  IsJoin(p \o q, p, n, q, m)
BY DEF IsJoin

\* The result is a sequence of elements of both.
LEMMA JoinType ==
  ASSUME NEW S, NEW T, NEW p \in Seq(S), NEW q \in Seq(T)
  PROVE  p \o q \in Seq(S \cup T)
<1>1. p \in Seq(S \cup T) /\ q \in Seq(S \cup T)
  BY SeqMonotonic
<1> QED BY <1>1, ConcatProperties

-----------------------------------------------------------------------------
\* Branches.

\* Item k0 is the only label of its name.
Labels(items, name, k0) ==
    /\ k0 \in 1 .. Len(items) /\ items[k0] = Label(name)
    /\ \A k \in 1 .. Len(items) : items[k].kind = "label" /\ items[k].name = name => k = k0

\* The first pass finds it.
LEMMA LabelFound ==
  ASSUME NEW items, NEW base, NEW name, NEW k0, Labels(items, name, k0)
  PROVE  Addresses(items, base)[name] = AddressOf(items, base, k0)
<1> DEFINE labels == {k \in 1 .. Len(items) : items[k].kind = "label"}
           chosen == CHOOSE k \in labels : items[k].name = name
<1>1. k0 \in labels /\ items[k0].name = name
  BY DEF Labels, Label
<1>2. chosen \in labels /\ items[chosen].name = name
  BY <1>1
<1>3. chosen = k0
  BY <1>2 DEF Labels
<1>4. name \in {items[k].name : k \in labels}
  BY <1>1
<1>5. Addresses(items, base)[name] = Placed(items, base)[chosen]
  BY <1>4 DEF Addresses
<1> QED BY <1>3, <1>5 DEF AddressOf

\* A branch to it is where it is placed, with the distance as its immediate,
LEMMA NextBranch ==
  ASSUME NEW items, NEW base \in Int, NEW k \in Int, NEW n \in Int, NEW f3, NEW rs1, NEW rs2,
         NEW name, NEW k0, NEW m \in Int, ItemAt(items, base, k, n), k <= Len(items),
         items[k] = branch(f3, rs1, rs2, name), Labels(items, name, k0), ItemAt(items, base, k0, m)
  PROVE  /\ Holds(assemble(items, base), base + n, enc_b(m - n, rs2, rs1, f3, OP_BRANCH))
         /\ ItemAt(items, base, k + 1, n + 4)
<1> DEFINE p == AddressOf(items, base, k)
           c == assemble(items, base)
           w == enc_b(m - n, rs2, rs1, f3, OP_BRANCH)
<1>1. /\ items[k].kind = "branch" /\ items[k].to = name
      /\ items[k].rs2 = rs2 /\ items[k].rs1 = rs1 /\ items[k].f3 = f3
  BY DEF branch
<1>2. /\ Len(items) \in Nat /\ k \in 1 .. Len(items) /\ k + 1 \in 1 .. Len(items) + 1
      /\ base \in Int /\ p = base + n /\ n \in Int
  BY DEF ItemAt
<1>3. AddressOf(items, base, k0) = base + m
  BY DEF ItemAt
<1>4. Addresses(items, base)[name] - p = m - n
  BY <1>2, <1>3, LabelFound
<1>5. HalfCount(items[k]) = 2 /\ SizeOf(items[k]) = 4
  BY <1>1 DEF HalfCount, SizeOf
<1>6. HasHalves(c, p, Halves(w), 2)
  <2>1. CodeOf(items, base, k) = Halves(w)
    BY <1>1, <1>4 DEF CodeOf, Encoded
  <2>2. HasHalves(c, p, CodeOf(items, base, k), HalfCount(items[k]))
    BY <1>2, AssembleIs
  <2> QED BY <1>5, <2>1, <2>2
<1>7. AddressOf(items, base, k + 1) = p + 4
  BY <1>2, <1>5, PlacedIs
<1> HIDE DEF p, c, w
<1>8. p + 2 * (1 - 1) = p /\ p + 2 * (2 - 1) = p + 2
  BY <1>2
<1>9. 1 \in 1 .. 2 /\ 2 \in 1 .. 2
  OBVIOUS
<1>10. Holds(c, p, w)
  BY <1>6, <1>8, <1>9 DEF Holds, HasHalves
<1> QED BY <1>2, <1>7, <1>10 DEF ItemAt, p, c, w

\* what follows it is placed wherever the label is,
LEMMA PastBranch ==
  ASSUME NEW items, NEW base \in Int, NEW k \in Int, NEW n \in Int, NEW f3, NEW rs1, NEW rs2,
         NEW name, ItemAt(items, base, k, n), k <= Len(items), items[k] = branch(f3, rs1, rs2, name)
  PROVE  ItemAt(items, base, k + 1, n + 4)
<1>1. SizeOf(items[k]) = 4
  BY DEF branch, SizeOf
<1>2. /\ Len(items) \in Nat /\ k \in 1 .. Len(items) /\ k + 1 \in 1 .. Len(items) + 1
      /\ base \in Int /\ AddressOf(items, base, k) = base + n /\ n \in Int
      /\ k \in 1 .. Len(items) + 1
  BY DEF ItemAt
<1>3. AddressOf(items, base, k + 1) = AddressOf(items, base, k) + SizeOf(items[k])
  BY ONLY <1>2, PlacedIs
<1>4. AddressOf(items, base, k + 1) = base + (n + 4)
  BY ONLY <1>1, <1>2, <1>3
<1> QED BY ONLY <1>2, <1>4 DEF ItemAt

\* and goes there if its condition holds.
LEMMA BranchRuns ==
  ASSUME CInv, Step, NEW f3 \in BranchKinds, NEW rs1 \in Registers, NEW rs2 \in Registers,
         NEW imm \in Int, -4096 <= imm, imm < 4096, imm % 2 = 0, pc + imm \in Words,
         AtWord(enc_b(imm, rs2, rs1, f3, OP_BRANCH))
  PROVE  /\ mtime' = mtime + 1 /\ boot' = boot /\ state' = "RUNNING"
         /\ pc' = IF taken(f3, regs[rs1], regs[rs2]) THEN pc + imm ELSE pc + 4
         /\ csr' = Polled
         /\ UNCHANGED <<regs, fregs, fflags, mem, mtimecmp, out>>
<1> DEFINE w == enc_b(imm, rs2, rs1, f3, OP_BRANCH)
<1>1. w.op = OP_BRANCH /\ w.f3 = f3 /\ w.rs1 = rs1 /\ w.rs2 = rs2
  BY DEF enc_b, enc_r
<1>2. w \in Fields
  <2>1. f3 \in Codes3 /\ OP_BRANCH \in Codes7
    BY NamedCodes DEF Codes3, BranchKinds
  <2> QED BY <2>1, EncodeB
<1>3. imm_b(w) = imm
  BY ImmediatesRoundTrip
<1> HIDE DEF w
<1>4. Immediate(w) = imm
  BY <1>1, <1>3, Formats DEF Immediate
<1>5. Reads(w)
  BY <1>1, <1>2, Formats DEF Reads, AtWord, w
<1>6. Wrap(pc + imm) = pc + imm
  BY WrapWord
<1> QED BY <1>1, <1>4, <1>5, <1>6, BranchAt

-----------------------------------------------------------------------------
\* The timer.

\* A word at the address in rs.
LEMMA DeviceAt ==
  ASSUME CInv, NEW w \in Fields, w.op \in {OP_LOAD, OP_STORE}, w.f3 = 2, AtWord(w),
         Immediate(w) = 0, NEW a \in Words, a % 4 = 0, regs[w.rs1] = a
  PROVE  /\ Reads(w) /\ Target(I(w)) = a /\ Width(I(w)) = 4 /\ Aligned(I(w)) /\ I(w).raw = w
<1>1. I(w).raw = w /\ I(w).imm = 0
  BY DEF I
<1>2. Wrap(a + 0) = a
  <2>1. a + 0 = a
    BY DEF Words
  <2> QED BY <2>1, WrapWord
<1>3. Target(I(w)) = a
  BY <1>1, <1>2 DEF Target, rs1_val
<1>4. Width(I(w)) = 4
  BY <1>1 DEF Width
<1>5. Aligned(I(w))
  BY <1>3, <1>4 DEF Aligned
<1>6. get_fmt(w.op) # "UNKNOWN"
  BY Formats
<1>7. Reads(w)
  BY <1>6 DEF Reads, AtWord
<1> QED BY <1>1, <1>3, <1>4, <1>5, <1>7

\* A word above the memory is not in it.
LEMMA Outside ==
  /\ CLINT_MTIME_LO \in Words /\ CLINT_MTIMECMP_LO \in Words /\ CSR_MMIO_UART \in Words
  /\ ~InMemory(CLINT_MTIME_LO, 4) /\ ~InMemory(CLINT_MTIMECMP_LO, 4) /\ ~InMemory(CSR_MMIO_UART, 1)
<1>1. MemSize \in Nat /\ MemSize < Size /\ Size \in Nat
  BY MemoryAssumption, WordSizes
<1>2. {CSR_MMIO_UART, CLINT_MTIME_LO, CLINT_MTIMECMP_LO} \subseteq MemSize .. Size - 1
  BY MemoryAssumption
<1> QED BY <1>1, <1>2 DEF InMemory, Words

\* lw of the time,
LEMMA ClockRuns ==
  ASSUME CInv, Step, NEW rd \in 1 .. 31, NEW rs \in Registers, regs[rs] = CLINT_MTIME_LO,
         CLINT_MTIME_LO % 4 = 0, AtWord(enc_i(0, rs, 2, rd, OP_LOAD))
  PROVE  Writes(rd, Wrap(mtime + 1))
<1> DEFINE w == enc_i(0, rs, 2, rd, OP_LOAD)
<1>1. w \in Fields /\ w.op = OP_LOAD /\ w.f3 = 2 /\ w.rs1 = rs /\ w.rd = rd /\ Immediate(w) = 0
  <2>1. /\ 0 \in Int /\ -2048 <= 0 /\ 0 < 2048 /\ rd \in Registers
        /\ 2 \in {0, 1, 2, 4, 5} /\ OP_LOAD \in {OP_LOAD, OP_LOAD_FP}
    BY RegisterNumbers
  <2> QED BY <2>1, LoadWord
<1> HIDE DEF w
<1>2. AtWord(w)
  BY DEF w
<1> DEFINE i == I(w)
<1>3. Reads(w) /\ Target(i) = CLINT_MTIME_LO /\ Width(i) = 4 /\ Aligned(i) /\ i.raw = w
  BY <1>1, <1>2, DeviceAt, Outside
<1>4. ReadsMtime(i)
  BY <1>1, <1>3 DEF ReadsMtime
<1> HIDE DEF i
<1>5. ~Faulty(i)
  BY <1>1, <1>3, <1>4, Opcodes DEF Faulty, AccessRefused, SystemRefused
<1>6. Load(i)
  BY <1>1, <1>3, <1>5, StepAt, OpcodeDecides DEF i
<1>7. Following(i) = pc + 4
  BY <1>3, Fetched DEF i
<1>8. regs' = reg_write(rd, Wrap(mtime + 1)) /\ rd # 0
  BY <1>1, <1>3, <1>4, <1>6 DEF Load
<1> QED BY <1>3, <1>6, <1>7, <1>8, StepAt DEF Load, Retire, Advances, Writes, reg_write

\* sw of the deadline,
LEMMA AlarmRuns ==
  ASSUME CInv, Step, NEW r \in Registers, NEW rs \in Registers, regs[rs] = CLINT_MTIMECMP_LO,
         CLINT_MTIMECMP_LO % 4 = 0, AtWord(enc_s(0, r, rs, 2, OP_STORE))
  PROVE  /\ Advances /\ mtimecmp' = Deadline(regs[r])
         /\ csr' = Polled
         /\ UNCHANGED <<regs, fregs, fflags, mem, out>>
<1> DEFINE w == enc_s(0, r, rs, 2, OP_STORE)
<1>1. w \in Fields /\ w.op = OP_STORE /\ w.f3 = 2 /\ w.rs1 = rs /\ w.rs2 = r /\ Immediate(w) = 0
  <2>1. /\ 0 \in Int /\ -2048 <= 0 /\ 0 < 2048
        /\ 2 \in {0, 1, 2, 4, 5} /\ OP_STORE \in {OP_STORE, OP_STORE_FP}
    OBVIOUS
  <2> QED BY <2>1, StoreWord
<1> HIDE DEF w
<1>2. AtWord(w)
  BY DEF w
<1> DEFINE i == I(w)
<1>3. Reads(w) /\ Target(i) = CLINT_MTIMECMP_LO /\ Width(i) = 4 /\ Aligned(i) /\ i.raw = w
  BY <1>1, <1>2, DeviceAt, Outside
<1>4. ArmsTimer(i) /\ ~Prints(i) /\ ~InMemory(Target(i), Width(i))
  BY <1>1, <1>3, Outside DEF ArmsTimer, Prints
<1> HIDE DEF i
<1>5. ~Faulty(i)
  BY <1>1, <1>3, <1>4, Opcodes DEF Faulty, AccessRefused, SystemRefused
<1>6. Store(i)
  BY <1>1, <1>3, <1>5, StepAt, OpcodeDecides DEF i
<1>7. Following(i) = pc + 4
  BY <1>3, Fetched DEF i
<1>8. mtimecmp' = Deadline(regs[r]) /\ UNCHANGED <<mem, out>>
  BY <1>1, <1>3, <1>4, <1>6 DEF Store, rs2_val
<1> QED BY <1>3, <1>6, <1>7, <1>8, StepAt DEF Store, Retire, Advances

\* and a look at mip.
LEMMA MipRuns ==
  ASSUME CInv, Step, NEW rd \in 1 .. 31, AtWord(CsrWord(2, rd, CSR_MIP, 0))
  PROVE  /\ Advances
         /\ regs' = [regs EXCEPT ![rd] = IF mtimecmp # 0 /\ mtime + 1 >= mtimecmp
                                         THEN MIP_MTIP ELSE 0]
         /\ UNCHANGED <<fregs, mem, mtimecmp, out>>
<1>1. CSR_MIP \in HeldCsrs /\ CSR_MIP \in Csrs /\ CSR_MIP = 836
  BY CsrNumbers DEF CSR_MIP
<1>2. csr_read(CSR_MIP) = Polled[CSR_MIP]
  BY <1>1 DEF csr_read, CSR_FFLAGS, CSR_FCSR, CSR_MCYCLE, CSR_MIP
<1>3. Polled[CSR_MIP] = IF mtimecmp # 0 /\ mtime + 1 >= mtimecmp THEN MIP_MTIP ELSE 0
  <2>1. csr \in [HeldCsrs -> Words]
    BY DEF CInv, CTypeOK
  <2> QED BY <1>1, <2>1 DEF Polled
<1>4. rd \in Registers /\ rd # 0 /\ 0 \in Registers
  BY RegisterNumbers, NamedCodes
<1>5. Advances /\ regs' = reg_write(rd, csr_read(CSR_MIP)) /\ UNCHANGED <<fregs, mem, mtimecmp, out>>
  BY <1>1, <1>4, CsrRuns
<1> QED BY <1>2, <1>3, <1>4, <1>5 DEF reg_write

-----------------------------------------------------------------------------
\* The host services.

\* ecall is a word.
LEMMA EcallIsWord ==
  /\ ECALL \in Fields /\ get_fmt(ECALL.op) # "UNKNOWN"
  /\ ECALL = enc_i(0, 0, 0, 0, OP_SYSTEM)
<1>1. enc_i(0, 0, 0, 0, OP_SYSTEM) \in Fields
  BY NamedCodes, EncodeI
<1> QED BY <1>1, Formats DEF ECALL, Special, enc_i, enc_r

\* A step at an ecall calls the host.
LEMMA EcallAt ==
  ASSUME CInv, Step, AtWord(ECALL)
  PROVE  /\ mtime' = mtime + 1 /\ boot' = boot /\ state = "RUNNING" /\ pc' = pc + 4
         /\ I(ECALL).raw = ECALL
         /\ Exit(I(ECALL)) \/ Write(I(ECALL)) \/ UnknownService(I(ECALL))
         /\ csr' = Polled
         /\ UNCHANGED <<fregs, fflags, mem, mtimecmp>>
<1> DEFINE i == I(ECALL)
<1>1. i.raw = ECALL
  BY DEF I
<1>2. Reads(ECALL)
  BY EcallIsWord DEF AtWord, Reads
<1>3. Following(i) = pc + 4
  BY <1>2, Fetched
<1> HIDE DEF i
<1>4. ECALL.op = OP_SYSTEM /\ ECALL.f3 = 0 /\ ECALL # EBREAK /\ ~IsSfence(ECALL)
  BY DEF ECALL, EBREAK, Special, enc_i, enc_r, IsSfence
<1>5. ~Faulty(i)
  BY <1>1, <1>4, Opcodes DEF Faulty, AccessRefused, SystemRefused
<1>6. Execute(i) /\ mtime' = mtime + 1 /\ boot' = boot /\ state = "RUNNING"
  BY <1>2, <1>5, StepAt DEF i
<1>7. System(i)
  BY <1>1, <1>4, <1>6, OpcodeDecides DEF CsrInstr
<1>8. ~Ebreak(i) /\ ~Sfence(i)
  BY <1>1, <1>4 DEF Ebreak, Sfence
<1> QED BY <1>1, <1>3, <1>6, <1>7, <1>8 DEF System, i

\* write
LEMMA WriteRuns ==
  ASSUME CInv, Step, AtWord(ECALL), regs[17] = 64
  PROVE  /\ Advances
         /\ out' = out \o [k \in 1 .. Writable(regs[11], regs[12]) |-> Byte(regs[11] + k - 1)]
         /\ regs' = [regs EXCEPT ![10] = Writable(regs[11], regs[12])]
         /\ UNCHANGED <<fregs, fflags, mem, mtimecmp>>
<1>1. Write(I(ECALL))
  BY EcallAt DEF Exit, UnknownService
<1> QED BY <1>1, EcallAt DEF Write, Advances, reg_write

\* exit
LEMMA ExitRuns ==
  ASSUME CInv, Step, AtWord(ECALL), regs[17] \in {0, 93}
  PROVE  /\ mtime' = mtime + 1 /\ boot' = boot /\ state' = "HALTED"
         /\ UNCHANGED <<regs, fregs, fflags, mem, mtimecmp, out>>
<1>1. Exit(I(ECALL))
  BY EcallAt DEF Write, UnknownService
<1> QED BY <1>1, EcallAt DEF Exit
=============================================================================
