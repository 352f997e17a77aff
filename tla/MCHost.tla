------------------------------- MODULE MCHost -------------------------------
(***************************************************************************)
(* The host: C's bit operations on words of 16 bits, and the floating-point   *)
(* unit, IEEE 754 without subnormal results, on numbers of 16 bits (6 bits of  *)
(* exponent, 9 of fraction).                                                *)
(***************************************************************************)
EXTENDS Fpu, Bitwise

MCPow2 == [k \in 0 .. 16 |-> 2 ^ k]
MCAnd(a, b) == a & b
MCOr(a, b)  == a | b
MCXor(a, b) == a ^^ b

-----------------------------------------------------------------------------
\* The host's floating-point unit: IEEE 754 without subnormal results.

Infinity(s) == s * Half + ExpMax * FracCount
Zero(s)     == s * Half
TopBit(n)   == CHOOSE k \in 0 .. 30 : 2 ^ k <= n /\ n \div 2 < 2 ^ k
IsInf(b)    == exp(b) = ExpMax /\ frac(b) = 0
IsZero(b)   == Order(b) = 0

Overflowed(mode, s) ==
    Result(IF mode \in {"TONEAREST", IF s = 0 THEN "UPWARD" ELSE "DOWNWARD"}
           THEN Infinity(s) ELSE Infinity(s) - 1, {FP_OF, FP_NX})

\* The number n / d * 2^e of sign s, n, d > 0; sticky: a little more than that.
Packed(mode, s, n, d, e, sticky) ==
    LET k == TopBit(n \div d)
        \* One bit more than the fraction, and one for all that follow.
        m2 == IF k <= FracBits + 1 THEN (n * 2 ^ (FracBits + 1 - k)) \div d
              ELSE n \div (d * 2 ^ (k - FracBits - 1))
        lost == \/ sticky
                \/ IF k <= FracBits + 1 THEN (n * 2 ^ (FracBits + 1 - k)) % d # 0
                   ELSE n % (d * 2 ^ (k - FracBits - 1)) # 0
        m4 == 2 * m2 + Truth(lost)
        bits == (Bias + e + k) * FracCount + Rounded(mode, s = 1, m4, 4) - FracCount IN
    IF bits >= ExpMax * FracCount THEN Overflowed(mode, s)
    ELSE Result(s * Half + bits, Raised(FP_NX, m4 % 4 # 0))

Exponent(b) == -Scale(b)

Product(mode, a, b) ==
    LET s == (sign(a) + sign(b)) % 2 IN
    IF IsInf(a) \/ IsInf(b)
    THEN IF IsZero(a) \/ IsZero(b) THEN Result(FP_CANON_NAN, {FP_NV}) ELSE Result(Infinity(s), {})
    ELSE IF IsZero(a) \/ IsZero(b) THEN Result(Zero(s), {})
    ELSE Packed(mode, s, Mantissa(a) * Mantissa(b), 1, Exponent(a) + Exponent(b), FALSE)

Quotient(mode, a, b) ==
    LET s == (sign(a) + sign(b)) % 2 IN
    IF IsInf(a) THEN IF IsInf(b) THEN Result(FP_CANON_NAN, {FP_NV}) ELSE Result(Infinity(s), {})
    ELSE IF IsInf(b) THEN Result(Zero(s), {})
    ELSE IF IsZero(b) THEN IF IsZero(a) THEN Result(FP_CANON_NAN, {FP_NV})
                           ELSE Result(Infinity(s), {FP_DZ})
    ELSE IF IsZero(a) THEN Result(Zero(s), {})
    ELSE LET n == Mantissa(a) * 2048 IN     \* n / Mantissa(b) >= 1024, with a remainder
         Packed(mode, s, n \div Mantissa(b), 1, Exponent(a) - Exponent(b) - 11,
                n % Mantissa(b) # 0)

\* Sums of numbers whose exponents differ by at most 12.
Total(mode, a, b) ==
    LET e == IF Exponent(a) < Exponent(b) THEN Exponent(a) ELSE Exponent(b)
        part(x) == (1 - 2 * sign(x)) * Mantissa(x) * 2 ^ (Exponent(x) - e)
        n == part(a) + part(b) IN
    IF IsInf(a) THEN IF IsInf(b) /\ a # b THEN Result(FP_CANON_NAN, {FP_NV}) ELSE Result(a, {})
    ELSE IF IsInf(b) THEN Result(b, {})
    ELSE IF IsZero(a) /\ IsZero(b) /\ a = b THEN Result(a, {})
    ELSE IF IsZero(a) /\ ~IsZero(b) THEN Result(b, {})
    ELSE IF IsZero(b) /\ ~IsZero(a) THEN Result(a, {})
    ELSE IF n = 0 THEN Result(Zero(Truth(mode = "DOWNWARD")), {})
    ELSE Packed(mode, Truth(n < 0), Magnitude(n), 1, e, FALSE)

Root(mode, a) ==
    LET odd == Exponent(a) % 2
        n == Mantissa(a) * 2 ^ (12 + odd)
        r == CHOOSE x \in 0 .. 4096 : x * x <= n /\ n < (x + 1) * (x + 1) IN
    IF IsZero(a) THEN Result(a, {})
    ELSE IF sign(a) = 1 THEN Result(FP_CANON_NAN, {FP_NV})
    ELSE IF IsInf(a) THEN Result(a, {})
    ELSE Packed(mode, 0, r, 1, (Exponent(a) - 12 - odd) \div 2, r * r # n)

MCHostArith(operation, mode, a, b) ==
    IF bits_is_nan(a) \/ bits_is_nan(b)
    THEN {Result(FP_CANON_NAN, Raised(FP_NV, bits_is_snan(a) \/ bits_is_snan(b)))}
    ELSE {IF operation = 0 THEN Total(mode, a, b)
          ELSE IF operation = 4 THEN Total(mode, a, (b + Half) % Size)
          ELSE IF operation = 8 THEN Product(mode, a, b)
          ELSE IF operation = 12 THEN Quotient(mode, a, b)
          ELSE Root(mode, a)}

\* (1 + f / 512) * 2^e, with sign s.
Float(s, e, f) == s * Half + Power(e) + f

=============================================================================
