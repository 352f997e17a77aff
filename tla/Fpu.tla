--------------------------------- MODULE Fpu ---------------------------------
(***************************************************************************)
(* The floating-point unit (src/fpu.c) on bit patterns of XLEN bits: one sign *)
(* bit, an exponent of ExpCount values and FracBits bits of fraction.  The     *)
(* program has 32, 256 and 23.                                              *)
(*                                                                         *)
(* A result is a record of the bits and of the exception flags it raises.     *)
(* What the host's adder, multiplier, divider and square root return is a    *)
(* parameter: HostArith(op, mode, a, b) is the set of results possible in the *)
(* rounding mode.                                                           *)
(***************************************************************************)
EXTENDS Alu

CONSTANTS ExpCount, FracBits, HostArith(_, _, _, _)

ASSUME FormatAssumption ==
    /\ FracBits \in 1 .. XLEN - 3
    /\ ExpCount \in Nat /\ ExpCount * Pow2[FracBits] = Half
    /\ ExpCount \div 2 > XLEN          \* every integer is in the range of the format
ASSUME TopBitAssumption ==
    \A n \in 1 .. Size - 1 : \E k \in 0 .. XLEN - 1 : Pow2[k] <= n /\ n < 2 * Pow2[k]

FP_NX == "NX"
FP_UF == "UF"
FP_OF == "OF"
FP_DZ == "DZ"
FP_NV == "NV"
Flags == {FP_NX, FP_UF, FP_OF, FP_DZ, FP_NV}

FracCount == Pow2[FracBits]
ExpMax    == ExpCount - 1
Bias      == (ExpCount \div 2) - 1

sign(b) == b \div Half
exp(b)  == (b % Half) \div FracCount
frac(b) == b % FracCount

FP_CANON_NAN == ExpMax * FracCount + FracCount \div 2

bits_is_nan(b)  == exp(b) = ExpMax /\ frac(b) # 0
bits_is_snan(b) == bits_is_nan(b) /\ frac(b) < FracCount \div 2

Result(bits, flags) == [bits |-> bits, flags |-> flags]
Raised(flag, cond)  == {f \in {flag} : cond}

\* The patterns of numbers, in the order of their values (-0 and +0 are equal).
Order(b)    == IF sign(b) = 0 THEN b ELSE Half - b
Less(a, b)  == Order(a) < Order(b)

\* The pattern of 2^k.
Power(k) == (Bias + k) * FracCount

-----------------------------------------------------------------------------
\* Rounding.

\* Mutant: rm 7, the dynamic mode, is not looked up in frm.
host_rounding_static(rm, frm) ==
    IF rm \in 1 .. 3 THEN <<"TOWARDZERO", "DOWNWARD", "UPWARD">>[rm] ELSE "TONEAREST"

\* Modes 4 (ties away) and the reserved ones become round to nearest even.
host_rounding(rm, frm) ==
    LET m == IF rm = 7 THEN frm ELSE rm IN
    IF m \in 1 .. 3 THEN <<"TOWARDZERO", "DOWNWARD", "UPWARD">>[m] ELSE "TONEAREST"

\* n / d as the host rounds it to an integer, for a number of that sign.
Rounded(mode, negative, n, d) ==
    LET q == n \div d
        r == n % d
        up == \/ mode = "TONEAREST" /\ (2 * r > d \/ (2 * r = d /\ q % 2 = 1))
              \/ mode = "DOWNWARD" /\ negative /\ r > 0
              \/ mode = "UPWARD" /\ ~negative /\ r > 0 IN
    IF up THEN q + 1 ELSE q

-----------------------------------------------------------------------------
\* Arithmetic.

fp_arith(rm, frm, op, a, b) ==
    {Result(IF bits_is_nan(r.bits) THEN FP_CANON_NAN ELSE r.bits, r.flags) :
        r \in HostArith(op, host_rounding(rm, frm), a, b)}

\* Mutant: C's comparison alone, to which the two zeros are equal.
fp_minmax_plain(a, b, is_max) ==
    IF bits_is_nan(a) /\ bits_is_nan(b) THEN Result(FP_CANON_NAN, {})
    ELSE IF bits_is_nan(a) THEN Result(b, Raised(FP_NV, bits_is_snan(a)))
    ELSE IF bits_is_nan(b) THEN Result(a, Raised(FP_NV, bits_is_snan(b)))
    ELSE Result(IF Less(a, b) THEN a ELSE b, {})

\* With two numbers the smaller one is returned, whatever is_max says; is_max
\* decides between zeros only.  Two NaNs raise nothing, signaling or not.
fp_minmax(a, b, is_max) ==
    IF bits_is_nan(a) /\ bits_is_nan(b) THEN Result(FP_CANON_NAN, {})
    ELSE IF bits_is_nan(a) THEN Result(b, Raised(FP_NV, bits_is_snan(a)))
    ELSE IF bits_is_nan(b) THEN Result(a, Raised(FP_NV, bits_is_snan(b)))
    ELSE IF Less(a, b) THEN Result(a, {})
    ELSE IF Less(b, a) THEN Result(b, {})
    ELSE LET negative == IF is_max THEN sign(a) = 1 /\ sign(b) = 1
                                   ELSE sign(a) = 1 \/ sign(b) = 1 IN
         Result((a % Half) + (IF negative THEN Half ELSE 0), {})

fp_compare(f3, a, b) ==
    IF bits_is_nan(a) \/ bits_is_nan(b)
    THEN Result(0, Raised(FP_NV, f3 # 2 \/ bits_is_snan(a) \/ bits_is_snan(b)))
    ELSE Result(Truth(IF f3 = 0 THEN Order(a) <= Order(b)
                      ELSE IF f3 = 1 THEN Less(a, b)
                      ELSE Order(a) = Order(b)), {})

-----------------------------------------------------------------------------
\* Conversions.

\* The magnitude of a number is Mantissa(b) / 2^Scale(b).
Mantissa(b) == frac(b) + (IF exp(b) = 0 THEN 0 ELSE FracCount)
Scale(b)    == FracBits + Bias - (IF exp(b) = 0 THEN 1 ELSE exp(b))

\* nearbyintf on a number below 2^XLEN; a divisor of four times the greatest
\* mantissa already leaves less than half.
Nearby(mode, b) ==
    IF Scale(b) <= 0 THEN Mantissa(b) * Pow2[-Scale(b)]
    ELSE Rounded(mode, sign(b) = 1, Mantissa(b),
                 Pow2[IF Scale(b) > FracBits + 2 THEN FracBits + 2 ELSE Scale(b)])

IsInteger(b) == \/ Scale(b) <= 0
                \/ Mantissa(b) = 0
                \/ Scale(b) <= FracBits /\ Mantissa(b) % Pow2[Scale(b)] = 0

\* Mutant: the upper bound is compared with > instead of >=.
fp_float_to_int_late(rm, frm, a, is_unsigned) ==
    IF bits_is_nan(a) THEN Result(IF is_unsigned THEN Size - 1 ELSE Half - 1, {FP_NV})
    ELSE IF is_unsigned /\ Order(a) <= 0 THEN Result(0, Raised(FP_NV, Order(a) < 0))
    ELSE IF is_unsigned /\ a >= Power(XLEN) THEN Result(Size - 1, {FP_NV})
    ELSE IF ~is_unsigned /\ sign(a) = 0 /\ a > Power(XLEN - 1) THEN Result(Half - 1, {FP_NV})
    ELSE IF ~is_unsigned /\ sign(a) = 1 /\ a % Half > Power(XLEN - 1) THEN Result(Half, {FP_NV})
    ELSE LET n == Nearby(host_rounding(rm, frm), a) IN
         Result(Wrap(IF sign(a) = 1 THEN -n ELSE n), Raised(FP_NX, ~IsInteger(a)))

\* Out of range is decided before rounding; a negative number is out of range
\* for an unsigned result, also when it would round to 0.
fp_float_to_int(rm, frm, a, is_unsigned) ==
    IF bits_is_nan(a) THEN Result(IF is_unsigned THEN Size - 1 ELSE Half - 1, {FP_NV})
    ELSE IF is_unsigned /\ Order(a) <= 0 THEN Result(0, Raised(FP_NV, Order(a) < 0))
    ELSE IF is_unsigned /\ a >= Power(XLEN) THEN Result(Size - 1, {FP_NV})
    ELSE IF ~is_unsigned /\ sign(a) = 0 /\ a >= Power(XLEN - 1) THEN Result(Half - 1, {FP_NV})
    ELSE IF ~is_unsigned /\ sign(a) = 1 /\ a % Half > Power(XLEN - 1) THEN Result(Half, {FP_NV})
    ELSE LET n == Nearby(host_rounding(rm, frm), a) IN
         Result(Wrap(IF sign(a) = 1 THEN -n ELSE n), Raised(FP_NX, ~IsInteger(a)))

\* The host's conversion: the leading 1 is at bit k; FracBits bits follow it, the
\* rest is rounded, and a carry out of the fraction raises the exponent.
fp_int_to_float(rm, frm, value, is_unsigned) ==
    LET negative == ~is_unsigned /\ value >= Half
        n == IF negative THEN Size - value ELSE value
        k == CHOOSE j \in 0 .. XLEN - 1 : Pow2[j] <= n /\ n < 2 * Pow2[j]
        m == IF k <= FracBits THEN n * Pow2[FracBits - k]
             ELSE Rounded(host_rounding(rm, frm), negative, n, Pow2[k - FracBits]) IN
    IF n = 0 THEN Result(0, {})
    ELSE Result((IF negative THEN Half ELSE 0) + Power(k) + m - FracCount,
                Raised(FP_NX, k > FracBits /\ n % Pow2[k - FracBits] # 0))

\* The index of the class bit.
fp_classify(b) ==
    IF exp(b) = ExpMax
    THEN IF frac(b) = 0 THEN (IF sign(b) = 1 THEN 0 ELSE 7)
         ELSE IF bits_is_snan(b) THEN 8 ELSE 9
    ELSE IF exp(b) # 0 THEN (IF sign(b) = 1 THEN 1 ELSE 6)
    ELSE IF frac(b) = 0 THEN (IF sign(b) = 1 THEN 3 ELSE 4)
    ELSE (IF sign(b) = 1 THEN 2 ELSE 5)

-----------------------------------------------------------------------------
\* fpu_execute, in two parts by where the result goes; {} if it refuses.

If(cond, r) == IF cond THEN {r} ELSE {}

Signs(f3, a, b) == IF f3 = 0 THEN sign(b)
                   ELSE IF f3 = 1 THEN 1 - sign(b)
                   ELSE (sign(a) + sign(b)) % 2

\* a, b are the f registers, x the integer register named by rs1.
ToFreg(w, frm, a, b, x) ==
    IF w.f7 \in {0, 4, 8, 12} THEN fp_arith(w.f3, frm, w.f7, a, b)
    ELSE IF w.f7 = 44 THEN {r \in fp_arith(w.f3, frm, w.f7, a, 0) : w.rs2 = 0}
    ELSE IF w.f7 = 16 THEN If(w.f3 <= 2, Result((a % Half) + Half * Signs(w.f3, a, b), {}))
    ELSE IF w.f7 = 20 THEN If(w.f3 <= 1, fp_minmax(a, b, w.f3 = 1))
    ELSE IF w.f7 = 104 THEN If(w.rs2 <= 1, fp_int_to_float(w.f3, frm, x, w.rs2 = 1))
    ELSE If(w.f7 = 120 /\ w.rs2 = 0 /\ w.f3 = 0, Result(x, {}))

ToReg(w, frm, a, b) ==
    IF w.f7 = 80 THEN If(w.f3 <= 2, fp_compare(w.f3, a, b))
    ELSE IF w.f7 = 96 THEN If(w.rs2 <= 1, fp_float_to_int(w.f3, frm, a, w.rs2 = 1))
    ELSE If(w.f7 = 112 /\ w.rs2 = 0 /\ w.f3 <= 1,
            Result(IF w.f3 = 0 THEN a ELSE Pow2[fp_classify(a)], {}))

=============================================================================
