----------------------------- MODULE FpFirmware -----------------------------
(***************************************************************************)
(* Programs that compute with floating-point numbers, and one program for      *)
(* every 16-bit instruction.  Operands reach the f registers through fmv.w.x   *)
(* or memory, results and flags come back through fmv.x.w and fflags, as in     *)
(* tests/gen_f_demo.py.                                                     *)
(***************************************************************************)
EXTENDS Firmware

fmv_w_x(fd, rs) == fp(120, 0, rs, 0, fd)
fmv_x_w(rd, fs) == fp(112, 0, fs, 0, rd)

\* f1 and f2 are a and b; the flags are clear.
operands(a, b) ==
    <<li32(T0, a), fmv_w_x(1, T0), li32(T0, b), fmv_w_x(2, T0), csrrwi(0, CSR_FFLAGS, 0)>>

set_frm(mode) == <<csrrwi(0, CSR_FRM, mode)>>

-----------------------------------------------------------------------------
\* Least and comparisons.

least(a, b) ==
    operands(a, b)
    \o <<fp(20, 2, 1, 0, 3), csrr(S0, CSR_FFLAGS), fmv_x_w(A0, 3),
         fp(80, 1, 3, 0, S1), fp(80, 2, 3, 0, S2),              \* fle f3, f1; f3, f2
         fp(80, 1, 3, 2, T1), fp(80, 2, 3, 2, T2),              \* feq
         fp(80, 2, 1, 1, T3), fp(80, 1, 2, 1, T4),              \* flt both ways
         fp(112, 0, 3, 1, A1), ebreak>>                         \* fclass

Leasts(vs) == {Booted("least", <<a, b>>, least(a, b), 100) : a \in vs, b \in vs}

\* fmin returns one of its operands and none is less than it, by the machine's own
\* comparisons; between zeros it is the negative one; a NaN is passed over for a
\* number, with NV if and only if it is signaling; two NaNs give the canonical one.
\* At most one of a < b and b < a holds.
MinIsLeast ==
    Ended("least") =>
        LET a == boot.args[1]
            b == boot.args[2]
            nan(x) == bits_is_nan(x)
            negative_zero == {a % Half, b % Half} = {0} /\ Half \in {a, b} IN
        /\ ~(regs[T3] = 1 /\ regs[T4] = 1)
        /\ IF nan(a) /\ nan(b) THEN regs[A0] = FP_CANON_NAN /\ regs[A1] = Pow2[9]
           ELSE IF nan(a) THEN regs[A0] = b
           ELSE IF nan(b) THEN regs[A0] = a
           ELSE /\ regs[A0] \in {a, b}
                /\ regs[S1] = 1 /\ regs[S2] = 1
                /\ regs[T1] = 1 \/ regs[T2] = 1
                /\ regs[T3] = 1 => regs[T2] = 0
                /\ negative_zero => regs[A0] = Half
        /\ (nan(a) # nan(b)) =>
              (regs[S0] = (IF bits_is_snan(a) \/ bits_is_snan(b) THEN 16 ELSE 0))

-----------------------------------------------------------------------------
\* Conversions.  unsigned is 0 or 1, rm the static mode.

convert(v, rm, unsigned) ==
    operands(v, 0) \o <<fp(96, unsigned, 1, rm, A0), csrr(S0, CSR_FFLAGS), ebreak>>

there_and_back(x, rm, unsigned) ==
    <<li32(T0, x), csrrwi(0, CSR_FFLAGS, 0), fp(104, unsigned, T0, rm, 1),
      csrr(S0, CSR_FFLAGS), fp(96, unsigned, 1, 1, A0), fmv_x_w(A1, 1), ebreak>>

Modes == 0 .. 3

Conversions(vs) ==
    {Booted("convert", <<v, rm, u>>, convert(v, rm, u), 60) : v \in vs, rm \in Modes, u \in {0, 1}}

Integrals(xs) ==
    {Booted("integral", <<x, rm, u>>, there_and_back(x, rm, u), 60) :
        x \in xs, rm \in Modes, u \in {0, 1}}

\* n is what rounding v makes of it: both are integers, in units of 1 / one; the
\* results possible lie unit apart.
IsRounded(rm, n, v, unit) ==
    IF rm = 0 THEN 2 * Magnitude(n - v) <= unit
                   /\ (2 * Magnitude(n - v) = unit => (n \div unit) % 2 = 0)
    ELSE IF rm = 1 THEN Magnitude(n) <= Magnitude(v) /\ Magnitude(v) < Magnitude(n) + unit
                        /\ (n # 0 => (n < 0 <=> v < 0))
    ELSE IF rm = 2 THEN n <= v /\ v < n + unit
    ELSE n - unit < v /\ v <= n

\* A number is InUnits(v) / One(v); one below a quarter, which rounds like every other
\* below a half, is taken for one of these.
One(v)     == Pow2[IF Scale(v) <= 0 THEN 0
                   ELSE IF Scale(v) > FracBits + 2 THEN FracBits + 2 ELSE Scale(v)]
InUnits(v) == (IF sign(v) = 1 THEN -1 ELSE 1)
              * (Mantissa(v) * (IF Scale(v) < 0 THEN Pow2[-Scale(v)] ELSE 1))

\* n and the number of the flags are the conversion of v to an integer.
IsIntegerOf(v, rm, u, n, flags) ==
    LET least_int == IF u THEN 0 ELSE -Half
        most == IF u THEN Size - 1 ELSE Half - 1 IN
    IF bits_is_nan(v) THEN n = most /\ flags = 16
    ELSE IF v % Half >= Power(XLEN)
    THEN n = (IF sign(v) = 1 THEN least_int ELSE most) /\ flags = 16
    ELSE IF InUnits(v) < least_int * One(v) THEN n = least_int /\ flags = 16
    ELSE IF InUnits(v) > most * One(v) THEN n = most /\ flags = 16
    ELSE IsRounded(rm, n * One(v), InUnits(v), One(v))
         /\ flags = Truth(n * One(v) # InUnits(v))

\* |f| in units of 1 / FracCount; its last bit has weight Ulp(f).
Ulp(f)        == Pow2[FracBits - Scale(f)]
FloatValue(f) == (IF sign(f) = 1 THEN -1 ELSE 1) * (Mantissa(f) * Ulp(f))

\* f and the number of the flags are the conversion of the integer x.
IsFloatOf(x, rm, f, flags) ==
    IF x = 0 THEN f = 0 /\ flags = 0
    ELSE /\ IsRounded(rm, FloatValue(f), x * FracCount, Ulp(f))
         /\ flags = Truth(FloatValue(f) # x * FracCount)

\* A conversion to an integer rounds in the mode of the instruction, to even in a
\* tie; inexact is raised if and only if the value changed; what does not fit
\* becomes the nearest integer of the type, and a NaN the greatest, with NV alone.
\* A conversion from an integer rounds the same way, and the way back gives the
\* integer again when nothing was lost.
ConversionRounds ==
    /\ Ended("convert") =>
         LET u == boot.args[3] = 1 IN
         IsIntegerOf(boot.args[1], boot.args[2], u,
                     IF u THEN regs[A0] ELSE Signed(regs[A0]), regs[S0])
    /\ Ended("integral") =>
         LET x == IF boot.args[3] = 1 THEN boot.args[1] ELSE Signed(boot.args[1]) IN
         /\ IsFloatOf(x, boot.args[2], regs[A1], regs[S0])
         /\ regs[S0] = 0 => regs[A0] = boot.args[1]

-----------------------------------------------------------------------------
\* Directed rounding: op with frm down, up, and nearest by the instruction while
\* frm still says up.

bracket(f7, a, b) ==
    operands(a, b) \o set_frm(2) \o <<fp(f7, IF f7 = 44 THEN 0 ELSE 2, 1, 7, 3)>>
    \o set_frm(3) \o <<fp(f7, IF f7 = 44 THEN 0 ELSE 2, 1, 7, 4),
                       fp(f7, IF f7 = 44 THEN 0 ELSE 2, 1, 0, 5),
                       csrr(S0, CSR_FFLAGS),
                       fmv_x_w(A0, 3), fmv_x_w(A1, 4), fmv_x_w(A2, 5), ebreak>>

Brackets(vs) ==
    {Booted("bracket", <<f7, a, b>>, bracket(f7, a, b), 60) : f7 \in {0, 4, 8, 12}, a \in vs, b \in vs}
    \cup {Booted("bracket", <<44, a, 0>>, bracket(44, a, 0), 60) : a \in {v \in vs : sign(v) = 0}}

\* rm 7 follows frm as it is then, a static rm overrides it: the two directed
\* results lie around the exact one, next to each other if it is inexact and equal
\* if it is exact, and the nearest result is one of them.
DirectedBracket ==
    Ended("bracket") =>
        LET low == Order(regs[A0])
            high == Order(regs[A1]) IN
        /\ high - low = regs[S0] % 2
        /\ Order(regs[A2]) \in {low, high}

\* sums(a, b): 1 / 0, a / b, signaling NaN + 1, and the flags after each, without
\* clearing; then those named in keep are kept.
sums(a, b, keep) ==
    <<li32(T0, a), fmv_w_x(1, T0), li32(T0, b), fmv_w_x(2, T0), csrrwi(0, CSR_FFLAGS, 0),
      fp(12, 2, 1, 0, 3), csrr(S0, CSR_FFLAGS), csrrwi(0, CSR_FFLAGS, 0),
      fp(8, 2, 1, 0, 3), csrr(S1, CSR_FFLAGS), csrrwi(0, CSR_FFLAGS, 0),
      fp(96, 0, 1, 0, T1), csrr(S2, CSR_FFLAGS), csrrwi(0, CSR_FFLAGS, keep),
      fp(12, 2, 1, 0, 3), fp(8, 2, 1, 0, 3), li32(T3, DATA), fsw(0, 3, T3), flw(0, T3, 4),
      fp(96, 0, 1, 0, T1), fp(16, 2, 1, 0, 5), csrr(A0, CSR_FFLAGS), ebreak>>

Sums(vs) ==
    {Booted("sums", <<a, b, keep>>, sums(a, b, keep), 90) : a \in vs, b \in vs, keep \in {0, 1, 16}}

\* The flags software reads at the end of a computation are those of all its
\* operations and those it started with, not those of the last one only.
FlagsOfAll ==
    Ended("sums") =>
        regs[A0] = BitOr(BitOr(regs[S0], regs[S1]), BitOr(regs[S2], boot.args[3]))

=============================================================================
