--------------------------------- MODULE Alu ---------------------------------
(***************************************************************************)
(* Integer arithmetic of src/execute.c on words of XLEN bits: OP_ALU and     *)
(* OP_ALUI, RV32M, the conditions of the branches.  The program has XLEN 32;  *)
(* nothing in it depends on that but the widths, so the model takes XLEN as a *)
(* parameter, which keeps products inside TLC's integers.                    *)
(*                                                                         *)
(* A word is a number in 0 .. 2^XLEN - 1 (u32), Signed reads it as s32.       *)
(* Pow2 is the powers of two, BitAnd, BitOr and BitXor are C's & | ^.          *)
(***************************************************************************)
EXTENDS Integers

CONSTANTS XLEN, Pow2, BitAnd(_, _), BitOr(_, _), BitXor(_, _)

ASSUME WidthAssumption ==
    /\ XLEN \in Nat /\ XLEN >= 12 /\ XLEN % 4 = 0
    /\ Pow2 \in [0 .. XLEN -> Nat \ {0}]
    /\ Pow2[1] = 2
    /\ \A j, k \in 0 .. XLEN : j + k <= XLEN => Pow2[j + k] = Pow2[j] * Pow2[k]

Size  == Pow2[XLEN]
Half  == Pow2[XLEN - 1]
Words == 0 .. Size - 1

Wrap(n)   == n % Size
Signed(w) == IF w >= Half THEN w - Size ELSE w
Inverted(w)    == Size - 1 - w
Truth(b)  == IF b THEN 1 ELSE 0

-----------------------------------------------------------------------------
\* RV32M.

Magnitude(n) == IF n < 0 THEN -n ELSE n

\* C's / and % on signed numbers: the quotient is cut towards zero.
Quot(a, b) == IF (a < 0) <=> (b < 0) THEN Magnitude(a) \div Magnitude(b)
              ELSE -(Magnitude(a) \div Magnitude(b))
Rem(a, b)  == a - Quot(a, b) * b

rv_div(a, b) ==
    IF b = 0 THEN Size - 1
    ELSE IF a = Half /\ b = Size - 1 THEN Half
    ELSE Wrap(Quot(Signed(a), Signed(b)))

rv_divu(a, b) == IF b = 0 THEN Size - 1 ELSE a \div b

\* Mutant: the remainder takes the sign of the divisor, as \div and % have it.
rv_rem_floored(a, b) ==
    IF b = 0 THEN a
    ELSE IF a = Half /\ b = Size - 1 THEN 0
    ELSE Wrap(Signed(a) - Quot(Magnitude(Signed(a)), Signed(b)) * Signed(b))

rv_rem(a, b) ==
    IF b = 0 THEN a
    ELSE IF a = Half /\ b = Size - 1 THEN 0
    ELSE Wrap(Rem(Signed(a), Signed(b)))

rv_remu(a, b) == IF b = 0 THEN a ELSE a % b

\* The high words: MULH and MULHSU; MULHU by the halves of b, so that no intermediate
\* result has two words.
High(n) == Wrap(n \div Size)
HighUnsigned(a, b) ==
    LET r == Pow2[XLEN \div 2] IN
    Wrap((a * (b \div r) + ((a * (b % r)) \div r)) \div r)

MulDiv(f3, a, b) ==
    IF f3 = 0 THEN Wrap(Signed(a) * Signed(b))
    ELSE IF f3 = 1 THEN High(Signed(a) * Signed(b))
    ELSE IF f3 = 2 THEN High(Signed(a) * b)
    ELSE IF f3 = 3 THEN HighUnsigned(a, b)
    ELSE IF f3 = 4 THEN rv_div(a, b)
    ELSE IF f3 = 5 THEN rv_divu(a, b)
    ELSE IF f3 = 6 THEN rv_rem(a, b)
    ELSE rv_remu(a, b)

-----------------------------------------------------------------------------
\* The other operations; alt is funct7 = 0x20, b the second register or the
\* immediate.

Sub(alt, a, b) == Wrap(IF alt THEN a - b ELSE a + b)
ShiftRight(alt, a, n) == IF alt THEN Wrap(Signed(a) \div Pow2[n]) ELSE a \div Pow2[n]

Arith(f3, alt, a, b) ==
    IF f3 = 0 THEN Sub(alt, a, b)
    ELSE IF f3 = 1 THEN Wrap(a * Pow2[b % XLEN])
    ELSE IF f3 = 2 THEN Truth(Signed(a) < Signed(b))
    ELSE IF f3 = 3 THEN Truth(a < b)
    ELSE IF f3 = 4 THEN BitXor(a, b)
    ELSE IF f3 = 5 THEN ShiftRight(alt, a, b % XLEN)
    ELSE IF f3 = 6 THEN BitOr(a, b)
    ELSE BitAnd(a, b)

op_alu(f7, f3, a, b) ==
    IF f7 = 1 THEN MulDiv(f3, a, b) ELSE Arith(f3, f7 = 32, a, b)

\* ADDI has no alternative: only the shift looks at funct7.
op_alui(f7, f3, a, imm) == Arith(f3, f3 = 5 /\ f7 = 32, a, Wrap(imm))

-----------------------------------------------------------------------------
\* Branches.

BranchKinds == {0, 1, 4, 5, 6, 7}

taken(f3, a, b) ==
    \/ f3 = 0 /\ a = b
    \/ f3 = 1 /\ a # b
    \/ f3 = 4 /\ Signed(a) < Signed(b)
    \/ f3 = 5 /\ Signed(a) >= Signed(b)
    \/ f3 = 6 /\ a < b
    \/ f3 = 7 /\ a >= b

=============================================================================
