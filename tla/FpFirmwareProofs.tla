--------------------------- MODULE FpFirmwareProofs ---------------------------
(***************************************************************************)
(* What the programs of FpFirmware promise, for all operands and every format  *)
(* of numbers.  They are without branches, and proved the way those of          *)
(* FirmwareProofs are; what remains is arithmetic on bit patterns.             *)
(***************************************************************************)
EXTENDS FpFirmware, FirmwareProofs

-----------------------------------------------------------------------------
\* What an instruction of the floating-point unit leaves, if r is its result.

\* In register f rd.
FpSets(rd, r) ==
    /\ Advances /\ fregs' = [fregs EXCEPT ![rd] = r.bits]
    /\ fflags' = fflags \cup r.flags
    /\ csr' = Polled
    /\ UNCHANGED <<regs, mem, mtimecmp, out>>

\* In register x rd.
FpWrites(rd, r) ==
    /\ Advances /\ regs' = [regs EXCEPT ![rd] = r.bits]
    /\ fflags' = fflags \cup r.flags
    /\ csr' = Polled
    /\ UNCHANGED <<fregs, mem, mtimecmp, out>>

\* Each of them does one or the other, with a result of the unit.
LEMMA FpRuns ==
  ASSUME CInv, Step, NEW f7 \in Codes7, NEW f3 \in Codes3, NEW rd \in 1 .. 31,
         NEW r1 \in Registers, NEW r2 \in Registers, NEW w,
         w = enc_r(f7, r2, r1, f3, rd, OP_FP), AtWord(w),
         ToFreg(w, csr[CSR_FRM], fregs[r1], fregs[r2], regs[r1])
         \cup ToReg(w, csr[CSR_FRM], fregs[r1], fregs[r2]) # {}
  PROVE  \/ \E r \in ToFreg(w, csr[CSR_FRM], fregs[r1], fregs[r2], regs[r1]) : FpSets(rd, r)
         \/ \E r \in ToReg(w, csr[CSR_FRM], fregs[r1], fregs[r2]) : FpWrites(rd, r)
<1>1. w.op = OP_FP /\ w.rd = rd /\ w.rs1 = r1 /\ w.rs2 = r2 /\ w.f3 = f3 /\ w.f7 = f7
  BY DEF enc_r
<1>2. w \in Fields
  BY Opcodes DEF enc_r, Fields, Registers, Codes3, Codes7
<1>3. Reads(w)
  BY <1>1, <1>2, Formats DEF Reads, AtWord
<1>4. /\ FregResults(I(w)) = ToFreg(w, csr[CSR_FRM], fregs[r1], fregs[r2], regs[r1])
      /\ RegResults(I(w)) = ToReg(w, csr[CSR_FRM], fregs[r1], fregs[r2])
  BY <1>1 DEF FregResults, RegResults, I, rs1_val
<1>5. rd # 0
  OBVIOUS
<1> QED BY <1>1, <1>3, <1>4, <1>5, FpOpAt DEF FpSets, FpWrites, Accrued, reg_write

\* With one result there is no choice.
LEMMA OneSets ==
  ASSUME CInv, Step, NEW f7 \in Codes7, NEW f3 \in Codes3, NEW rd \in 1 .. 31,
         NEW r1 \in Registers, NEW r2 \in Registers, NEW w,
         w = enc_r(f7, r2, r1, f3, rd, OP_FP), AtWord(w), NEW r,
         ToFreg(w, csr[CSR_FRM], fregs[r1], fregs[r2], regs[r1]) = {r},
         ToReg(w, csr[CSR_FRM], fregs[r1], fregs[r2]) = {}
  PROVE  FpSets(rd, r)
<1>1. ToFreg(w, csr[CSR_FRM], fregs[r1], fregs[r2], regs[r1])
      \cup ToReg(w, csr[CSR_FRM], fregs[r1], fregs[r2]) # {}
  OBVIOUS
<1>2. \/ \E x \in ToFreg(w, csr[CSR_FRM], fregs[r1], fregs[r2], regs[r1]) : FpSets(rd, x)
      \/ \E x \in ToReg(w, csr[CSR_FRM], fregs[r1], fregs[r2]) : FpWrites(rd, x)
  BY <1>1, FpRuns
<1> QED BY <1>2

\* the same for one whose result goes to an integer register.
LEMMA OneWrites ==
  ASSUME CInv, Step, NEW f7 \in Codes7, NEW f3 \in Codes3, NEW rd \in 1 .. 31,
         NEW r1 \in Registers, NEW r2 \in Registers, NEW w,
         w = enc_r(f7, r2, r1, f3, rd, OP_FP), AtWord(w), NEW r,
         ToFreg(w, csr[CSR_FRM], fregs[r1], fregs[r2], regs[r1]) = {},
         ToReg(w, csr[CSR_FRM], fregs[r1], fregs[r2]) = {r}
  PROVE  FpWrites(rd, r)
<1>1. ToFreg(w, csr[CSR_FRM], fregs[r1], fregs[r2], regs[r1])
      \cup ToReg(w, csr[CSR_FRM], fregs[r1], fregs[r2]) # {}
  OBVIOUS
<1>2. \/ \E x \in ToFreg(w, csr[CSR_FRM], fregs[r1], fregs[r2], regs[r1]) : FpSets(rd, x)
      \/ \E x \in ToReg(w, csr[CSR_FRM], fregs[r1], fregs[r2]) : FpWrites(rd, x)
  BY <1>1, FpRuns
<1> QED BY <1>2

\* A register moved to the floating-point unit.
LEMMA MoveInRuns ==
  ASSUME CInv, Step, NEW rd \in 1 .. 31, NEW r1 \in Registers,
         AtWord(enc_r(120, 0, r1, 0, rd, OP_FP))
  PROVE  FpSets(rd, Result(regs[r1], {}))
<1> DEFINE w == enc_r(120, 0, r1, 0, rd, OP_FP)
<1>1. w.rs2 = 0 /\ w.f3 = 0 /\ w.f7 = 120
  BY DEF enc_r
<1> HIDE DEF w
<1>2. ToFreg(w, csr[CSR_FRM], fregs[r1], fregs[0], regs[r1]) = {Result(regs[r1], {})}
  BY <1>1 DEF ToFreg, If
<1>3. ToReg(w, csr[CSR_FRM], fregs[r1], fregs[0]) = {}
  BY <1>1 DEF ToReg, If
<1>4. 120 \in Codes7 /\ 0 \in Codes3 /\ 0 \in Registers
  BY DEF Codes7, Codes3, Registers
<1> QED BY <1>2, <1>3, <1>4, OneSets DEF w

\* And back.
LEMMA MoveOutRuns ==
  ASSUME CInv, Step, NEW rd \in 1 .. 31, NEW r1 \in Registers,
         AtWord(enc_r(112, 0, r1, 0, rd, OP_FP))
  PROVE  FpWrites(rd, Result(fregs[r1], {}))
<1> DEFINE w == enc_r(112, 0, r1, 0, rd, OP_FP)
<1>1. w.rs2 = 0 /\ w.f3 = 0 /\ w.f7 = 112
  BY DEF enc_r
<1> HIDE DEF w
<1>2. ToFreg(w, csr[CSR_FRM], fregs[r1], fregs[0], regs[r1]) = {}
  BY <1>1 DEF ToFreg, If
<1>3. ToReg(w, csr[CSR_FRM], fregs[r1], fregs[0]) = {Result(fregs[r1], {})}
  BY <1>1 DEF ToReg, If
<1>4. 112 \in Codes7 /\ 0 \in Codes3 /\ 0 \in Registers
  BY DEF Codes7, Codes3, Registers
<1> QED BY <1>2, <1>3, <1>4, OneWrites DEF w

\* The class of a number.
LEMMA ClassRuns ==
  ASSUME CInv, Step, NEW rd \in 1 .. 31, NEW r1 \in Registers,
         AtWord(enc_r(112, 0, r1, 1, rd, OP_FP))
  PROVE  FpWrites(rd, Result(Pow2[fp_classify(fregs[r1])], {}))
<1> DEFINE w == enc_r(112, 0, r1, 1, rd, OP_FP)
<1>1. w.rs2 = 0 /\ w.f3 = 1 /\ w.f7 = 112
  BY DEF enc_r
<1> HIDE DEF w
<1>2. ToFreg(w, csr[CSR_FRM], fregs[r1], fregs[0], regs[r1]) = {}
  BY <1>1 DEF ToFreg, If
<1>3. ToReg(w, csr[CSR_FRM], fregs[r1], fregs[0]) = {Result(Pow2[fp_classify(fregs[r1])], {})}
  BY <1>1 DEF ToReg, If
<1>4. 112 \in Codes7 /\ 1 \in Codes3 /\ 0 \in Registers
  BY DEF Codes7, Codes3, Registers
<1> QED BY <1>2, <1>3, <1>4, OneWrites DEF w

\* The lesser of two numbers.
LEMMA MinRuns ==
  ASSUME CInv, Step, NEW rd \in 1 .. 31, NEW r1 \in Registers, NEW r2 \in Registers,
         AtWord(enc_r(20, r2, r1, 0, rd, OP_FP))
  PROVE  FpSets(rd, fp_minmax(fregs[r1], fregs[r2], FALSE))
<1> DEFINE w == enc_r(20, r2, r1, 0, rd, OP_FP)
<1>1. w.f3 = 0 /\ w.f7 = 20
  BY DEF enc_r
<1> HIDE DEF w
<1>2. ToFreg(w, csr[CSR_FRM], fregs[r1], fregs[r2], regs[r1])
      = {fp_minmax(fregs[r1], fregs[r2], FALSE)}
  <2>1. ToFreg(w, csr[CSR_FRM], fregs[r1], fregs[r2], regs[r1])
        = {fp_minmax(fregs[r1], fregs[r2], w.f3 = 1)}
    BY <1>1 DEF ToFreg, If
  <2>2. fp_minmax(fregs[r1], fregs[r2], w.f3 = 1) = fp_minmax(fregs[r1], fregs[r2], FALSE)
    BY <1>1 DEF fp_minmax
  <2> QED BY <2>1, <2>2
<1>3. ToReg(w, csr[CSR_FRM], fregs[r1], fregs[r2]) = {}
  BY <1>1 DEF ToReg, If
<1>4. 20 \in Codes7 /\ 0 \in Codes3
  BY DEF Codes7, Codes3
<1> QED BY <1>2, <1>3, <1>4, OneSets DEF w

\* Comparisons.
LEMMA CompareRuns ==
  ASSUME CInv, Step, NEW f3 \in 0 .. 2, NEW rd \in 1 .. 31, NEW r1 \in Registers,
         NEW r2 \in Registers, AtWord(enc_r(80, r2, r1, f3, rd, OP_FP))
  PROVE  FpWrites(rd, fp_compare(f3, fregs[r1], fregs[r2]))
<1> DEFINE w == enc_r(80, r2, r1, f3, rd, OP_FP)
<1>1. w.f3 = f3 /\ w.f7 = 80
  BY DEF enc_r
<1> HIDE DEF w
<1>2. ToFreg(w, csr[CSR_FRM], fregs[r1], fregs[r2], regs[r1]) = {}
  BY <1>1 DEF ToFreg, If
<1>3. ToReg(w, csr[CSR_FRM], fregs[r1], fregs[r2]) = {fp_compare(f3, fregs[r1], fregs[r2])}
  BY <1>1 DEF ToReg, If
<1>4. 80 \in Codes7 /\ f3 \in Codes3
  BY DEF Codes7, Codes3
<1> QED BY <1>2, <1>3, <1>4, OneWrites DEF w

\* Conversions.
LEMMA ToIntRuns ==
  ASSUME CInv, Step, NEW rm \in 0 .. 3, NEW u \in {0, 1}, NEW rd \in 1 .. 31,
         NEW r1 \in Registers, AtWord(enc_r(96, u, r1, rm, rd, OP_FP))
  PROVE  FpWrites(rd, fp_float_to_int(rm, csr[CSR_FRM], fregs[r1], u = 1))
<1> DEFINE w == enc_r(96, u, r1, rm, rd, OP_FP)
           r == fp_float_to_int(rm, csr[CSR_FRM], fregs[r1], u = 1)
<1>1. w.f3 = rm /\ w.f7 = 96 /\ w.rs2 = u
  BY DEF enc_r
<1> HIDE DEF w
<1>2. ToFreg(w, csr[CSR_FRM], fregs[r1], fregs[u], regs[r1]) = {}
  BY <1>1 DEF ToFreg, If
<1>3. ToReg(w, csr[CSR_FRM], fregs[r1], fregs[u])
      = {r}
  BY <1>1 DEF ToReg, If
<1> HIDE DEF r
<1>4. 96 \in Codes7 /\ rm \in Codes3 /\ u \in Registers
  BY DEF Codes7, Codes3, Registers
<1>5. FpWrites(rd, r)
  BY <1>2, <1>3, <1>4, OneWrites DEF w
<1> QED BY <1>5 DEF r

\* and from an integer.
LEMMA ToFloatRuns ==
  ASSUME CInv, Step, NEW rm \in 0 .. 3, NEW u \in {0, 1}, NEW rd \in 1 .. 31,
         NEW r1 \in Registers, AtWord(enc_r(104, u, r1, rm, rd, OP_FP))
  PROVE  FpSets(rd, fp_int_to_float(rm, csr[CSR_FRM], regs[r1], u = 1))
<1> DEFINE w == enc_r(104, u, r1, rm, rd, OP_FP)
           r == fp_int_to_float(rm, csr[CSR_FRM], regs[r1], u = 1)
<1>1. w.f3 = rm /\ w.f7 = 104 /\ w.rs2 = u
  BY DEF enc_r
<1> HIDE DEF w
<1>2. ToFreg(w, csr[CSR_FRM], fregs[r1], fregs[u], regs[r1])
      = {r}
  BY <1>1 DEF ToFreg, If
<1>3. ToReg(w, csr[CSR_FRM], fregs[r1], fregs[u]) = {}
  BY <1>1 DEF ToReg, If
<1> HIDE DEF r
<1>4. 104 \in Codes7 /\ rm \in Codes3 /\ u \in Registers
  BY DEF Codes7, Codes3, Registers
<1>5. FpSets(rd, r)
  BY <1>2, <1>3, <1>4, OneSets DEF w
<1> QED BY <1>5 DEF r

\* The host has a result for every operation on two numbers.
Twofold     == {0, 4, 8, 12}
HostAnswers == \A o \in Twofold, mode \in HostModes, a \in Words, b \in Words :
                  HostArith(o, mode, a, b) # {}

\* Its arithmetic.
LEMMA ArithRuns ==
  ASSUME CInv, Step, HostAnswers, NEW f7 \in Twofold, NEW f3 \in Codes3, NEW rd \in 1 .. 31,
         NEW r1 \in Registers, NEW r2 \in Registers, AtWord(enc_r(f7, r2, r1, f3, rd, OP_FP))
  PROVE  \E r \in fp_arith(f3, csr[CSR_FRM], f7, fregs[r1], fregs[r2]) : FpSets(rd, r)
<1> DEFINE w == enc_r(f7, r2, r1, f3, rd, OP_FP)
<1>1. w.f3 = f3 /\ w.f7 = f7 /\ f7 \in {0, 4, 8, 12}
  BY DEF enc_r, Twofold
<1> HIDE DEF w
<1>2. ToFreg(w, csr[CSR_FRM], fregs[r1], fregs[r2], regs[r1])
      = fp_arith(f3, csr[CSR_FRM], f7, fregs[r1], fregs[r2])
  BY <1>1 DEF ToFreg
<1>3. ToReg(w, csr[CSR_FRM], fregs[r1], fregs[r2]) = {}
  BY <1>1 DEF ToReg, If
<1>4. fp_arith(f3, csr[CSR_FRM], f7, fregs[r1], fregs[r2]) # {}
  <2>1. host_rounding(f3, csr[CSR_FRM]) \in HostModes
    BY DEF host_rounding, HostModes
  <2>2. fregs[r1] \in Words /\ fregs[r2] \in Words
    BY DEF CInv, CTypeOK
  <2>3. HostArith(f7, host_rounding(f3, csr[CSR_FRM]), fregs[r1], fregs[r2]) # {}
    BY <2>1, <2>2 DEF HostAnswers
  <2> QED BY <2>3 DEF fp_arith
<1>5. f7 \in Codes7
  BY <1>1 DEF Codes7
<1> QED BY <1>2, <1>3, <1>4, <1>5, FpRuns DEF w

\* The flags are read,
LEMMA FlagsRead ==
  ASSUME CInv, Step, NEW rd \in 1 .. 31, AtWord(CsrWord(2, rd, CSR_FFLAGS, 0))
  PROVE  /\ Advances /\ regs' = [regs EXCEPT ![rd] = Number(fflags)]
         /\ UNCHANGED <<fregs, mem, mtimecmp, out>>
<1>1. /\ CSR_FFLAGS \in Csrs /\ CSR_FFLAGS \in Int /\ 0 <= CSR_FFLAGS /\ CSR_FFLAGS < 2048
      /\ rd \in Registers /\ 0 \in Registers /\ rd # 0
  BY CsrNumbers DEF Registers
<1>2. csr_read(CSR_FFLAGS) = Number(fflags)
  BY DEF csr_read
<1> QED BY <1>1, <1>2, CsrRuns DEF reg_write

\* and set to those of a number.
LEMMA FlagsSet ==
  ASSUME CInv, Step, NEW n \in Registers, AtWord(CsrWord(5, 0, CSR_FFLAGS, n))
  PROVE  /\ Advances /\ fflags' = Bits(n)
         /\ UNCHANGED <<regs, fregs, mem, mtimecmp, out>>
<1>1. /\ CSR_FFLAGS \in Csrs /\ CSR_FFLAGS \in Int /\ 0 <= CSR_FFLAGS /\ CSR_FFLAGS < 2048
      /\ 0 \in Registers
  BY CsrNumbers DEF Registers
<1>2. FlagsWritten(CSR_FFLAGS, WrittenTo(5, CSR_FFLAGS, n)) = Bits(n)
  BY DEF FlagsWritten, WrittenTo
<1> QED BY <1>1, <1>2, CsrRuns DEF reg_write

\* 0 has no flags.
LEMMA NoBits ==
  Bits(0) = {}
<1>1. ASSUME NEW f \in Flags PROVE (0 \div Pow2[FlagBit[f]]) % 2 # 1
  <2>1. Pow2[FlagBit[f]] \in Nat \ {0}
    BY SmallPowers DEF Flags, FlagBit, FP_NX, FP_UF, FP_OF, FP_DZ, FP_NV
  <2>2. 0 \div Pow2[FlagBit[f]] = 0
    BY <2>1
  <2> QED BY <2>2
<1> QED BY <1>1 DEF Bits

-----------------------------------------------------------------------------
\* The program of the lesser of two numbers.
Lesser(a, b)      == fp_minmax(a, b, FALSE).bits
LesserFlags(a, b) == fp_minmax(a, b, FALSE).flags

\* Its words.
LeastText(c, a, b) ==
    /\ Holds(c, TEXT, Lui(T0, a))
    /\ Holds(c, TEXT + 4, Addi(T0, a))
    /\ Holds(c, TEXT + 8, enc_r(120, 0, T0, 0, 1, OP_FP))
    /\ Holds(c, TEXT + 12, Lui(T0, b))
    /\ Holds(c, TEXT + 16, Addi(T0, b))
    /\ Holds(c, TEXT + 20, enc_r(120, 0, T0, 0, 2, OP_FP))
    /\ Holds(c, TEXT + 24, CsrWord(5, 0, CSR_FFLAGS, 0))
    /\ Holds(c, TEXT + 28, enc_r(20, 2, 1, 0, 3, OP_FP))
    /\ Holds(c, TEXT + 32, CsrWord(2, S0, CSR_FFLAGS, 0))
    /\ Holds(c, TEXT + 36, enc_r(112, 0, 3, 0, A0, OP_FP))
    /\ Holds(c, TEXT + 40, enc_r(80, 1, 3, 0, S1, OP_FP))
    /\ Holds(c, TEXT + 44, enc_r(80, 2, 3, 0, S2, OP_FP))
    /\ Holds(c, TEXT + 48, enc_r(80, 1, 3, 2, T1, OP_FP))
    /\ Holds(c, TEXT + 52, enc_r(80, 2, 3, 2, T2, OP_FP))
    /\ Holds(c, TEXT + 56, enc_r(80, 2, 1, 1, T3, OP_FP))
    /\ Holds(c, TEXT + 60, enc_r(80, 1, 2, 1, T4, OP_FP))
    /\ Holds(c, TEXT + 64, enc_r(112, 0, 3, 1, A1, OP_FP))
    /\ Holds(c, TEXT + 68, EBREAK)

\* The assembler puts them there.
LEMMA LeastAssembled ==
  ASSUME TEXT \in Nat, NEW a, NEW b
  PROVE  LeastText(assemble(least(a, b), TEXT), a, b)
<1> DEFINE items == least(a, b)
           c == assemble(items, TEXT)
<1>1. /\ Len(items) = 16
      /\ items[1] = li32(T0, a)
      /\ items[2] = Word(enc_r(120, 0, T0, 0, 1, OP_FP))
      /\ items[3] = li32(T0, b)
      /\ items[4] = Word(enc_r(120, 0, T0, 0, 2, OP_FP))
      /\ items[5] = Word(CsrWord(5, 0, CSR_FFLAGS, 0))
      /\ items[6] = Word(enc_r(20, 2, 1, 0, 3, OP_FP))
      /\ items[7] = Word(CsrWord(2, S0, CSR_FFLAGS, 0))
      /\ items[8] = Word(enc_r(112, 0, 3, 0, A0, OP_FP))
      /\ items[9] = Word(enc_r(80, 1, 3, 0, S1, OP_FP))
      /\ items[10] = Word(enc_r(80, 2, 3, 0, S2, OP_FP))
      /\ items[11] = Word(enc_r(80, 1, 3, 2, T1, OP_FP))
      /\ items[12] = Word(enc_r(80, 2, 3, 2, T2, OP_FP))
      /\ items[13] = Word(enc_r(80, 2, 1, 1, T3, OP_FP))
      /\ items[14] = Word(enc_r(80, 1, 2, 1, T4, OP_FP))
      /\ items[15] = Word(enc_r(112, 0, 3, 1, A1, OP_FP))
      /\ items[16] = Word(EBREAK)
  <2> DEFINE p0 == <<li32(T0, a),
                  Word(enc_r(120, 0, T0, 0, 1, OP_FP)),
                  li32(T0, b),
                  Word(enc_r(120, 0, T0, 0, 2, OP_FP)),
                  Word(CsrWord(5, 0, CSR_FFLAGS, 0))>>
             q1 == <<Word(enc_r(20, 2, 1, 0, 3, OP_FP)),
                  Word(CsrWord(2, S0, CSR_FFLAGS, 0)),
                  Word(enc_r(112, 0, 3, 0, A0, OP_FP)),
                  Word(enc_r(80, 1, 3, 0, S1, OP_FP)),
                  Word(enc_r(80, 2, 3, 0, S2, OP_FP)),
                  Word(enc_r(80, 1, 3, 2, T1, OP_FP)),
                  Word(enc_r(80, 2, 3, 2, T2, OP_FP)),
                  Word(enc_r(80, 2, 1, 1, T3, OP_FP)),
                  Word(enc_r(80, 1, 2, 1, T4, OP_FP)),
                  Word(enc_r(112, 0, 3, 1, A1, OP_FP)),
                  Word(EBREAK)>>
             p1 == p0 \o q1
             S0_ == {p0[1], p0[2], p0[3], p0[4], p0[5]}
             S1_ == {q1[1], q1[2], q1[3], q1[4], q1[5], q1[6], q1[7], q1[8], q1[9], q1[10], q1[11]}
  <2>1. items = p1
    BY DEF least, operands, fmv_w_x, fmv_x_w, fp, csrrwi, csrr, csrrs, system, CsrWord, ebreak, EBREAK, Special
  <2>2. p0 \in Seq(S0_) /\ Len(p0) = 5
    OBVIOUS
  <2>3. /\ p0[1] = li32(T0, a)
        /\ p0[2] = Word(enc_r(120, 0, T0, 0, 1, OP_FP))
        /\ p0[3] = li32(T0, b)
        /\ p0[4] = Word(enc_r(120, 0, T0, 0, 2, OP_FP))
        /\ p0[5] = Word(CsrWord(5, 0, CSR_FFLAGS, 0))
    OBVIOUS
  <2>4. q1 \in Seq(S1_) /\ Len(q1) = 11
    OBVIOUS
  <2>5. /\ q1[1] = Word(enc_r(20, 2, 1, 0, 3, OP_FP))
        /\ q1[2] = Word(CsrWord(2, S0, CSR_FFLAGS, 0))
        /\ q1[3] = Word(enc_r(112, 0, 3, 0, A0, OP_FP))
        /\ q1[4] = Word(enc_r(80, 1, 3, 0, S1, OP_FP))
        /\ q1[5] = Word(enc_r(80, 2, 3, 0, S2, OP_FP))
        /\ q1[6] = Word(enc_r(80, 1, 3, 2, T1, OP_FP))
        /\ q1[7] = Word(enc_r(80, 2, 3, 2, T2, OP_FP))
        /\ q1[8] = Word(enc_r(80, 2, 1, 1, T3, OP_FP))
        /\ q1[9] = Word(enc_r(80, 1, 2, 1, T4, OP_FP))
        /\ q1[10] = Word(enc_r(112, 0, 3, 1, A1, OP_FP))
        /\ q1[11] = Word(EBREAK)
    OBVIOUS
  <2> HIDE DEF p0, S0_, q1, S1_, items
  <2>6. IsJoin(p1, p0, 5, q1, 11)
    BY ONLY <2>2, <2>4, Appended
  <2>n1. Len(p1) = 16
    BY <2>6 DEF IsJoin
  <2> HIDE DEF p1
  <2>7. /\ \A i \in 1 .. 5 : p1[i] = p0[i]
        /\ \A i \in 1 .. 11 : p1[5 + i] = q1[i]
    BY <2>6 DEF IsJoin
  <2>8. /\ p1[1] = li32(T0, a)
        /\ p1[2] = Word(enc_r(120, 0, T0, 0, 1, OP_FP))
        /\ p1[3] = li32(T0, b)
        /\ p1[4] = Word(enc_r(120, 0, T0, 0, 2, OP_FP))
        /\ p1[5] = Word(CsrWord(5, 0, CSR_FFLAGS, 0))
        /\ p1[6] = Word(enc_r(20, 2, 1, 0, 3, OP_FP))
        /\ p1[7] = Word(CsrWord(2, S0, CSR_FFLAGS, 0))
        /\ p1[8] = Word(enc_r(112, 0, 3, 0, A0, OP_FP))
        /\ p1[9] = Word(enc_r(80, 1, 3, 0, S1, OP_FP))
        /\ p1[10] = Word(enc_r(80, 2, 3, 0, S2, OP_FP))
        /\ p1[11] = Word(enc_r(80, 1, 3, 2, T1, OP_FP))
        /\ p1[12] = Word(enc_r(80, 2, 3, 2, T2, OP_FP))
        /\ p1[13] = Word(enc_r(80, 2, 1, 1, T3, OP_FP))
        /\ p1[14] = Word(enc_r(80, 1, 2, 1, T4, OP_FP))
        /\ p1[15] = Word(enc_r(112, 0, 3, 1, A1, OP_FP))
        /\ p1[16] = Word(EBREAK)
    <3>1. /\ 5 + 1 = 6 /\ 5 + 2 = 7 /\ 5 + 3 = 8 /\ 5 + 4 = 9 /\ 5 + 5 = 10 /\ 5 + 6 = 11
          /\ 5 + 7 = 12 /\ 5 + 8 = 13 /\ 5 + 9 = 14 /\ 5 + 10 = 15 /\ 5 + 11 = 16
      OBVIOUS
    <3>2. /\ p1[1] = p0[1]
          /\ p1[2] = p0[2]
          /\ p1[3] = p0[3]
          /\ p1[4] = p0[4]
          /\ p1[5] = p0[5]
          /\ p1[6] = q1[1]
          /\ p1[7] = q1[2]
          /\ p1[8] = q1[3]
          /\ p1[9] = q1[4]
          /\ p1[10] = q1[5]
          /\ p1[11] = q1[6]
          /\ p1[12] = q1[7]
          /\ p1[13] = q1[8]
          /\ p1[14] = q1[9]
          /\ p1[15] = q1[10]
          /\ p1[16] = q1[11]
      BY <2>7, <3>1
    <3> QED BY ONLY <3>2, <2>3, <2>5
  <2> QED BY ONLY <2>1, <2>n1, <2>8
<1> HIDE DEF items
<1>2. /\ Holds(c, TEXT, Lui(T0, a)) /\ Holds(c, TEXT + 4, Addi(T0, a))
      /\ ItemAt(items, TEXT, 2, 8)
  <2>1. items[1] = li32(T0, a) /\ Len(items) \in Nat /\ Len(items) >= 1 /\ TEXT \in Int
    BY <1>1
  <2> QED BY ONLY <2>1, FirstConstant
<1>3. Holds(c, TEXT + 8, enc_r(120, 0, T0, 0, 1, OP_FP)) /\ ItemAt(items, TEXT, 3, 12)
  <2>1. items[2] = Word(enc_r(120, 0, T0, 0, 1, OP_FP)) /\ 2 <= Len(items) /\ TEXT \in Int
    BY <1>1
  <2> QED BY ONLY <1>2, <2>1, NextWord
<1>4. /\ Holds(c, TEXT + 12, Lui(T0, b)) /\ Holds(c, TEXT + 16, Addi(T0, b))
      /\ ItemAt(items, TEXT, 4, 20)
  <2>1. items[3] = li32(T0, b) /\ 3 <= Len(items) /\ TEXT \in Int
    BY <1>1
  <2> QED BY ONLY <1>3, <2>1, NextConstant
<1>5. Holds(c, TEXT + 20, enc_r(120, 0, T0, 0, 2, OP_FP)) /\ ItemAt(items, TEXT, 5, 24)
  <2>1. items[4] = Word(enc_r(120, 0, T0, 0, 2, OP_FP)) /\ 4 <= Len(items) /\ TEXT \in Int
    BY <1>1
  <2> QED BY ONLY <1>4, <2>1, NextWord
<1>6. Holds(c, TEXT + 24, CsrWord(5, 0, CSR_FFLAGS, 0)) /\ ItemAt(items, TEXT, 6, 28)
  <2>1. items[5] = Word(CsrWord(5, 0, CSR_FFLAGS, 0)) /\ 5 <= Len(items) /\ TEXT \in Int
    BY <1>1
  <2> QED BY ONLY <1>5, <2>1, NextWord
<1>7. Holds(c, TEXT + 28, enc_r(20, 2, 1, 0, 3, OP_FP)) /\ ItemAt(items, TEXT, 7, 32)
  <2>1. items[6] = Word(enc_r(20, 2, 1, 0, 3, OP_FP)) /\ 6 <= Len(items) /\ TEXT \in Int
    BY <1>1
  <2> QED BY ONLY <1>6, <2>1, NextWord
<1>8. Holds(c, TEXT + 32, CsrWord(2, S0, CSR_FFLAGS, 0)) /\ ItemAt(items, TEXT, 8, 36)
  <2>1. items[7] = Word(CsrWord(2, S0, CSR_FFLAGS, 0)) /\ 7 <= Len(items) /\ TEXT \in Int
    BY <1>1
  <2> QED BY ONLY <1>7, <2>1, NextWord
<1>9. Holds(c, TEXT + 36, enc_r(112, 0, 3, 0, A0, OP_FP)) /\ ItemAt(items, TEXT, 9, 40)
  <2>1. items[8] = Word(enc_r(112, 0, 3, 0, A0, OP_FP)) /\ 8 <= Len(items) /\ TEXT \in Int
    BY <1>1
  <2> QED BY ONLY <1>8, <2>1, NextWord
<1>10. Holds(c, TEXT + 40, enc_r(80, 1, 3, 0, S1, OP_FP)) /\ ItemAt(items, TEXT, 10, 44)
  <2>1. items[9] = Word(enc_r(80, 1, 3, 0, S1, OP_FP)) /\ 9 <= Len(items) /\ TEXT \in Int
    BY <1>1
  <2> QED BY ONLY <1>9, <2>1, NextWord
<1>11. Holds(c, TEXT + 44, enc_r(80, 2, 3, 0, S2, OP_FP)) /\ ItemAt(items, TEXT, 11, 48)
  <2>1. items[10] = Word(enc_r(80, 2, 3, 0, S2, OP_FP)) /\ 10 <= Len(items) /\ TEXT \in Int
    BY <1>1
  <2> QED BY ONLY <1>10, <2>1, NextWord
<1>12. Holds(c, TEXT + 48, enc_r(80, 1, 3, 2, T1, OP_FP)) /\ ItemAt(items, TEXT, 12, 52)
  <2>1. items[11] = Word(enc_r(80, 1, 3, 2, T1, OP_FP)) /\ 11 <= Len(items) /\ TEXT \in Int
    BY <1>1
  <2> QED BY ONLY <1>11, <2>1, NextWord
<1>13. Holds(c, TEXT + 52, enc_r(80, 2, 3, 2, T2, OP_FP)) /\ ItemAt(items, TEXT, 13, 56)
  <2>1. items[12] = Word(enc_r(80, 2, 3, 2, T2, OP_FP)) /\ 12 <= Len(items) /\ TEXT \in Int
    BY <1>1
  <2> QED BY ONLY <1>12, <2>1, NextWord
<1>14. Holds(c, TEXT + 56, enc_r(80, 2, 1, 1, T3, OP_FP)) /\ ItemAt(items, TEXT, 14, 60)
  <2>1. items[13] = Word(enc_r(80, 2, 1, 1, T3, OP_FP)) /\ 13 <= Len(items) /\ TEXT \in Int
    BY <1>1
  <2> QED BY ONLY <1>13, <2>1, NextWord
<1>15. Holds(c, TEXT + 60, enc_r(80, 1, 2, 1, T4, OP_FP)) /\ ItemAt(items, TEXT, 15, 64)
  <2>1. items[14] = Word(enc_r(80, 1, 2, 1, T4, OP_FP)) /\ 14 <= Len(items) /\ TEXT \in Int
    BY <1>1
  <2> QED BY ONLY <1>14, <2>1, NextWord
<1>16. Holds(c, TEXT + 64, enc_r(112, 0, 3, 1, A1, OP_FP)) /\ ItemAt(items, TEXT, 16, 68)
  <2>1. items[15] = Word(enc_r(112, 0, 3, 1, A1, OP_FP)) /\ 15 <= Len(items) /\ TEXT \in Int
    BY <1>1
  <2> QED BY ONLY <1>15, <2>1, NextWord
<1>17. Holds(c, TEXT + 68, EBREAK) /\ ItemAt(items, TEXT, 17, 72)
  <2>1. items[16] = Word(EBREAK) /\ 16 <= Len(items) /\ TEXT \in Int
    BY <1>1
  <2> QED BY ONLY <1>16, <2>1, NextWord
<1> QED BY <1>2, <1>3, <1>4, <1>5, <1>6, <1>7, <1>8, <1>9, <1>10, <1>11, <1>12, <1>13, <1>14, <1>15,
           <1>16, <1>17 DEF LeastText, items

\* What the registers hold, step by step.
LeastFacts(a, b) ==
    /\ OnLine(18)
    /\ mtime = 1 => regs[T0] = Wrap(Immediate(Lui(T0, a)))
    /\ mtime \in 2 .. 3 => regs[T0] = a
    /\ mtime = 4 => regs[T0] = Wrap(Immediate(Lui(T0, b)))
    /\ mtime >= 5 => regs[T0] = b
    /\ mtime >= 3 => fregs[1] = a
    /\ mtime >= 6 => fregs[2] = b
    /\ mtime = 7 => fflags = {}
    /\ mtime = 8 => fflags = LesserFlags(a, b)
    /\ mtime >= 8 => fregs[3] = Lesser(a, b)
    /\ mtime >= 9 => regs[S0] = Number(LesserFlags(a, b))
    /\ mtime >= 10 => regs[A0] = Lesser(a, b)
    /\ mtime >= 11 => regs[S1] = fp_compare(0, Lesser(a, b), a).bits
    /\ mtime >= 12 => regs[S2] = fp_compare(0, Lesser(a, b), b).bits
    /\ mtime >= 13 => regs[T1] = fp_compare(2, Lesser(a, b), a).bits
    /\ mtime >= 14 => regs[T2] = fp_compare(2, Lesser(a, b), b).bits
    /\ mtime >= 15 => regs[T3] = fp_compare(1, a, b).bits
    /\ mtime >= 16 => regs[T4] = fp_compare(1, b, a).bits
    /\ mtime >= 17 => regs[A1] = Pow2[fp_classify(Lesser(a, b))]

\* Every step of the program leaves them so.
LEMMA LeastStep ==
  ASSUME CInv, Step, XLEN <= 32, TextFits(18),
         NEW a \in Words, NEW b \in Words,
         LeastText(boot.code, a, b), LeastFacts(a, b)
  PROVE  LeastFacts(a, b)'
<1>1. /\ state = "RUNNING" /\ mtime \in 0 .. 17 /\ pc = TEXT + 4 * mtime
      /\ TEXT \in Nat /\ TEXT % 2 = 0 /\ MemSize \in Nat /\ TEXT + 72 <= MemSize
      /\ regs \in [Registers -> Words] /\ regs[0] = 0 /\ fregs \in [Registers -> Words]
      /\ fflags \subseteq Flags
  BY MemoryAssumption DEF Step, Going, LeastFacts, OnLine, CInv, CTypeOK, TextFits
<1>2. ASSUME Advances, mtime < 17 PROVE mtime' = mtime + 1 /\ OnLine(18)'
  BY <1>1, <1>2 DEF Advances, OnLine
<1>3. CASE mtime = 0
  <2>1. AtWord(Lui(T0, a))
    BY <1>1, <1>3 DEF LeastText, AtWord
  <2>3. T0 \in 1 .. 31 /\ a \in Words
    BY WordSizes, Named
  <2>4. Writes(T0, Wrap(Immediate(Lui(T0, a))))
    BY <2>1, <2>3, LuiRuns
  <2>5. /\ mtime' = 1
        /\ OnLine(18)'
        /\ regs' = [regs EXCEPT ![T0] = Wrap(Immediate(Lui(T0, a)))]
        /\ fregs' = fregs
        /\ fflags' = fflags
    BY <1>2, <1>3, <2>4 DEF Writes, FpSets, FpWrites, Result
  <2>6. /\ regs'[T0] = Wrap(Immediate(Lui(T0, a))) /\ regs'[S0] = regs[S0] /\ regs'[A0] = regs[A0]
        /\ regs'[S1] = regs[S1] /\ regs'[S2] = regs[S2] /\ regs'[T1] = regs[T1]
        /\ regs'[T2] = regs[T2] /\ regs'[T3] = regs[T3] /\ regs'[T4] = regs[T4]
        /\ regs'[A1] = regs[A1]
    BY <1>1, <2>5, Named DEF Registers
  <2>7. /\ fregs'[1] = fregs[1] /\ fregs'[2] = fregs[2] /\ fregs'[3] = fregs[3]
    BY <2>5
  <2> QED BY <1>3, <2>5, <2>6, <2>7 DEF LeastFacts
<1>4. CASE mtime = 1
  <2>1. AtWord(Addi(T0, a))
    BY <1>1, <1>4 DEF LeastText, AtWord
  <2>2. regs[T0] = Wrap(Immediate(Lui(T0, a)))
    BY <1>4 DEF LeastFacts
  <2>3. T0 \in 1 .. 31 /\ a \in Words
    BY WordSizes, Named
  <2>4. Writes(T0, a)
    BY <2>1, <2>2, <2>3, AddiRuns
  <2>5. /\ mtime' = 2
        /\ OnLine(18)'
        /\ regs' = [regs EXCEPT ![T0] = a]
        /\ fregs' = fregs
        /\ fflags' = fflags
    BY <1>2, <1>4, <2>4 DEF Writes, FpSets, FpWrites, Result
  <2>6. /\ regs'[T0] = a /\ regs'[S0] = regs[S0] /\ regs'[A0] = regs[A0]
        /\ regs'[S1] = regs[S1] /\ regs'[S2] = regs[S2] /\ regs'[T1] = regs[T1]
        /\ regs'[T2] = regs[T2] /\ regs'[T3] = regs[T3] /\ regs'[T4] = regs[T4]
        /\ regs'[A1] = regs[A1]
    BY <1>1, <2>5, Named DEF Registers
  <2>7. /\ fregs'[1] = fregs[1] /\ fregs'[2] = fregs[2] /\ fregs'[3] = fregs[3]
    BY <2>5
  <2> QED BY <1>4, <2>5, <2>6, <2>7 DEF LeastFacts
<1>5. CASE mtime = 2
  <2>1. AtWord(enc_r(120, 0, T0, 0, 1, OP_FP))
    BY <1>1, <1>5 DEF LeastText, AtWord
  <2>2. regs[T0] = a
    BY <1>5 DEF LeastFacts
  <2>3. FpSets(1, Result(regs[T0], {}))
    BY <2>1, MoveInRuns, InRange
  <2>4. FpSets(1, Result(a, {}))
    BY <2>2, <2>3
  <2>5. /\ mtime' = 3
        /\ OnLine(18)'
        /\ regs' = regs
        /\ fregs' = [fregs EXCEPT ![1] = a]
    BY <1>2, <1>5, <2>4 DEF Writes, FpSets, FpWrites, Result
  <2>6. /\ regs'[T0] = regs[T0] /\ regs'[S0] = regs[S0] /\ regs'[A0] = regs[A0]
        /\ regs'[S1] = regs[S1] /\ regs'[S2] = regs[S2] /\ regs'[T1] = regs[T1]
        /\ regs'[T2] = regs[T2] /\ regs'[T3] = regs[T3] /\ regs'[T4] = regs[T4]
        /\ regs'[A1] = regs[A1]
    BY <2>5
  <2>7. /\ fregs'[1] = a /\ fregs'[2] = fregs[2] /\ fregs'[3] = fregs[3]
    BY <1>1, <2>5 DEF Registers
  <2> QED BY <1>5, <2>5, <2>6, <2>7 DEF LeastFacts
<1>6. CASE mtime = 3
  <2>1. AtWord(Lui(T0, b))
    BY <1>1, <1>6 DEF LeastText, AtWord
  <2>3. T0 \in 1 .. 31 /\ b \in Words
    BY WordSizes, Named
  <2>4. Writes(T0, Wrap(Immediate(Lui(T0, b))))
    BY <2>1, <2>3, LuiRuns
  <2>5. /\ mtime' = 4
        /\ OnLine(18)'
        /\ regs' = [regs EXCEPT ![T0] = Wrap(Immediate(Lui(T0, b)))]
        /\ fregs' = fregs
        /\ fflags' = fflags
    BY <1>2, <1>6, <2>4 DEF Writes, FpSets, FpWrites, Result
  <2>6. /\ regs'[T0] = Wrap(Immediate(Lui(T0, b))) /\ regs'[S0] = regs[S0] /\ regs'[A0] = regs[A0]
        /\ regs'[S1] = regs[S1] /\ regs'[S2] = regs[S2] /\ regs'[T1] = regs[T1]
        /\ regs'[T2] = regs[T2] /\ regs'[T3] = regs[T3] /\ regs'[T4] = regs[T4]
        /\ regs'[A1] = regs[A1]
    BY <1>1, <2>5, Named DEF Registers
  <2>7. /\ fregs'[1] = fregs[1] /\ fregs'[2] = fregs[2] /\ fregs'[3] = fregs[3]
    BY <2>5
  <2> QED BY <1>6, <2>5, <2>6, <2>7 DEF LeastFacts
<1>7. CASE mtime = 4
  <2>1. AtWord(Addi(T0, b))
    BY <1>1, <1>7 DEF LeastText, AtWord
  <2>2. regs[T0] = Wrap(Immediate(Lui(T0, b)))
    BY <1>7 DEF LeastFacts
  <2>3. T0 \in 1 .. 31 /\ b \in Words
    BY WordSizes, Named
  <2>4. Writes(T0, b)
    BY <2>1, <2>2, <2>3, AddiRuns
  <2>5. /\ mtime' = 5
        /\ OnLine(18)'
        /\ regs' = [regs EXCEPT ![T0] = b]
        /\ fregs' = fregs
        /\ fflags' = fflags
    BY <1>2, <1>7, <2>4 DEF Writes, FpSets, FpWrites, Result
  <2>6. /\ regs'[T0] = b /\ regs'[S0] = regs[S0] /\ regs'[A0] = regs[A0]
        /\ regs'[S1] = regs[S1] /\ regs'[S2] = regs[S2] /\ regs'[T1] = regs[T1]
        /\ regs'[T2] = regs[T2] /\ regs'[T3] = regs[T3] /\ regs'[T4] = regs[T4]
        /\ regs'[A1] = regs[A1]
    BY <1>1, <2>5, Named DEF Registers
  <2>7. /\ fregs'[1] = fregs[1] /\ fregs'[2] = fregs[2] /\ fregs'[3] = fregs[3]
    BY <2>5
  <2> QED BY <1>7, <2>5, <2>6, <2>7 DEF LeastFacts
<1>8. CASE mtime = 5
  <2>1. AtWord(enc_r(120, 0, T0, 0, 2, OP_FP))
    BY <1>1, <1>8 DEF LeastText, AtWord
  <2>2. regs[T0] = b
    BY <1>8 DEF LeastFacts
  <2>3. FpSets(2, Result(regs[T0], {}))
    BY <2>1, MoveInRuns, InRange
  <2>4. FpSets(2, Result(b, {}))
    BY <2>2, <2>3
  <2>5. /\ mtime' = 6
        /\ OnLine(18)'
        /\ regs' = regs
        /\ fregs' = [fregs EXCEPT ![2] = b]
    BY <1>2, <1>8, <2>4 DEF Writes, FpSets, FpWrites, Result
  <2>6. /\ regs'[T0] = regs[T0] /\ regs'[S0] = regs[S0] /\ regs'[A0] = regs[A0]
        /\ regs'[S1] = regs[S1] /\ regs'[S2] = regs[S2] /\ regs'[T1] = regs[T1]
        /\ regs'[T2] = regs[T2] /\ regs'[T3] = regs[T3] /\ regs'[T4] = regs[T4]
        /\ regs'[A1] = regs[A1]
    BY <2>5
  <2>7. /\ fregs'[1] = fregs[1] /\ fregs'[2] = b /\ fregs'[3] = fregs[3]
    BY <1>1, <2>5 DEF Registers
  <2> QED BY <1>8, <2>5, <2>6, <2>7 DEF LeastFacts
<1>9. CASE mtime = 6
  <2>1. AtWord(CsrWord(5, 0, CSR_FFLAGS, 0))
    BY <1>1, <1>9 DEF LeastText, AtWord
  <2>3. 0 \in Registers
    BY DEF Registers
  <2>4. Advances /\ fflags' = {} /\ regs' = regs /\ fregs' = fregs
    BY <2>1, <2>3, FlagsSet, NoBits
  <2>5. /\ mtime' = 7
        /\ OnLine(18)'
        /\ regs' = regs
        /\ fregs' = fregs
        /\ fflags' = {}
    BY <1>2, <1>9, <2>4 DEF Writes, FpSets, FpWrites, Result
  <2>6. /\ regs'[T0] = regs[T0] /\ regs'[S0] = regs[S0] /\ regs'[A0] = regs[A0]
        /\ regs'[S1] = regs[S1] /\ regs'[S2] = regs[S2] /\ regs'[T1] = regs[T1]
        /\ regs'[T2] = regs[T2] /\ regs'[T3] = regs[T3] /\ regs'[T4] = regs[T4]
        /\ regs'[A1] = regs[A1]
    BY <2>5
  <2>7. /\ fregs'[1] = fregs[1] /\ fregs'[2] = fregs[2] /\ fregs'[3] = fregs[3]
    BY <2>5
  <2> QED BY <1>9, <2>5, <2>6, <2>7 DEF LeastFacts
<1>10. CASE mtime = 7
  <2>1. AtWord(enc_r(20, 2, 1, 0, 3, OP_FP))
    BY <1>1, <1>10 DEF LeastText, AtWord
  <2>2. fregs[1] = a /\ fregs[2] = b /\ fflags = {}
    BY <1>10 DEF LeastFacts
  <2>r. 3 \in 1 .. 31 /\ 1 \in Registers /\ 2 \in Registers
    BY DEF Registers
  <2>3. FpSets(3, fp_minmax(fregs[1], fregs[2], FALSE))
    BY <2>1, <2>r, MinRuns
  <2>z. FpSets(3, fp_minmax(a, b, FALSE))
    BY <2>2, <2>3
  <2>4. Advances /\ fregs' = [fregs EXCEPT ![3] = Lesser(a, b)] /\ regs' = regs
        /\ fflags' = LesserFlags(a, b)
    BY <2>2, <2>z DEF FpSets, Lesser, LesserFlags
  <2>5. /\ mtime' = 8
        /\ OnLine(18)'
        /\ regs' = regs
        /\ fregs' = [fregs EXCEPT ![3] = Lesser(a, b)]
        /\ fflags' = LesserFlags(a, b)
    BY <1>2, <1>10, <2>4 DEF Writes, FpSets, FpWrites, Result
  <2>6. /\ regs'[T0] = regs[T0] /\ regs'[S0] = regs[S0] /\ regs'[A0] = regs[A0]
        /\ regs'[S1] = regs[S1] /\ regs'[S2] = regs[S2] /\ regs'[T1] = regs[T1]
        /\ regs'[T2] = regs[T2] /\ regs'[T3] = regs[T3] /\ regs'[T4] = regs[T4]
        /\ regs'[A1] = regs[A1]
    BY <2>5
  <2>7. /\ fregs'[1] = fregs[1] /\ fregs'[2] = fregs[2] /\ fregs'[3] = Lesser(a, b)
    BY <1>1, <2>5 DEF Registers
  <2> QED BY <1>10, <2>5, <2>6, <2>7 DEF LeastFacts
<1>11. CASE mtime = 8
  <2>1. AtWord(CsrWord(2, S0, CSR_FFLAGS, 0))
    BY <1>1, <1>11 DEF LeastText, AtWord
  <2>2. fflags = LesserFlags(a, b)
    BY <1>11 DEF LeastFacts
  <2>3. Advances /\ regs' = [regs EXCEPT ![S0] = Number(fflags)] /\ fregs' = fregs
    BY <2>1, FlagsRead, InRange
  <2>4. Advances /\ regs' = [regs EXCEPT ![S0] = Number(LesserFlags(a, b))] /\ fregs' = fregs
    BY <2>2, <2>3
  <2>5. /\ mtime' = 9
        /\ OnLine(18)'
        /\ regs' = [regs EXCEPT ![S0] = Number(LesserFlags(a, b))]
        /\ fregs' = fregs
    BY <1>2, <1>11, <2>4 DEF Writes, FpSets, FpWrites, Result
  <2>6. /\ regs'[T0] = regs[T0] /\ regs'[S0] = Number(LesserFlags(a, b)) /\ regs'[A0] = regs[A0]
        /\ regs'[S1] = regs[S1] /\ regs'[S2] = regs[S2] /\ regs'[T1] = regs[T1]
        /\ regs'[T2] = regs[T2] /\ regs'[T3] = regs[T3] /\ regs'[T4] = regs[T4]
        /\ regs'[A1] = regs[A1]
    BY <1>1, <2>5, Named DEF Registers
  <2>7. /\ fregs'[1] = fregs[1] /\ fregs'[2] = fregs[2] /\ fregs'[3] = fregs[3]
    BY <2>5
  <2> QED BY <1>11, <2>5, <2>6, <2>7 DEF LeastFacts
<1>12. CASE mtime = 9
  <2>1. AtWord(enc_r(112, 0, 3, 0, A0, OP_FP))
    BY <1>1, <1>12 DEF LeastText, AtWord
  <2>2. fregs[3] = Lesser(a, b)
    BY <1>12 DEF LeastFacts
  <2>3. FpWrites(A0, Result(fregs[3], {}))
    BY <2>1, MoveOutRuns, InRange DEF Registers
  <2>4. FpWrites(A0, Result(Lesser(a, b), {}))
    BY <2>2, <2>3
  <2>5. /\ mtime' = 10
        /\ OnLine(18)'
        /\ regs' = [regs EXCEPT ![A0] = Lesser(a, b)]
        /\ fregs' = fregs
    BY <1>2, <1>12, <2>4 DEF Writes, FpSets, FpWrites, Result
  <2>6. /\ regs'[T0] = regs[T0] /\ regs'[S0] = regs[S0] /\ regs'[A0] = Lesser(a, b)
        /\ regs'[S1] = regs[S1] /\ regs'[S2] = regs[S2] /\ regs'[T1] = regs[T1]
        /\ regs'[T2] = regs[T2] /\ regs'[T3] = regs[T3] /\ regs'[T4] = regs[T4]
        /\ regs'[A1] = regs[A1]
    BY <1>1, <2>5, Named DEF Registers
  <2>7. /\ fregs'[1] = fregs[1] /\ fregs'[2] = fregs[2] /\ fregs'[3] = fregs[3]
    BY <2>5
  <2> QED BY <1>12, <2>5, <2>6, <2>7 DEF LeastFacts
<1>13. CASE mtime = 10
  <2>1. AtWord(enc_r(80, 1, 3, 0, S1, OP_FP))
    BY <1>1, <1>13 DEF LeastText, AtWord
  <2>2. fregs[3] = Lesser(a, b) /\ fregs[1] = a
    BY <1>13 DEF LeastFacts
  <2>r. 0 \in 0 .. 2 /\ S1 \in 1 .. 31 /\ 3 \in Registers /\ 1 \in Registers
    BY InRange DEF Registers
  <2>3. FpWrites(S1, fp_compare(0, fregs[3], fregs[1]))
    BY <2>1, <2>r, CompareRuns
  <2>4. FpWrites(S1, fp_compare(0, Lesser(a, b), a))
    BY <2>2, <2>3
  <2>5. /\ mtime' = 11
        /\ OnLine(18)'
        /\ regs' = [regs EXCEPT ![S1] = fp_compare(0, Lesser(a, b), a).bits]
        /\ fregs' = fregs
    BY <1>2, <1>13, <2>4 DEF Writes, FpSets, FpWrites, Result
  <2>6. /\ regs'[T0] = regs[T0] /\ regs'[S0] = regs[S0] /\ regs'[A0] = regs[A0]
        /\ regs'[S1] = fp_compare(0, Lesser(a, b), a).bits /\ regs'[S2] = regs[S2] /\ regs'[T1] = regs[T1]
        /\ regs'[T2] = regs[T2] /\ regs'[T3] = regs[T3] /\ regs'[T4] = regs[T4]
        /\ regs'[A1] = regs[A1]
    BY <1>1, <2>5, Named DEF Registers
  <2>7. /\ fregs'[1] = fregs[1] /\ fregs'[2] = fregs[2] /\ fregs'[3] = fregs[3]
    BY <2>5
  <2> QED BY <1>13, <2>5, <2>6, <2>7 DEF LeastFacts
<1>14. CASE mtime = 11
  <2>1. AtWord(enc_r(80, 2, 3, 0, S2, OP_FP))
    BY <1>1, <1>14 DEF LeastText, AtWord
  <2>2. fregs[3] = Lesser(a, b) /\ fregs[2] = b
    BY <1>14 DEF LeastFacts
  <2>r. 0 \in 0 .. 2 /\ S2 \in 1 .. 31 /\ 3 \in Registers /\ 2 \in Registers
    BY InRange DEF Registers
  <2>3. FpWrites(S2, fp_compare(0, fregs[3], fregs[2]))
    BY <2>1, <2>r, CompareRuns
  <2>4. FpWrites(S2, fp_compare(0, Lesser(a, b), b))
    BY <2>2, <2>3
  <2>5. /\ mtime' = 12
        /\ OnLine(18)'
        /\ regs' = [regs EXCEPT ![S2] = fp_compare(0, Lesser(a, b), b).bits]
        /\ fregs' = fregs
    BY <1>2, <1>14, <2>4 DEF Writes, FpSets, FpWrites, Result
  <2>6. /\ regs'[T0] = regs[T0] /\ regs'[S0] = regs[S0] /\ regs'[A0] = regs[A0]
        /\ regs'[S1] = regs[S1] /\ regs'[S2] = fp_compare(0, Lesser(a, b), b).bits /\ regs'[T1] = regs[T1]
        /\ regs'[T2] = regs[T2] /\ regs'[T3] = regs[T3] /\ regs'[T4] = regs[T4]
        /\ regs'[A1] = regs[A1]
    BY <1>1, <2>5, Named DEF Registers
  <2>7. /\ fregs'[1] = fregs[1] /\ fregs'[2] = fregs[2] /\ fregs'[3] = fregs[3]
    BY <2>5
  <2> QED BY <1>14, <2>5, <2>6, <2>7 DEF LeastFacts
<1>15. CASE mtime = 12
  <2>1. AtWord(enc_r(80, 1, 3, 2, T1, OP_FP))
    BY <1>1, <1>15 DEF LeastText, AtWord
  <2>2. fregs[3] = Lesser(a, b) /\ fregs[1] = a
    BY <1>15 DEF LeastFacts
  <2>r. 2 \in 0 .. 2 /\ T1 \in 1 .. 31 /\ 3 \in Registers /\ 1 \in Registers
    BY InRange DEF Registers
  <2>3. FpWrites(T1, fp_compare(2, fregs[3], fregs[1]))
    BY <2>1, <2>r, CompareRuns
  <2>4. FpWrites(T1, fp_compare(2, Lesser(a, b), a))
    BY <2>2, <2>3
  <2>5. /\ mtime' = 13
        /\ OnLine(18)'
        /\ regs' = [regs EXCEPT ![T1] = fp_compare(2, Lesser(a, b), a).bits]
        /\ fregs' = fregs
    BY <1>2, <1>15, <2>4 DEF Writes, FpSets, FpWrites, Result
  <2>6. /\ regs'[T0] = regs[T0] /\ regs'[S0] = regs[S0] /\ regs'[A0] = regs[A0]
        /\ regs'[S1] = regs[S1] /\ regs'[S2] = regs[S2] /\ regs'[T1] = fp_compare(2, Lesser(a, b), a).bits
        /\ regs'[T2] = regs[T2] /\ regs'[T3] = regs[T3] /\ regs'[T4] = regs[T4]
        /\ regs'[A1] = regs[A1]
    BY <1>1, <2>5, Named DEF Registers
  <2>7. /\ fregs'[1] = fregs[1] /\ fregs'[2] = fregs[2] /\ fregs'[3] = fregs[3]
    BY <2>5
  <2> QED BY <1>15, <2>5, <2>6, <2>7 DEF LeastFacts
<1>16. CASE mtime = 13
  <2>1. AtWord(enc_r(80, 2, 3, 2, T2, OP_FP))
    BY <1>1, <1>16 DEF LeastText, AtWord
  <2>2. fregs[3] = Lesser(a, b) /\ fregs[2] = b
    BY <1>16 DEF LeastFacts
  <2>r. 2 \in 0 .. 2 /\ T2 \in 1 .. 31 /\ 3 \in Registers /\ 2 \in Registers
    BY InRange DEF Registers
  <2>3. FpWrites(T2, fp_compare(2, fregs[3], fregs[2]))
    BY <2>1, <2>r, CompareRuns
  <2>4. FpWrites(T2, fp_compare(2, Lesser(a, b), b))
    BY <2>2, <2>3
  <2>5. /\ mtime' = 14
        /\ OnLine(18)'
        /\ regs' = [regs EXCEPT ![T2] = fp_compare(2, Lesser(a, b), b).bits]
        /\ fregs' = fregs
    BY <1>2, <1>16, <2>4 DEF Writes, FpSets, FpWrites, Result
  <2>6. /\ regs'[T0] = regs[T0] /\ regs'[S0] = regs[S0] /\ regs'[A0] = regs[A0]
        /\ regs'[S1] = regs[S1] /\ regs'[S2] = regs[S2] /\ regs'[T1] = regs[T1]
        /\ regs'[T2] = fp_compare(2, Lesser(a, b), b).bits /\ regs'[T3] = regs[T3] /\ regs'[T4] = regs[T4]
        /\ regs'[A1] = regs[A1]
    BY <1>1, <2>5, Named DEF Registers
  <2>7. /\ fregs'[1] = fregs[1] /\ fregs'[2] = fregs[2] /\ fregs'[3] = fregs[3]
    BY <2>5
  <2> QED BY <1>16, <2>5, <2>6, <2>7 DEF LeastFacts
<1>17. CASE mtime = 14
  <2>1. AtWord(enc_r(80, 2, 1, 1, T3, OP_FP))
    BY <1>1, <1>17 DEF LeastText, AtWord
  <2>2. fregs[1] = a /\ fregs[2] = b
    BY <1>17 DEF LeastFacts
  <2>r. 1 \in 0 .. 2 /\ T3 \in 1 .. 31 /\ 1 \in Registers /\ 2 \in Registers
    BY InRange DEF Registers
  <2>3. FpWrites(T3, fp_compare(1, fregs[1], fregs[2]))
    BY <2>1, <2>r, CompareRuns
  <2>4. FpWrites(T3, fp_compare(1, a, b))
    BY <2>2, <2>3
  <2>5. /\ mtime' = 15
        /\ OnLine(18)'
        /\ regs' = [regs EXCEPT ![T3] = fp_compare(1, a, b).bits]
        /\ fregs' = fregs
    BY <1>2, <1>17, <2>4 DEF Writes, FpSets, FpWrites, Result
  <2>6. /\ regs'[T0] = regs[T0] /\ regs'[S0] = regs[S0] /\ regs'[A0] = regs[A0]
        /\ regs'[S1] = regs[S1] /\ regs'[S2] = regs[S2] /\ regs'[T1] = regs[T1]
        /\ regs'[T2] = regs[T2] /\ regs'[T3] = fp_compare(1, a, b).bits /\ regs'[T4] = regs[T4]
        /\ regs'[A1] = regs[A1]
    BY <1>1, <2>5, Named DEF Registers
  <2>7. /\ fregs'[1] = fregs[1] /\ fregs'[2] = fregs[2] /\ fregs'[3] = fregs[3]
    BY <2>5
  <2> QED BY <1>17, <2>5, <2>6, <2>7 DEF LeastFacts
<1>18. CASE mtime = 15
  <2>1. AtWord(enc_r(80, 1, 2, 1, T4, OP_FP))
    BY <1>1, <1>18 DEF LeastText, AtWord
  <2>2. fregs[2] = b /\ fregs[1] = a
    BY <1>18 DEF LeastFacts
  <2>r. 1 \in 0 .. 2 /\ T4 \in 1 .. 31 /\ 2 \in Registers /\ 1 \in Registers
    BY InRange DEF Registers
  <2>3. FpWrites(T4, fp_compare(1, fregs[2], fregs[1]))
    BY <2>1, <2>r, CompareRuns
  <2>4. FpWrites(T4, fp_compare(1, b, a))
    BY <2>2, <2>3
  <2>5. /\ mtime' = 16
        /\ OnLine(18)'
        /\ regs' = [regs EXCEPT ![T4] = fp_compare(1, b, a).bits]
        /\ fregs' = fregs
    BY <1>2, <1>18, <2>4 DEF Writes, FpSets, FpWrites, Result
  <2>6. /\ regs'[T0] = regs[T0] /\ regs'[S0] = regs[S0] /\ regs'[A0] = regs[A0]
        /\ regs'[S1] = regs[S1] /\ regs'[S2] = regs[S2] /\ regs'[T1] = regs[T1]
        /\ regs'[T2] = regs[T2] /\ regs'[T3] = regs[T3] /\ regs'[T4] = fp_compare(1, b, a).bits
        /\ regs'[A1] = regs[A1]
    BY <1>1, <2>5, Named DEF Registers
  <2>7. /\ fregs'[1] = fregs[1] /\ fregs'[2] = fregs[2] /\ fregs'[3] = fregs[3]
    BY <2>5
  <2> QED BY <1>18, <2>5, <2>6, <2>7 DEF LeastFacts
<1>19. CASE mtime = 16
  <2>1. AtWord(enc_r(112, 0, 3, 1, A1, OP_FP))
    BY <1>1, <1>19 DEF LeastText, AtWord
  <2>2. fregs[3] = Lesser(a, b)
    BY <1>19 DEF LeastFacts
  <2>3. FpWrites(A1, Result(Pow2[fp_classify(fregs[3])], {}))
    BY <2>1, ClassRuns, InRange DEF Registers
  <2>4. FpWrites(A1, Result(Pow2[fp_classify(Lesser(a, b))], {}))
    BY <2>2, <2>3
  <2>5. /\ mtime' = 17
        /\ OnLine(18)'
        /\ regs' = [regs EXCEPT ![A1] = Pow2[fp_classify(Lesser(a, b))]]
        /\ fregs' = fregs
    BY <1>2, <1>19, <2>4 DEF Writes, FpSets, FpWrites, Result
  <2>6. /\ regs'[T0] = regs[T0] /\ regs'[S0] = regs[S0] /\ regs'[A0] = regs[A0]
        /\ regs'[S1] = regs[S1] /\ regs'[S2] = regs[S2] /\ regs'[T1] = regs[T1]
        /\ regs'[T2] = regs[T2] /\ regs'[T3] = regs[T3] /\ regs'[T4] = regs[T4]
        /\ regs'[A1] = Pow2[fp_classify(Lesser(a, b))]
    BY <1>1, <2>5, Named DEF Registers
  <2>7. /\ fregs'[1] = fregs[1] /\ fregs'[2] = fregs[2] /\ fregs'[3] = fregs[3]
    BY <2>5
  <2> QED BY <1>19, <2>5, <2>6, <2>7 DEF LeastFacts
<1>20. CASE mtime = 17
  <2>1. AtWord(EBREAK)
    BY <1>1, <1>20 DEF LeastText, AtWord
  <2>5. mtime' = mtime + 1 /\ state' = "HALTED" /\ regs' = regs /\ fregs' = fregs /\ fflags' = fflags /\ mem' = mem
    BY <2>1, EbreakRuns
  <2>6. OnLine(18)' /\ mtime' = 18
    BY <1>20, <2>5 DEF OnLine
  <2> QED BY <1>20, <2>5, <2>6 DEF LeastFacts
<1> QED BY <1>1, <1>3, <1>4, <1>5, <1>6, <1>7, <1>8, <1>9, <1>10, <1>11, <1>12, <1>13, <1>14, <1>15,
           <1>16, <1>17, <1>18, <1>19, <1>20
\* Patterns as numbers: two with one value are the same, or the two zeros.
LEMMA OrderIs ==
  ASSUME NEW a \in Words, NEW b \in Words
  PROVE  /\ Order(a) \in Int /\ a \in Int /\ Half \in Nat \ {0} /\ a % Half \in 0 .. Half - 1
         /\ a = Half * sign(a) + (a % Half) /\ sign(a) \in {0, 1}
         /\ Order(a) = Order(b) => a = b \/ {a, b} = {0, Half}
<1>1. /\ sign(a) \in {0, 1} /\ a % Half \in 0 .. Half - 1 /\ a = sign(a) * Half + (a % Half)
      /\ sign(b) \in {0, 1} /\ b % Half \in 0 .. Half - 1 /\ b = sign(b) * Half + (b % Half)
  BY SignType
<1>2. Half \in Nat \ {0} /\ a \in Int /\ b \in Int
  BY WordSizes
<1>3. a = Half * sign(a) + (a % Half) /\ b = Half * sign(b) + (b % Half)
  BY <1>1, <1>2
<1> DEFINE s == sign(a)
           t == sign(b)
           x == a % Half
           y == b % Half
<1>4. /\ s \in {0, 1} /\ x \in 0 .. Half - 1 /\ a = Half * s + x
      /\ t \in {0, 1} /\ y \in 0 .. Half - 1 /\ b = Half * t + y
      /\ Order(a) = (IF s = 0 THEN a ELSE Half - a) /\ Order(b) = (IF t = 0 THEN b ELSE Half - b)
  BY <1>1, <1>3 DEF Order
<1> HIDE DEF s, t, x, y
<1>5. Order(a) \in Int
  BY ONLY <1>2, <1>4
<1>6. Order(a) = Order(b) => a = b \/ {a, b} = {0, Half}
  <2>1. CASE s = t
    <3>1. Order(a) = Order(b) => a = b
      BY ONLY <1>2, <1>4, <2>1
    <3> QED BY <3>1
  <2>2. CASE s = 0 /\ t = 1
    <3>1. Order(a) = Order(b) => a = 0 /\ b = Half
      BY ONLY <1>2, <1>4, <2>2
    <3> QED BY <3>1
  <2>3. CASE s = 1 /\ t = 0
    <3>1. Order(a) = Order(b) => a = Half /\ b = 0
      BY ONLY <1>2, <1>4, <2>3
    <3> QED BY <3>1
  <2> QED BY <1>4, <2>1, <2>2, <2>3
<1> QED BY <1>1, <1>2, <1>3, <1>5, <1>6

\* The zeros have one value, and only they have no magnitude.
LEMMA Zeros ==
  /\ Order(0) = 0 /\ Order(Half) = 0 /\ sign(0) = 0 /\ sign(Half) = 1
  /\ 0 % Half = 0 /\ Half % Half = 0 /\ 0 \in Words /\ Half \in Words
  /\ \A a \in Words : a % Half = 0 => a \in {0, Half}
<1>1. Half \in Nat \ {0} /\ Size = 2 * Half /\ Words = 0 .. Size - 1
  BY WordSizes
<1>2. 0 \in Words /\ Half \in Words
  BY <1>1
<1>3. 0 \div Half = 0 /\ 0 % Half = 0
  BY <1>1
<1>4. Half \div Half = 1 /\ Half % Half = 0
  <2>1. Half = Half * 1 + 0
    BY <1>1
  <2> QED BY <1>1, <2>1, DivisionUnique
<1>5. ASSUME NEW a \in Words, a % Half = 0 PROVE a \in {0, Half}
  <2>1. sign(a) \in {0, 1} /\ a = sign(a) * Half + 0
    BY <1>5, SignType
  <2>2. CASE sign(a) = 0
    BY <1>1, <2>1, <2>2
  <2>3. CASE sign(a) = 1
    BY <1>1, <2>1, <2>3
  <2> QED BY <2>1, <2>2, <2>3
<1> QED BY <1>1, <1>2, <1>3, <1>4, <1>5 DEF Order, sign

\* The lesser of two numbers is one of them, and no greater than either; the negative
\* zero is less than the other.
LEMMA LesserIs ==
  ASSUME NEW a \in Words, NEW b \in Words, ~bits_is_nan(a), ~bits_is_nan(b)
  PROVE  /\ Lesser(a, b) \in {a, b} /\ LesserFlags(a, b) = {}
         /\ Order(Lesser(a, b)) <= Order(a) /\ Order(Lesser(a, b)) <= Order(b)
         /\ Order(Lesser(a, b)) \in {Order(a), Order(b)}
         /\ Order(a) = Order(b) /\ (a = Half \/ b = Half) => Lesser(a, b) = Half
<1>1. Order(a) \in Int /\ Order(b) \in Int /\ Half \in Nat \ {0} /\ a \in Int /\ b \in Int
  BY OrderIs
<1>2. CASE Less(a, b)
  <2>1. Lesser(a, b) = a /\ LesserFlags(a, b) = {}
    BY <1>2 DEF Lesser, LesserFlags, fp_minmax, Result
  <2>2. Order(a) < Order(b)
    BY <1>2 DEF Less
  <2> QED BY <1>1, <2>1, <2>2
<1>3. CASE Less(b, a)
  <2>2. Order(b) < Order(a)
    BY <1>3 DEF Less
  <2>1. Lesser(a, b) = b /\ LesserFlags(a, b) = {}
    <3>1. ~Less(a, b)
      BY <1>1, <2>2 DEF Less
    <3> QED BY <1>3, <3>1 DEF Lesser, LesserFlags, fp_minmax, Result
  <2> QED BY <1>1, <2>1, <2>2
<1>4. CASE ~Less(a, b) /\ ~Less(b, a)
  <2>1. Order(a) = Order(b)
    BY <1>1, <1>4 DEF Less
  <2>2. /\ Lesser(a, b) = (a % Half) + (IF sign(a) = 1 \/ sign(b) = 1 THEN Half ELSE 0)
        /\ LesserFlags(a, b) = {}
    BY <1>4 DEF Lesser, LesserFlags, fp_minmax, Result
  <2>3. CASE a = b
    <3>1. sign(a) \in {0, 1} /\ a % Half \in Int /\ a = Half * sign(a) + (a % Half)
      BY OrderIs
    <3>2. Lesser(a, b) = a
      BY <1>1, <2>2, <2>3, <3>1
    <3> QED BY <1>1, <2>1, <2>2, <2>3, <3>2
  <2>4. CASE {a, b} = {0, Half}
    <3>1. a \in {0, Half} /\ b \in {0, Half} /\ (a = Half \/ b = Half)
      BY <2>4
    <3>2. a % Half = 0 /\ (sign(a) = 1 \/ sign(b) = 1)
      BY <3>1, Zeros
    <3>3. Lesser(a, b) = Half
      BY <1>1, <2>2, <3>2
    <3> QED BY <1>1, <2>1, <2>2, <3>1, <3>3
  <2> QED BY <2>1, <2>3, <2>4, OrderIs
<1> QED BY <1>2, <1>3, <1>4

\* Two NaNs give the quiet one, which is its own class.
LEMMA QuietNaN ==
  fp_classify(FP_CANON_NAN) = 9
<1> DEFINE h == FracCount \div 2
<1>1. FracCount \in Nat \ {0} /\ FracCount >= 2 /\ ExpCount \in Nat /\ ExpCount >= 1
  BY FormatSizes, Widths
<1>2. h \in 0 .. FracCount - 1 /\ h # 0
  BY <1>1
<1> HIDE DEF h
<1>3. ExpMax \in 0 .. ExpCount - 1 /\ FP_CANON_NAN = ExpMax * FracCount + h
  BY <1>1 DEF ExpMax, FP_CANON_NAN, h
<1>4. ExpMax * FracCount + h \in 0 .. Half - 1
  BY <1>2, <1>3, PatternType
<1>5. FP_CANON_NAN \in Int /\ FP_CANON_NAN % Half = FP_CANON_NAN
  BY <1>3, <1>4, WordSizes
<1>6. FP_CANON_NAN = FracCount * ExpMax + h /\ ExpMax \in Int
  BY <1>1, <1>2, <1>3
<1>7. exp(FP_CANON_NAN) = ExpMax /\ frac(FP_CANON_NAN) = h
  BY ONLY <1>1, <1>2, <1>5, <1>6, DivisionUnique DEF exp, frac
<1>8. ~(h < FracCount \div 2)
  BY <1>1 DEF h
<1> QED BY <1>2, <1>7, <1>8 DEF fp_classify, bits_is_snan

\* When the program of the lesser is booted, it runs as above.
LeastInv ==
    boot.name = "least" =>
        \E a \in Words, b \in Words :
            /\ boot.args = <<a, b>> /\ LeastText(boot.code, a, b)
            /\ LeastFacts(a, b)

\* The promises at the end.
LEMMA LeastEnds ==
  ASSUME CInv, LeastInv
  PROVE  MinIsLeast
<1> SUFFICES ASSUME Ended("least") PROVE MinIsLeast
  BY DEF MinIsLeast
<1>1. PICK a \in Words, b \in Words : boot.args = <<a, b>> /\ LeastFacts(a, b)
  BY DEF Ended, LeastInv
<1>2. mtime = 18
  BY <1>1 DEF Ended, LeastFacts, OnLine
<1>3. /\ regs[A0] = Lesser(a, b) /\ regs[S0] = Number(LesserFlags(a, b))
      /\ regs[S1] = fp_compare(0, Lesser(a, b), a).bits
      /\ regs[S2] = fp_compare(0, Lesser(a, b), b).bits
      /\ regs[T1] = fp_compare(2, Lesser(a, b), a).bits
      /\ regs[T2] = fp_compare(2, Lesser(a, b), b).bits
      /\ regs[T3] = fp_compare(1, a, b).bits
      /\ regs[T4] = fp_compare(1, b, a).bits
      /\ regs[A1] = Pow2[fp_classify(Lesser(a, b))]
  BY <1>1, <1>2 DEF LeastFacts
<1>4. boot.args[1] = a /\ boot.args[2] = b
  BY <1>1
<1>5. Order(a) \in Int /\ Order(b) \in Int
  BY OrderIs
<1>6. Number({}) = 0 /\ Number({FP_NV}) = 16
  BY SmallPowers DEF Number, FlagBit, FP_NX, FP_UF, FP_OF, FP_DZ, FP_NV
<1>7. ~(regs[T3] = 1 /\ regs[T4] = 1)
  BY <1>3, <1>5 DEF fp_compare, Result, Less, Truth
<1>8. CASE bits_is_nan(a) /\ bits_is_nan(b)
  <2>1. Lesser(a, b) = FP_CANON_NAN
    BY <1>8 DEF Lesser, fp_minmax, Result
  <2>2. regs[A0] = FP_CANON_NAN /\ regs[A1] = Pow2[9]
    BY <1>3, <2>1, QuietNaN
  <2> QED BY <1>4, <1>7, <1>8, <2>2 DEF MinIsLeast
<1>9. CASE bits_is_nan(a) /\ ~bits_is_nan(b)
  <2>1. Lesser(a, b) = b /\ LesserFlags(a, b) = Raised(FP_NV, bits_is_snan(a))
    BY <1>9 DEF Lesser, LesserFlags, fp_minmax, Result
  <2>2. regs[S0] = (IF bits_is_snan(a) \/ bits_is_snan(b) THEN 16 ELSE 0)
    <3>1. ~bits_is_snan(b)
      BY <1>9 DEF bits_is_snan
    <3>2. CASE bits_is_snan(a)
      <4>1. Raised(FP_NV, bits_is_snan(a)) = {FP_NV}
        BY <3>2 DEF Raised
      <4> QED BY <1>3, <1>6, <2>1, <3>2, <4>1
    <3>3. CASE ~bits_is_snan(a)
      <4>1. Raised(FP_NV, bits_is_snan(a)) = {}
        BY <3>3 DEF Raised
      <4> QED BY <1>3, <1>6, <2>1, <3>1, <3>3, <4>1
    <3> QED BY <3>2, <3>3
  <2> QED BY <1>3, <1>4, <1>7, <1>9, <2>1, <2>2 DEF MinIsLeast
<1>10. CASE ~bits_is_nan(a) /\ bits_is_nan(b)
  <2>1. Lesser(a, b) = a /\ LesserFlags(a, b) = Raised(FP_NV, bits_is_snan(b))
    BY <1>10 DEF Lesser, LesserFlags, fp_minmax, Result
  <2>2. regs[S0] = (IF bits_is_snan(a) \/ bits_is_snan(b) THEN 16 ELSE 0)
    <3>1. ~bits_is_snan(a)
      BY <1>10 DEF bits_is_snan
    <3>2. CASE bits_is_snan(b)
      <4>1. Raised(FP_NV, bits_is_snan(b)) = {FP_NV}
        BY <3>2 DEF Raised
      <4> QED BY <1>3, <1>6, <2>1, <3>2, <4>1
    <3>3. CASE ~bits_is_snan(b)
      <4>1. Raised(FP_NV, bits_is_snan(b)) = {}
        BY <3>3 DEF Raised
      <4> QED BY <1>3, <1>6, <2>1, <3>1, <3>3, <4>1
    <3> QED BY <3>2, <3>3
  <2> QED BY <1>3, <1>4, <1>7, <1>10, <2>1, <2>2 DEF MinIsLeast
<1>11. CASE ~bits_is_nan(a) /\ ~bits_is_nan(b)
  <2> DEFINE m == Lesser(a, b)
  <2>1. /\ m \in {a, b} /\ Order(m) <= Order(a) /\ Order(m) <= Order(b)
        /\ Order(m) \in {Order(a), Order(b)}
    BY <1>11, LesserIs
  <2>2. ~bits_is_nan(m)
    BY <1>11, <2>1
  <2>3. /\ regs[S1] = Truth(Order(m) <= Order(a)) /\ regs[S2] = Truth(Order(m) <= Order(b))
        /\ regs[T1] = Truth(Order(m) = Order(a)) /\ regs[T2] = Truth(Order(m) = Order(b))
        /\ regs[T3] = Truth(Order(a) < Order(b))
    <3>1. /\ fp_compare(0, m, a).bits = Truth(Order(m) <= Order(a))
          /\ fp_compare(0, m, b).bits = Truth(Order(m) <= Order(b))
      BY <1>11, <2>2 DEF fp_compare, Result, Truth
    <3>2. /\ fp_compare(2, m, a).bits = Truth(Order(m) = Order(a))
          /\ fp_compare(2, m, b).bits = Truth(Order(m) = Order(b))
      BY <1>11, <2>2 DEF fp_compare, Result, Truth
    <3>3. fp_compare(1, a, b).bits = Truth(Order(a) < Order(b))
      BY <1>11 DEF fp_compare, Result, Truth, Less
    <3> QED BY <1>3, <3>1, <3>2, <3>3
  <2>4. /\ regs[S1] = 1 /\ regs[S2] = 1 /\ (regs[T1] = 1 \/ regs[T2] = 1)
        /\ (regs[T3] = 1 => regs[T2] = 0)
    BY <1>5, <2>1, <2>3 DEF Truth
  <2>5. ASSUME {a % Half, b % Half} = {0}, Half \in {a, b} PROVE regs[A0] = Half
    <3>1. a % Half = 0 /\ b % Half = 0 /\ (a = Half \/ b = Half)
      BY <2>5
    <3>2. Order(a) = 0 /\ Order(b) = 0
      <4>1. a \in {0, Half} /\ b \in {0, Half}
        BY <3>1, Zeros
      <4> QED BY <4>1, Zeros
    <3> QED BY <1>3, <1>11, <3>1, <3>2, LesserIs
  <2>6. {a % Half, b % Half} = {0} /\ Half \in {a, b} => regs[A0] = Half
    BY <2>5
  <2>7. regs[A0] \in {a, b}
    BY <1>3, <2>1
  <2>8. bits_is_nan(a) = bits_is_nan(b)
    BY <1>11 DEF bits_is_nan
  <2> QED BY <1>4, <1>7, <1>11, <2>4, <2>6, <2>7, <2>8 DEF MinIsLeast
<1> QED BY <1>8, <1>9, <1>10, <1>11

\* For all operands and every format of numbers, fmin and the comparisons (fpu.c)
\* agree on which of two numbers is the lesser, whatever else is booted.
THEOREM LeastIsLeast ==
  ASSUME HostTyped, XLEN <= 32, TextFits(18),
         \A b \in Boots : b.name = "least" => b \in Leasts(Words)
  PROVE  Spec => []MinIsLeast
<1>1. Init => CInv
  BY InitType
<1>2. CInv /\ [Next]_vars => CInv'
  BY StepType
<1>3. Init => LeastInv
  <2> SUFFICES ASSUME Init, boot.name = "least"
               PROVE  \E a \in Words, b \in Words :
                        /\ boot.args = <<a, b>> /\ LeastText(boot.code, a, b)
                        /\ LeastFacts(a, b)
    BY DEF LeastInv
  <2>1. boot \in Leasts(Words)
    BY DEF Init
  <2>2. PICK a \in Words, b \in Words : boot = Booted("least", <<a, b>>, least(a, b), 100)
    BY ONLY <2>1 DEF Leasts
  <2>3. boot.args = <<a, b>> /\ boot.code = assemble(least(a, b), TEXT) /\ boot.entry = TEXT
        /\ boot.mtime = 0
    BY <2>2 DEF Booted
  <2>4. LeastText(boot.code, a, b)
    BY <2>3, LeastAssembled DEF TextFits
  <2>5. mtime = 0 /\ state = "RUNNING" /\ pc = TEXT
    BY <2>3 DEF Init
  <2>6. LeastFacts(a, b)
    BY <2>5 DEF LeastFacts, OnLine, TextFits
  <2> QED BY <2>3, <2>4, <2>6
<1>4. CInv /\ LeastInv /\ [Next]_vars => LeastInv'
  <2> SUFFICES ASSUME CInv, LeastInv, [Next]_vars PROVE LeastInv'
    OBVIOUS
  <2>1. CASE UNCHANGED vars
    BY <2>1 DEF vars, LeastInv, LeastFacts, OnLine
  <2>2. CASE Step
    <3>1. boot' = boot
      BY <2>2 DEF Step
    <3>2. SUFFICES ASSUME boot.name = "least"
                   PROVE  \E a \in Words, b \in Words :
                            /\ boot.args = <<a, b>> /\ LeastText(boot.code, a, b)
                            /\ LeastFacts(a, b)'
      BY <3>1 DEF LeastInv
    <3>3. PICK a \in Words, b \in Words :
            /\ boot.args = <<a, b>> /\ LeastText(boot.code, a, b) /\ LeastFacts(a, b)
      BY <3>2 DEF LeastInv
    <3>4. LeastFacts(a, b)'
      BY <2>2, <3>3, LeastStep
    <3> QED BY <3>3, <3>4
  <2> QED BY <2>1, <2>2 DEF Next, Returned
<1>5. CInv /\ LeastInv => MinIsLeast
  BY LeastEnds
<1> QED BY <1>1, <1>2, <1>3, <1>4, <1>5, PTL DEF Spec
-----------------------------------------------------------------------------
\* The program of the flags.

\* A number with the sign of another.
LEMMA SignRuns ==
  ASSUME CInv, Step, NEW rd \in 1 .. 31, NEW r1 \in Registers, NEW r2 \in Registers,
         AtWord(enc_r(16, r2, r1, 0, rd, OP_FP))
  PROVE  FpSets(rd, Result((fregs[r1] % Half) + Half * sign(fregs[r2]), {}))
<1> DEFINE w == enc_r(16, r2, r1, 0, rd, OP_FP)
           r == Result((fregs[r1] % Half) + Half * sign(fregs[r2]), {})
<1>1. w.f3 = 0 /\ w.f7 = 16
  BY DEF enc_r
<1> HIDE DEF w
<1>2. ToFreg(w, csr[CSR_FRM], fregs[r1], fregs[r2], regs[r1]) = {r}
  BY <1>1 DEF ToFreg, If, Signs
<1>3. ToReg(w, csr[CSR_FRM], fregs[r1], fregs[r2]) = {}
  BY <1>1 DEF ToReg, If
<1> HIDE DEF r
<1>4. 16 \in Codes7 /\ 0 \in Codes3
  BY DEF Codes7, Codes3
<1>5. FpSets(rd, r)
  BY <1>2, <1>3, <1>4, OneSets DEF w
<1> QED BY <1>5 DEF r

\* The flags of an operation of the host, if there is only one answer, and of a
\* conversion to an integer.
Noted(o, a, b) == (CHOOSE r \in HostArith(o, "TONEAREST", a, b) : TRUE).flags
Turned(a)      == fp_float_to_int(0, 0, a, FALSE).flags
HostDecides    == \A o \in Twofold, mode \in HostModes, a \in Words, b \in Words :
                     \A r, s \in HostArith(o, mode, a, b) : r.flags = s.flags
\* C's | joins sets of flags.
JoinsFlags     == \A s, t \in SUBSET Flags : BitOr(Number(s), Number(t)) = Number(s \cup t)

\* They are added.
LEMMA ArithNotes ==
  ASSUME CInv, Step, HostAnswers, HostDecides, NEW o \in Twofold, NEW rd \in 1 .. 31,
         NEW r1 \in Registers, NEW r2 \in Registers, AtWord(enc_r(o, r2, r1, 0, rd, OP_FP))
  PROVE  \E r : FpSets(rd, r) /\ r.flags = Noted(o, fregs[r1], fregs[r2])
<1> DEFINE a == fregs[r1]
           b == fregs[r2]
           H == HostArith(o, "TONEAREST", a, b)
<1>1. a \in Words /\ b \in Words /\ "TONEAREST" \in HostModes /\ 0 \in Codes3
  BY DEF CInv, CTypeOK, HostModes, Codes3
<1>2. host_rounding(0, csr[CSR_FRM]) = "TONEAREST"
  BY DEF host_rounding
<1>3. fp_arith(0, csr[CSR_FRM], o, a, b)
      = {Result(IF bits_is_nan(r.bits) THEN FP_CANON_NAN ELSE r.bits, r.flags) : r \in H}
  BY <1>2 DEF fp_arith
<1>4. PICK r \in fp_arith(0, csr[CSR_FRM], o, a, b) : FpSets(rd, r)
  BY <1>1, ArithRuns
<1>5. PICK s \in H : r = Result(IF bits_is_nan(s.bits) THEN FP_CANON_NAN ELSE s.bits, s.flags)
  BY <1>3, <1>4
<1>6. (CHOOSE x \in H : TRUE) \in H
  BY <1>5
<1>7. \A x, y \in H : x.flags = y.flags
  BY <1>1 DEF HostDecides
<1>8. r.flags = s.flags
  BY <1>5 DEF Result
<1>9. s.flags = Noted(o, a, b)
  BY <1>5, <1>6, <1>7 DEF Noted
<1> QED BY <1>4, <1>8, <1>9

\* The number of the flags that a program keeps.
LEMMA KeptFlags ==
  ASSUME NEW keep \in {0, 1, 16}
  PROVE  keep \in Registers /\ Bits(keep) \subseteq Flags /\ Number(Bits(keep)) = keep
<1>1. /\ Pow2[FlagBit[FP_NX]] = 1 /\ Pow2[FlagBit[FP_UF]] = 2 /\ Pow2[FlagBit[FP_OF]] = 4
      /\ Pow2[FlagBit[FP_DZ]] = 8 /\ Pow2[FlagBit[FP_NV]] = 16
  BY SmallPowers DEF FlagBit, FP_NX, FP_UF, FP_OF, FP_DZ, FP_NV
<1>2. \A f : f \in Bits(keep) <=> f \in Flags /\ (keep \div Pow2[FlagBit[f]]) % 2 = 1
  BY DEF Bits
<1>3. /\ FP_NX \in Bits(keep) <=> keep = 1
      /\ FP_UF \notin Bits(keep) /\ FP_OF \notin Bits(keep) /\ FP_DZ \notin Bits(keep)
      /\ FP_NV \in Bits(keep) <=> keep = 16
  <2>1. /\ FP_NX \in Flags /\ FP_UF \in Flags /\ FP_OF \in Flags /\ FP_DZ \in Flags
        /\ FP_NV \in Flags
    BY DEF Flags
  <2>2. keep \in Int /\ keep \div 1 = keep /\ (keep \div 2) % 2 = 0 /\ (keep \div 4) % 2 = 0
        /\ (keep \div 8) % 2 = 0 /\ (keep % 2 = 1 <=> keep = 1)
        /\ ((keep \div 16) % 2 = 1 <=> keep = 16)
    OBVIOUS
  <2> QED BY <1>1, <1>2, <2>1, <2>2
<1>4. Number(Bits(keep)) = (IF keep = 1 THEN 1 ELSE 0) + (IF keep = 16 THEN 16 ELSE 0)
  BY <1>1, <1>3 DEF Number
<1> QED BY <1>4 DEF Bits, Registers

\* Where the data lie.
LEMMA DataWord ==
  ASSUME DataFits(4)
  PROVE  DATA \in Words /\ Wrap(DATA + 0) = DATA /\ DATA % 4 = 0 /\ DATA + 4 <= MemSize
<1>1. /\ DATA \in Nat /\ DATA % 4 = 0 /\ DATA + 4 <= MemSize
      /\ MemSize \in Nat /\ MemSize < Size /\ Size \in Nat
  BY SMT, MemoryAssumption, WordSizes DEF DataFits
<1>2. DATA \in Words /\ DATA + 0 = DATA
  BY <1>1, WordSizes
<1> QED BY <1>1, <1>2, WrapWord

\* Its words.
SumsText(c, a, b, keep) ==
    /\ Holds(c, TEXT, Lui(T0, a))
    /\ Holds(c, TEXT + 4, Addi(T0, a))
    /\ Holds(c, TEXT + 8, enc_r(120, 0, T0, 0, 1, OP_FP))
    /\ Holds(c, TEXT + 12, Lui(T0, b))
    /\ Holds(c, TEXT + 16, Addi(T0, b))
    /\ Holds(c, TEXT + 20, enc_r(120, 0, T0, 0, 2, OP_FP))
    /\ Holds(c, TEXT + 24, CsrWord(5, 0, CSR_FFLAGS, 0))
    /\ Holds(c, TEXT + 28, enc_r(12, 2, 1, 0, 3, OP_FP))
    /\ Holds(c, TEXT + 32, CsrWord(2, S0, CSR_FFLAGS, 0))
    /\ Holds(c, TEXT + 36, CsrWord(5, 0, CSR_FFLAGS, 0))
    /\ Holds(c, TEXT + 40, enc_r(8, 2, 1, 0, 3, OP_FP))
    /\ Holds(c, TEXT + 44, CsrWord(2, S1, CSR_FFLAGS, 0))
    /\ Holds(c, TEXT + 48, CsrWord(5, 0, CSR_FFLAGS, 0))
    /\ Holds(c, TEXT + 52, enc_r(96, 0, 1, 0, T1, OP_FP))
    /\ Holds(c, TEXT + 56, CsrWord(2, S2, CSR_FFLAGS, 0))
    /\ Holds(c, TEXT + 60, CsrWord(5, 0, CSR_FFLAGS, keep))
    /\ Holds(c, TEXT + 64, enc_r(12, 2, 1, 0, 3, OP_FP))
    /\ Holds(c, TEXT + 68, enc_r(8, 2, 1, 0, 3, OP_FP))
    /\ Holds(c, TEXT + 72, Lui(T3, DATA))
    /\ Holds(c, TEXT + 76, Addi(T3, DATA))
    /\ Holds(c, TEXT + 80, enc_s(0, 3, T3, 2, OP_STORE_FP))
    /\ Holds(c, TEXT + 84, enc_i(0, T3, 2, 4, OP_LOAD_FP))
    /\ Holds(c, TEXT + 88, enc_r(96, 0, 1, 0, T1, OP_FP))
    /\ Holds(c, TEXT + 92, enc_r(16, 2, 1, 0, 5, OP_FP))
    /\ Holds(c, TEXT + 96, CsrWord(2, A0, CSR_FFLAGS, 0))
    /\ Holds(c, TEXT + 100, EBREAK)

\* The assembler puts them there.
LEMMA SumsAssembled ==
  ASSUME TEXT \in Nat, NEW a, NEW b, NEW keep
  PROVE  SumsText(assemble(sums(a, b, keep), TEXT), a, b, keep)
<1> DEFINE items == sums(a, b, keep)
           c == assemble(items, TEXT)
<1>1. /\ Len(items) = 23
      /\ items[1] = li32(T0, a)
      /\ items[2] = Word(enc_r(120, 0, T0, 0, 1, OP_FP))
      /\ items[3] = li32(T0, b)
      /\ items[4] = Word(enc_r(120, 0, T0, 0, 2, OP_FP))
      /\ items[5] = Word(CsrWord(5, 0, CSR_FFLAGS, 0))
      /\ items[6] = Word(enc_r(12, 2, 1, 0, 3, OP_FP))
      /\ items[7] = Word(CsrWord(2, S0, CSR_FFLAGS, 0))
      /\ items[8] = Word(CsrWord(5, 0, CSR_FFLAGS, 0))
      /\ items[9] = Word(enc_r(8, 2, 1, 0, 3, OP_FP))
      /\ items[10] = Word(CsrWord(2, S1, CSR_FFLAGS, 0))
      /\ items[11] = Word(CsrWord(5, 0, CSR_FFLAGS, 0))
      /\ items[12] = Word(enc_r(96, 0, 1, 0, T1, OP_FP))
      /\ items[13] = Word(CsrWord(2, S2, CSR_FFLAGS, 0))
      /\ items[14] = Word(CsrWord(5, 0, CSR_FFLAGS, keep))
      /\ items[15] = Word(enc_r(12, 2, 1, 0, 3, OP_FP))
      /\ items[16] = Word(enc_r(8, 2, 1, 0, 3, OP_FP))
      /\ items[17] = li32(T3, DATA)
      /\ items[18] = Word(enc_s(0, 3, T3, 2, OP_STORE_FP))
      /\ items[19] = Word(enc_i(0, T3, 2, 4, OP_LOAD_FP))
      /\ items[20] = Word(enc_r(96, 0, 1, 0, T1, OP_FP))
      /\ items[21] = Word(enc_r(16, 2, 1, 0, 5, OP_FP))
      /\ items[22] = Word(CsrWord(2, A0, CSR_FFLAGS, 0))
      /\ items[23] = Word(EBREAK)
  BY DEF sums, fmv_w_x, fp, csrrwi, csrr, csrrs, system, CsrWord, fsw, flw, ebreak, EBREAK, Special
<1> HIDE DEF items
<1>2. /\ Holds(c, TEXT, Lui(T0, a)) /\ Holds(c, TEXT + 4, Addi(T0, a))
      /\ ItemAt(items, TEXT, 2, 8)
  <2>1. items[1] = li32(T0, a) /\ Len(items) \in Nat /\ Len(items) >= 1 /\ TEXT \in Int
    BY <1>1
  <2> QED BY ONLY <2>1, FirstConstant
<1>3. Holds(c, TEXT + 8, enc_r(120, 0, T0, 0, 1, OP_FP)) /\ ItemAt(items, TEXT, 3, 12)
  <2>1. items[2] = Word(enc_r(120, 0, T0, 0, 1, OP_FP)) /\ 2 <= Len(items) /\ TEXT \in Int
    BY <1>1
  <2> QED BY ONLY <1>2, <2>1, NextWord
<1>4. /\ Holds(c, TEXT + 12, Lui(T0, b)) /\ Holds(c, TEXT + 16, Addi(T0, b))
      /\ ItemAt(items, TEXT, 4, 20)
  <2>1. items[3] = li32(T0, b) /\ 3 <= Len(items) /\ TEXT \in Int
    BY <1>1
  <2> QED BY ONLY <1>3, <2>1, NextConstant
<1>5. Holds(c, TEXT + 20, enc_r(120, 0, T0, 0, 2, OP_FP)) /\ ItemAt(items, TEXT, 5, 24)
  <2>1. items[4] = Word(enc_r(120, 0, T0, 0, 2, OP_FP)) /\ 4 <= Len(items) /\ TEXT \in Int
    BY <1>1
  <2> QED BY ONLY <1>4, <2>1, NextWord
<1>6. Holds(c, TEXT + 24, CsrWord(5, 0, CSR_FFLAGS, 0)) /\ ItemAt(items, TEXT, 6, 28)
  <2>1. items[5] = Word(CsrWord(5, 0, CSR_FFLAGS, 0)) /\ 5 <= Len(items) /\ TEXT \in Int
    BY <1>1
  <2> QED BY ONLY <1>5, <2>1, NextWord
<1>7. Holds(c, TEXT + 28, enc_r(12, 2, 1, 0, 3, OP_FP)) /\ ItemAt(items, TEXT, 7, 32)
  <2>1. items[6] = Word(enc_r(12, 2, 1, 0, 3, OP_FP)) /\ 6 <= Len(items) /\ TEXT \in Int
    BY <1>1
  <2> QED BY ONLY <1>6, <2>1, NextWord
<1>8. Holds(c, TEXT + 32, CsrWord(2, S0, CSR_FFLAGS, 0)) /\ ItemAt(items, TEXT, 8, 36)
  <2>1. items[7] = Word(CsrWord(2, S0, CSR_FFLAGS, 0)) /\ 7 <= Len(items) /\ TEXT \in Int
    BY <1>1
  <2> QED BY ONLY <1>7, <2>1, NextWord
<1>9. Holds(c, TEXT + 36, CsrWord(5, 0, CSR_FFLAGS, 0)) /\ ItemAt(items, TEXT, 9, 40)
  <2>1. items[8] = Word(CsrWord(5, 0, CSR_FFLAGS, 0)) /\ 8 <= Len(items) /\ TEXT \in Int
    BY <1>1
  <2> QED BY ONLY <1>8, <2>1, NextWord
<1>10. Holds(c, TEXT + 40, enc_r(8, 2, 1, 0, 3, OP_FP)) /\ ItemAt(items, TEXT, 10, 44)
  <2>1. items[9] = Word(enc_r(8, 2, 1, 0, 3, OP_FP)) /\ 9 <= Len(items) /\ TEXT \in Int
    BY <1>1
  <2> QED BY ONLY <1>9, <2>1, NextWord
<1>11. Holds(c, TEXT + 44, CsrWord(2, S1, CSR_FFLAGS, 0)) /\ ItemAt(items, TEXT, 11, 48)
  <2>1. items[10] = Word(CsrWord(2, S1, CSR_FFLAGS, 0)) /\ 10 <= Len(items) /\ TEXT \in Int
    BY <1>1
  <2> QED BY ONLY <1>10, <2>1, NextWord
<1>12. Holds(c, TEXT + 48, CsrWord(5, 0, CSR_FFLAGS, 0)) /\ ItemAt(items, TEXT, 12, 52)
  <2>1. items[11] = Word(CsrWord(5, 0, CSR_FFLAGS, 0)) /\ 11 <= Len(items) /\ TEXT \in Int
    BY <1>1
  <2> QED BY ONLY <1>11, <2>1, NextWord
<1>13. Holds(c, TEXT + 52, enc_r(96, 0, 1, 0, T1, OP_FP)) /\ ItemAt(items, TEXT, 13, 56)
  <2>1. items[12] = Word(enc_r(96, 0, 1, 0, T1, OP_FP)) /\ 12 <= Len(items) /\ TEXT \in Int
    BY <1>1
  <2> QED BY ONLY <1>12, <2>1, NextWord
<1>14. Holds(c, TEXT + 56, CsrWord(2, S2, CSR_FFLAGS, 0)) /\ ItemAt(items, TEXT, 14, 60)
  <2>1. items[13] = Word(CsrWord(2, S2, CSR_FFLAGS, 0)) /\ 13 <= Len(items) /\ TEXT \in Int
    BY <1>1
  <2> QED BY ONLY <1>13, <2>1, NextWord
<1>15. Holds(c, TEXT + 60, CsrWord(5, 0, CSR_FFLAGS, keep)) /\ ItemAt(items, TEXT, 15, 64)
  <2>1. items[14] = Word(CsrWord(5, 0, CSR_FFLAGS, keep)) /\ 14 <= Len(items) /\ TEXT \in Int
    BY <1>1
  <2> QED BY ONLY <1>14, <2>1, NextWord
<1>16. Holds(c, TEXT + 64, enc_r(12, 2, 1, 0, 3, OP_FP)) /\ ItemAt(items, TEXT, 16, 68)
  <2>1. items[15] = Word(enc_r(12, 2, 1, 0, 3, OP_FP)) /\ 15 <= Len(items) /\ TEXT \in Int
    BY <1>1
  <2> QED BY ONLY <1>15, <2>1, NextWord
<1>17. Holds(c, TEXT + 68, enc_r(8, 2, 1, 0, 3, OP_FP)) /\ ItemAt(items, TEXT, 17, 72)
  <2>1. items[16] = Word(enc_r(8, 2, 1, 0, 3, OP_FP)) /\ 16 <= Len(items) /\ TEXT \in Int
    BY <1>1
  <2> QED BY ONLY <1>16, <2>1, NextWord
<1>18. /\ Holds(c, TEXT + 72, Lui(T3, DATA)) /\ Holds(c, TEXT + 76, Addi(T3, DATA))
      /\ ItemAt(items, TEXT, 18, 80)
  <2>1. items[17] = li32(T3, DATA) /\ 17 <= Len(items) /\ TEXT \in Int
    BY <1>1
  <2> QED BY ONLY <1>17, <2>1, NextConstant
<1>19. Holds(c, TEXT + 80, enc_s(0, 3, T3, 2, OP_STORE_FP)) /\ ItemAt(items, TEXT, 19, 84)
  <2>1. items[18] = Word(enc_s(0, 3, T3, 2, OP_STORE_FP)) /\ 18 <= Len(items) /\ TEXT \in Int
    BY <1>1
  <2> QED BY ONLY <1>18, <2>1, NextWord
<1>20. Holds(c, TEXT + 84, enc_i(0, T3, 2, 4, OP_LOAD_FP)) /\ ItemAt(items, TEXT, 20, 88)
  <2>1. items[19] = Word(enc_i(0, T3, 2, 4, OP_LOAD_FP)) /\ 19 <= Len(items) /\ TEXT \in Int
    BY <1>1
  <2> QED BY ONLY <1>19, <2>1, NextWord
<1>21. Holds(c, TEXT + 88, enc_r(96, 0, 1, 0, T1, OP_FP)) /\ ItemAt(items, TEXT, 21, 92)
  <2>1. items[20] = Word(enc_r(96, 0, 1, 0, T1, OP_FP)) /\ 20 <= Len(items) /\ TEXT \in Int
    BY <1>1
  <2> QED BY ONLY <1>20, <2>1, NextWord
<1>22. Holds(c, TEXT + 92, enc_r(16, 2, 1, 0, 5, OP_FP)) /\ ItemAt(items, TEXT, 22, 96)
  <2>1. items[21] = Word(enc_r(16, 2, 1, 0, 5, OP_FP)) /\ 21 <= Len(items) /\ TEXT \in Int
    BY <1>1
  <2> QED BY ONLY <1>21, <2>1, NextWord
<1>23. Holds(c, TEXT + 96, CsrWord(2, A0, CSR_FFLAGS, 0)) /\ ItemAt(items, TEXT, 23, 100)
  <2>1. items[22] = Word(CsrWord(2, A0, CSR_FFLAGS, 0)) /\ 22 <= Len(items) /\ TEXT \in Int
    BY <1>1
  <2> QED BY ONLY <1>22, <2>1, NextWord
<1>24. Holds(c, TEXT + 100, EBREAK) /\ ItemAt(items, TEXT, 24, 104)
  <2>1. items[23] = Word(EBREAK) /\ 23 <= Len(items) /\ TEXT \in Int
    BY <1>1
  <2> QED BY ONLY <1>23, <2>1, NextWord
<1> QED BY <1>2, <1>3, <1>4, <1>5, <1>6, <1>7, <1>8, <1>9, <1>10, <1>11, <1>12, <1>13, <1>14, <1>15,
           <1>16, <1>17, <1>18, <1>19, <1>20, <1>21, <1>22, <1>23, <1>24 DEF SumsText, items

\* What the registers hold, step by step.
SumsFacts(a, b, keep) ==
    /\ OnLine(26)
    /\ mtime = 1 => regs[T0] = Wrap(Immediate(Lui(T0, a)))
    /\ mtime \in 2 .. 3 => regs[T0] = a
    /\ mtime = 4 => regs[T0] = Wrap(Immediate(Lui(T0, b)))
    /\ mtime >= 5 => regs[T0] = b
    /\ mtime >= 3 => fregs[1] = a
    /\ mtime >= 6 => fregs[2] = b
    /\ mtime = 7 => fflags = {}
    /\ mtime = 8 => fflags = Noted(12, a, b)
    /\ mtime = 10 => fflags = {}
    /\ mtime = 11 => fflags = Noted(8, a, b)
    /\ mtime = 13 => fflags = {}
    /\ mtime = 14 => fflags = Turned(a)
    /\ mtime = 16 => fflags = Bits(keep)
    /\ mtime = 17 => fflags = (Bits(keep) \cup Noted(12, a, b))
    /\ mtime \in 18 .. 22 => fflags = ((Bits(keep) \cup Noted(12, a, b)) \cup Noted(8, a, b))
    /\ mtime \in 23 .. 24 =>
          fflags = (((Bits(keep) \cup Noted(12, a, b)) \cup Noted(8, a, b)) \cup Turned(a))
    /\ mtime >= 9 => regs[S0] = Number(Noted(12, a, b))
    /\ mtime >= 12 => regs[S1] = Number(Noted(8, a, b))
    /\ mtime >= 15 => regs[S2] = Number(Turned(a))
    /\ mtime = 19 => regs[T3] = Wrap(Immediate(Lui(T3, DATA)))
    /\ mtime >= 20 => regs[T3] = DATA
    /\ mtime >= 25 =>
          regs[A0] = Number((((Bits(keep) \cup Noted(12, a, b)) \cup Noted(8, a, b)) \cup Turned(a)))

\* Every step of the program leaves them so.
LEMMA SumsStep ==
  ASSUME CInv, Step, HostTyped, HostAnswers, HostDecides, XLEN <= 32, DataFits(4), TextFits(26),
         NEW a \in Words, NEW b \in Words, NEW keep \in {0, 1, 16},
         SumsText(boot.code, a, b, keep), SumsFacts(a, b, keep)
  PROVE  SumsFacts(a, b, keep)'
<1>1. /\ state = "RUNNING" /\ mtime \in 0 .. 25 /\ pc = TEXT + 4 * mtime
      /\ TEXT \in Nat /\ TEXT % 2 = 0 /\ MemSize \in Nat /\ TEXT + 104 <= MemSize
      /\ regs \in [Registers -> Words] /\ regs[0] = 0 /\ fregs \in [Registers -> Words]
      /\ fflags \subseteq Flags
  BY MemoryAssumption DEF Step, Going, SumsFacts, OnLine, CInv, CTypeOK, TextFits
<1>2. ASSUME Advances, mtime < 25 PROVE mtime' = mtime + 1 /\ OnLine(26)'
  BY <1>1, <1>2 DEF Advances, OnLine
<1>3. CASE mtime = 0
  <2>1. AtWord(Lui(T0, a))
    BY <1>1, <1>3 DEF SumsText, AtWord
  <2>3. T0 \in 1 .. 31 /\ a \in Words
    BY WordSizes, Named, DataWord
  <2>4. Writes(T0, Wrap(Immediate(Lui(T0, a))))
    BY <2>1, <2>3, LuiRuns
  <2>5. /\ mtime' = 1
        /\ OnLine(26)'
        /\ regs' = [regs EXCEPT ![T0] = Wrap(Immediate(Lui(T0, a)))]
        /\ fregs' = fregs
        /\ fflags' = fflags
    BY <1>2, <1>3, <2>4 DEF Writes, FpSets, FpWrites, Result
  <2>6. /\ regs'[T0] = Wrap(Immediate(Lui(T0, a))) /\ regs'[S0] = regs[S0] /\ regs'[S1] = regs[S1]
        /\ regs'[S2] = regs[S2] /\ regs'[T3] = regs[T3] /\ regs'[A0] = regs[A0]
    BY <1>1, <2>5, Named DEF Registers
  <2>7. /\ fregs'[1] = fregs[1] /\ fregs'[2] = fregs[2]
    BY <2>5
  <2> QED BY <1>3, <2>5, <2>6, <2>7 DEF SumsFacts
<1>4. CASE mtime = 1
  <2>1. AtWord(Addi(T0, a))
    BY <1>1, <1>4 DEF SumsText, AtWord
  <2>2. regs[T0] = Wrap(Immediate(Lui(T0, a)))
    BY <1>4 DEF SumsFacts
  <2>3. T0 \in 1 .. 31 /\ a \in Words
    BY WordSizes, Named, DataWord
  <2>4. Writes(T0, a)
    BY <2>1, <2>2, <2>3, AddiRuns
  <2>5. /\ mtime' = 2
        /\ OnLine(26)'
        /\ regs' = [regs EXCEPT ![T0] = a]
        /\ fregs' = fregs
        /\ fflags' = fflags
    BY <1>2, <1>4, <2>4 DEF Writes, FpSets, FpWrites, Result
  <2>6. /\ regs'[T0] = a /\ regs'[S0] = regs[S0] /\ regs'[S1] = regs[S1]
        /\ regs'[S2] = regs[S2] /\ regs'[T3] = regs[T3] /\ regs'[A0] = regs[A0]
    BY <1>1, <2>5, Named DEF Registers
  <2>7. /\ fregs'[1] = fregs[1] /\ fregs'[2] = fregs[2]
    BY <2>5
  <2> QED BY <1>4, <2>5, <2>6, <2>7 DEF SumsFacts
<1>5. CASE mtime = 2
  <2>1. AtWord(enc_r(120, 0, T0, 0, 1, OP_FP))
    BY <1>1, <1>5 DEF SumsText, AtWord
  <2>2. regs[T0] = a
    BY <1>5 DEF SumsFacts
  <2>3. FpSets(1, Result(regs[T0], {}))
    BY <2>1, MoveInRuns, InRange
  <2>4. FpSets(1, Result(a, {}))
    BY <2>2, <2>3
  <2>5. /\ mtime' = 3
        /\ OnLine(26)'
        /\ regs' = regs
        /\ fregs' = [fregs EXCEPT ![1] = a]
    BY <1>2, <1>5, <2>4 DEF Writes, FpSets, FpWrites, Result
  <2>6. /\ regs'[T0] = regs[T0] /\ regs'[S0] = regs[S0] /\ regs'[S1] = regs[S1]
        /\ regs'[S2] = regs[S2] /\ regs'[T3] = regs[T3] /\ regs'[A0] = regs[A0]
    BY <2>5
  <2>7. /\ fregs'[1] = a /\ fregs'[2] = fregs[2]
    BY <1>1, <2>5 DEF Registers
  <2> QED BY <1>5, <2>5, <2>6, <2>7 DEF SumsFacts
<1>6. CASE mtime = 3
  <2>1. AtWord(Lui(T0, b))
    BY <1>1, <1>6 DEF SumsText, AtWord
  <2>3. T0 \in 1 .. 31 /\ b \in Words
    BY WordSizes, Named, DataWord
  <2>4. Writes(T0, Wrap(Immediate(Lui(T0, b))))
    BY <2>1, <2>3, LuiRuns
  <2>5. /\ mtime' = 4
        /\ OnLine(26)'
        /\ regs' = [regs EXCEPT ![T0] = Wrap(Immediate(Lui(T0, b)))]
        /\ fregs' = fregs
        /\ fflags' = fflags
    BY <1>2, <1>6, <2>4 DEF Writes, FpSets, FpWrites, Result
  <2>6. /\ regs'[T0] = Wrap(Immediate(Lui(T0, b))) /\ regs'[S0] = regs[S0] /\ regs'[S1] = regs[S1]
        /\ regs'[S2] = regs[S2] /\ regs'[T3] = regs[T3] /\ regs'[A0] = regs[A0]
    BY <1>1, <2>5, Named DEF Registers
  <2>7. /\ fregs'[1] = fregs[1] /\ fregs'[2] = fregs[2]
    BY <2>5
  <2> QED BY <1>6, <2>5, <2>6, <2>7 DEF SumsFacts
<1>7. CASE mtime = 4
  <2>1. AtWord(Addi(T0, b))
    BY <1>1, <1>7 DEF SumsText, AtWord
  <2>2. regs[T0] = Wrap(Immediate(Lui(T0, b)))
    BY <1>7 DEF SumsFacts
  <2>3. T0 \in 1 .. 31 /\ b \in Words
    BY WordSizes, Named, DataWord
  <2>4. Writes(T0, b)
    BY <2>1, <2>2, <2>3, AddiRuns
  <2>5. /\ mtime' = 5
        /\ OnLine(26)'
        /\ regs' = [regs EXCEPT ![T0] = b]
        /\ fregs' = fregs
        /\ fflags' = fflags
    BY <1>2, <1>7, <2>4 DEF Writes, FpSets, FpWrites, Result
  <2>6. /\ regs'[T0] = b /\ regs'[S0] = regs[S0] /\ regs'[S1] = regs[S1]
        /\ regs'[S2] = regs[S2] /\ regs'[T3] = regs[T3] /\ regs'[A0] = regs[A0]
    BY <1>1, <2>5, Named DEF Registers
  <2>7. /\ fregs'[1] = fregs[1] /\ fregs'[2] = fregs[2]
    BY <2>5
  <2> QED BY <1>7, <2>5, <2>6, <2>7 DEF SumsFacts
<1>8. CASE mtime = 5
  <2>1. AtWord(enc_r(120, 0, T0, 0, 2, OP_FP))
    BY <1>1, <1>8 DEF SumsText, AtWord
  <2>2. regs[T0] = b
    BY <1>8 DEF SumsFacts
  <2>3. FpSets(2, Result(regs[T0], {}))
    BY <2>1, MoveInRuns, InRange
  <2>4. FpSets(2, Result(b, {}))
    BY <2>2, <2>3
  <2>5. /\ mtime' = 6
        /\ OnLine(26)'
        /\ regs' = regs
        /\ fregs' = [fregs EXCEPT ![2] = b]
    BY <1>2, <1>8, <2>4 DEF Writes, FpSets, FpWrites, Result
  <2>6. /\ regs'[T0] = regs[T0] /\ regs'[S0] = regs[S0] /\ regs'[S1] = regs[S1]
        /\ regs'[S2] = regs[S2] /\ regs'[T3] = regs[T3] /\ regs'[A0] = regs[A0]
    BY <2>5
  <2>7. /\ fregs'[1] = fregs[1] /\ fregs'[2] = b
    BY <1>1, <2>5 DEF Registers
  <2> QED BY <1>8, <2>5, <2>6, <2>7 DEF SumsFacts
<1>9. CASE mtime = 6
  <2>1. AtWord(CsrWord(5, 0, CSR_FFLAGS, 0))
    BY <1>1, <1>9 DEF SumsText, AtWord
  <2>3. 0 \in Registers
    BY DEF Registers
  <2>4. Advances /\ fflags' = {} /\ regs' = regs /\ fregs' = fregs
    BY <2>1, <2>3, FlagsSet, NoBits
  <2>5. /\ mtime' = 7
        /\ OnLine(26)'
        /\ regs' = regs
        /\ fregs' = fregs
        /\ fflags' = {}
    BY <1>2, <1>9, <2>4 DEF Writes, FpSets, FpWrites, Result
  <2>6. /\ regs'[T0] = regs[T0] /\ regs'[S0] = regs[S0] /\ regs'[S1] = regs[S1]
        /\ regs'[S2] = regs[S2] /\ regs'[T3] = regs[T3] /\ regs'[A0] = regs[A0]
    BY <2>5
  <2>7. /\ fregs'[1] = fregs[1] /\ fregs'[2] = fregs[2]
    BY <2>5
  <2> QED BY <1>9, <2>5, <2>6, <2>7 DEF SumsFacts
<1>10. CASE mtime = 7
  <2>1. AtWord(enc_r(12, 2, 1, 0, 3, OP_FP))
    BY <1>1, <1>10 DEF SumsText, AtWord
  <2>2. fregs[1] = a /\ fregs[2] = b /\ fflags = {}
    BY <1>10 DEF SumsFacts
  <2>r. 12 \in Twofold /\ 3 \in 1 .. 31 /\ 1 \in Registers /\ 2 \in Registers
    BY DEF Registers, Twofold
  <2>3. \E r : FpSets(3, r) /\ r.flags = Noted(12, fregs[1], fregs[2])
    BY <2>1, <2>r, ArithNotes
  <2>4. Advances /\ regs' = regs /\ fflags' = Noted(12, a, b)
        /\ \E x : fregs' = [fregs EXCEPT ![3] = x]
    BY <2>2, <2>3 DEF FpSets
  <2>5. /\ mtime' = 8
        /\ OnLine(26)'
        /\ regs' = regs
        /\ fflags' = Noted(12, a, b)
    BY <1>2, <1>10, <2>4 DEF Writes, FpSets, FpWrites, Result
  <2>6. /\ regs'[T0] = regs[T0] /\ regs'[S0] = regs[S0] /\ regs'[S1] = regs[S1]
        /\ regs'[S2] = regs[S2] /\ regs'[T3] = regs[T3] /\ regs'[A0] = regs[A0]
    BY <2>5
  <2>7. /\ fregs'[1] = fregs[1] /\ fregs'[2] = fregs[2]
    BY <1>1, <2>4 DEF Registers
  <2> QED BY <1>10, <2>5, <2>6, <2>7 DEF SumsFacts
<1>11. CASE mtime = 8
  <2>1. AtWord(CsrWord(2, S0, CSR_FFLAGS, 0))
    BY <1>1, <1>11 DEF SumsText, AtWord
  <2>2. fflags = Noted(12, a, b)
    BY <1>11 DEF SumsFacts
  <2>3. Advances /\ regs' = [regs EXCEPT ![S0] = Number(fflags)] /\ fregs' = fregs
    BY <2>1, FlagsRead, InRange
  <2>4. Advances /\ regs' = [regs EXCEPT ![S0] = Number(Noted(12, a, b))] /\ fregs' = fregs
    BY <2>2, <2>3
  <2>5. /\ mtime' = 9
        /\ OnLine(26)'
        /\ regs' = [regs EXCEPT ![S0] = Number(Noted(12, a, b))]
        /\ fregs' = fregs
    BY <1>2, <1>11, <2>4 DEF Writes, FpSets, FpWrites, Result
  <2>6. /\ regs'[T0] = regs[T0] /\ regs'[S0] = Number(Noted(12, a, b)) /\ regs'[S1] = regs[S1]
        /\ regs'[S2] = regs[S2] /\ regs'[T3] = regs[T3] /\ regs'[A0] = regs[A0]
    BY <1>1, <2>5, Named DEF Registers
  <2>7. /\ fregs'[1] = fregs[1] /\ fregs'[2] = fregs[2]
    BY <2>5
  <2> QED BY <1>11, <2>5, <2>6, <2>7 DEF SumsFacts
<1>12. CASE mtime = 9
  <2>1. AtWord(CsrWord(5, 0, CSR_FFLAGS, 0))
    BY <1>1, <1>12 DEF SumsText, AtWord
  <2>3. 0 \in Registers
    BY DEF Registers
  <2>4. Advances /\ fflags' = {} /\ regs' = regs /\ fregs' = fregs
    BY <2>1, <2>3, FlagsSet, NoBits
  <2>5. /\ mtime' = 10
        /\ OnLine(26)'
        /\ regs' = regs
        /\ fregs' = fregs
        /\ fflags' = {}
    BY <1>2, <1>12, <2>4 DEF Writes, FpSets, FpWrites, Result
  <2>6. /\ regs'[T0] = regs[T0] /\ regs'[S0] = regs[S0] /\ regs'[S1] = regs[S1]
        /\ regs'[S2] = regs[S2] /\ regs'[T3] = regs[T3] /\ regs'[A0] = regs[A0]
    BY <2>5
  <2>7. /\ fregs'[1] = fregs[1] /\ fregs'[2] = fregs[2]
    BY <2>5
  <2> QED BY <1>12, <2>5, <2>6, <2>7 DEF SumsFacts
<1>13. CASE mtime = 10
  <2>1. AtWord(enc_r(8, 2, 1, 0, 3, OP_FP))
    BY <1>1, <1>13 DEF SumsText, AtWord
  <2>2. fregs[1] = a /\ fregs[2] = b /\ fflags = {}
    BY <1>13 DEF SumsFacts
  <2>r. 8 \in Twofold /\ 3 \in 1 .. 31 /\ 1 \in Registers /\ 2 \in Registers
    BY DEF Registers, Twofold
  <2>3. \E r : FpSets(3, r) /\ r.flags = Noted(8, fregs[1], fregs[2])
    BY <2>1, <2>r, ArithNotes
  <2>4. Advances /\ regs' = regs /\ fflags' = Noted(8, a, b)
        /\ \E x : fregs' = [fregs EXCEPT ![3] = x]
    BY <2>2, <2>3 DEF FpSets
  <2>5. /\ mtime' = 11
        /\ OnLine(26)'
        /\ regs' = regs
        /\ fflags' = Noted(8, a, b)
    BY <1>2, <1>13, <2>4 DEF Writes, FpSets, FpWrites, Result
  <2>6. /\ regs'[T0] = regs[T0] /\ regs'[S0] = regs[S0] /\ regs'[S1] = regs[S1]
        /\ regs'[S2] = regs[S2] /\ regs'[T3] = regs[T3] /\ regs'[A0] = regs[A0]
    BY <2>5
  <2>7. /\ fregs'[1] = fregs[1] /\ fregs'[2] = fregs[2]
    BY <1>1, <2>4 DEF Registers
  <2> QED BY <1>13, <2>5, <2>6, <2>7 DEF SumsFacts
<1>14. CASE mtime = 11
  <2>1. AtWord(CsrWord(2, S1, CSR_FFLAGS, 0))
    BY <1>1, <1>14 DEF SumsText, AtWord
  <2>2. fflags = Noted(8, a, b)
    BY <1>14 DEF SumsFacts
  <2>3. Advances /\ regs' = [regs EXCEPT ![S1] = Number(fflags)] /\ fregs' = fregs
    BY <2>1, FlagsRead, InRange
  <2>4. Advances /\ regs' = [regs EXCEPT ![S1] = Number(Noted(8, a, b))] /\ fregs' = fregs
    BY <2>2, <2>3
  <2>5. /\ mtime' = 12
        /\ OnLine(26)'
        /\ regs' = [regs EXCEPT ![S1] = Number(Noted(8, a, b))]
        /\ fregs' = fregs
    BY <1>2, <1>14, <2>4 DEF Writes, FpSets, FpWrites, Result
  <2>6. /\ regs'[T0] = regs[T0] /\ regs'[S0] = regs[S0] /\ regs'[S1] = Number(Noted(8, a, b))
        /\ regs'[S2] = regs[S2] /\ regs'[T3] = regs[T3] /\ regs'[A0] = regs[A0]
    BY <1>1, <2>5, Named DEF Registers
  <2>7. /\ fregs'[1] = fregs[1] /\ fregs'[2] = fregs[2]
    BY <2>5
  <2> QED BY <1>14, <2>5, <2>6, <2>7 DEF SumsFacts
<1>15. CASE mtime = 12
  <2>1. AtWord(CsrWord(5, 0, CSR_FFLAGS, 0))
    BY <1>1, <1>15 DEF SumsText, AtWord
  <2>3. 0 \in Registers
    BY DEF Registers
  <2>4. Advances /\ fflags' = {} /\ regs' = regs /\ fregs' = fregs
    BY <2>1, <2>3, FlagsSet, NoBits
  <2>5. /\ mtime' = 13
        /\ OnLine(26)'
        /\ regs' = regs
        /\ fregs' = fregs
        /\ fflags' = {}
    BY <1>2, <1>15, <2>4 DEF Writes, FpSets, FpWrites, Result
  <2>6. /\ regs'[T0] = regs[T0] /\ regs'[S0] = regs[S0] /\ regs'[S1] = regs[S1]
        /\ regs'[S2] = regs[S2] /\ regs'[T3] = regs[T3] /\ regs'[A0] = regs[A0]
    BY <2>5
  <2>7. /\ fregs'[1] = fregs[1] /\ fregs'[2] = fregs[2]
    BY <2>5
  <2> QED BY <1>15, <2>5, <2>6, <2>7 DEF SumsFacts
<1>16. CASE mtime = 13
  <2>1. AtWord(enc_r(96, 0, 1, 0, T1, OP_FP))
    BY <1>1, <1>16 DEF SumsText, AtWord
  <2>2. fregs[1] = a /\ fflags = {}
    BY <1>16 DEF SumsFacts
  <2>r. 0 \in 0 .. 3 /\ 0 \in {0, 1} /\ T1 \in 1 .. 31 /\ 1 \in Registers
    BY InRange DEF Registers
  <2>3. FpWrites(T1, fp_float_to_int(0, csr[CSR_FRM], fregs[1], 0 = 1))
    BY <2>1, <2>r, ToIntRuns
  <2>z. fp_float_to_int(0, csr[CSR_FRM], a, 0 = 1).flags = Turned(a)
    BY DEF fp_float_to_int, Turned, Result
  <2>4. Advances /\ fregs' = fregs /\ fflags' = Turned(a)
        /\ \E x : regs' = [regs EXCEPT ![T1] = x]
    BY <2>2, <2>3, <2>z DEF FpWrites
  <2>5. /\ mtime' = 14
        /\ OnLine(26)'
        /\ fregs' = fregs
        /\ fflags' = Turned(a)
    BY <1>2, <1>16, <2>4 DEF Writes, FpSets, FpWrites, Result
  <2>6. /\ regs'[T0] = regs[T0] /\ regs'[S0] = regs[S0] /\ regs'[S1] = regs[S1]
        /\ regs'[S2] = regs[S2] /\ regs'[T3] = regs[T3] /\ regs'[A0] = regs[A0]
    BY <1>1, <2>4, Named DEF Registers
  <2>7. /\ fregs'[1] = fregs[1] /\ fregs'[2] = fregs[2]
    BY <2>5
  <2> QED BY <1>16, <2>5, <2>6, <2>7 DEF SumsFacts
<1>17. CASE mtime = 14
  <2>1. AtWord(CsrWord(2, S2, CSR_FFLAGS, 0))
    BY <1>1, <1>17 DEF SumsText, AtWord
  <2>2. fflags = Turned(a)
    BY <1>17 DEF SumsFacts
  <2>3. Advances /\ regs' = [regs EXCEPT ![S2] = Number(fflags)] /\ fregs' = fregs
    BY <2>1, FlagsRead, InRange
  <2>4. Advances /\ regs' = [regs EXCEPT ![S2] = Number(Turned(a))] /\ fregs' = fregs
    BY <2>2, <2>3
  <2>5. /\ mtime' = 15
        /\ OnLine(26)'
        /\ regs' = [regs EXCEPT ![S2] = Number(Turned(a))]
        /\ fregs' = fregs
    BY <1>2, <1>17, <2>4 DEF Writes, FpSets, FpWrites, Result
  <2>6. /\ regs'[T0] = regs[T0] /\ regs'[S0] = regs[S0] /\ regs'[S1] = regs[S1]
        /\ regs'[S2] = Number(Turned(a)) /\ regs'[T3] = regs[T3] /\ regs'[A0] = regs[A0]
    BY <1>1, <2>5, Named DEF Registers
  <2>7. /\ fregs'[1] = fregs[1] /\ fregs'[2] = fregs[2]
    BY <2>5
  <2> QED BY <1>17, <2>5, <2>6, <2>7 DEF SumsFacts
<1>18. CASE mtime = 15
  <2>1. AtWord(CsrWord(5, 0, CSR_FFLAGS, keep))
    BY <1>1, <1>18 DEF SumsText, AtWord
  <2>3. keep \in Registers
    BY KeptFlags
  <2>4. Advances /\ fflags' = Bits(keep) /\ regs' = regs /\ fregs' = fregs
    BY <2>1, <2>3, FlagsSet
  <2>5. /\ mtime' = 16
        /\ OnLine(26)'
        /\ regs' = regs
        /\ fregs' = fregs
        /\ fflags' = Bits(keep)
    BY <1>2, <1>18, <2>4 DEF Writes, FpSets, FpWrites, Result
  <2>6. /\ regs'[T0] = regs[T0] /\ regs'[S0] = regs[S0] /\ regs'[S1] = regs[S1]
        /\ regs'[S2] = regs[S2] /\ regs'[T3] = regs[T3] /\ regs'[A0] = regs[A0]
    BY <2>5
  <2>7. /\ fregs'[1] = fregs[1] /\ fregs'[2] = fregs[2]
    BY <2>5
  <2> QED BY <1>18, <2>5, <2>6, <2>7 DEF SumsFacts
<1>19. CASE mtime = 16
  <2>1. AtWord(enc_r(12, 2, 1, 0, 3, OP_FP))
    BY <1>1, <1>19 DEF SumsText, AtWord
  <2>2. fregs[1] = a /\ fregs[2] = b /\ fflags = Bits(keep)
    BY <1>19 DEF SumsFacts
  <2>r. 12 \in Twofold /\ 3 \in 1 .. 31 /\ 1 \in Registers /\ 2 \in Registers
    BY DEF Registers, Twofold
  <2>3. \E r : FpSets(3, r) /\ r.flags = Noted(12, fregs[1], fregs[2])
    BY <2>1, <2>r, ArithNotes
  <2>4. Advances /\ regs' = regs /\ fflags' = (Bits(keep) \cup Noted(12, a, b))
        /\ \E x : fregs' = [fregs EXCEPT ![3] = x]
    BY <2>2, <2>3 DEF FpSets
  <2>5. /\ mtime' = 17
        /\ OnLine(26)'
        /\ regs' = regs
        /\ fflags' = (Bits(keep) \cup Noted(12, a, b))
    BY <1>2, <1>19, <2>4 DEF Writes, FpSets, FpWrites, Result
  <2>6. /\ regs'[T0] = regs[T0] /\ regs'[S0] = regs[S0] /\ regs'[S1] = regs[S1]
        /\ regs'[S2] = regs[S2] /\ regs'[T3] = regs[T3] /\ regs'[A0] = regs[A0]
    BY <2>5
  <2>7. /\ fregs'[1] = fregs[1] /\ fregs'[2] = fregs[2]
    BY <1>1, <2>4 DEF Registers
  <2> QED BY <1>19, <2>5, <2>6, <2>7 DEF SumsFacts
<1>20. CASE mtime = 17
  <2>1. AtWord(enc_r(8, 2, 1, 0, 3, OP_FP))
    BY <1>1, <1>20 DEF SumsText, AtWord
  <2>2. fregs[1] = a /\ fregs[2] = b /\ fflags = (Bits(keep) \cup Noted(12, a, b))
    BY <1>20 DEF SumsFacts
  <2>r. 8 \in Twofold /\ 3 \in 1 .. 31 /\ 1 \in Registers /\ 2 \in Registers
    BY DEF Registers, Twofold
  <2>3. \E r : FpSets(3, r) /\ r.flags = Noted(8, fregs[1], fregs[2])
    BY <2>1, <2>r, ArithNotes
  <2>4. Advances /\ regs' = regs /\ fflags' = ((Bits(keep) \cup Noted(12, a, b)) \cup Noted(8, a, b))
        /\ \E x : fregs' = [fregs EXCEPT ![3] = x]
    BY <2>2, <2>3 DEF FpSets
  <2>5. /\ mtime' = 18
        /\ OnLine(26)'
        /\ regs' = regs
        /\ fflags' = ((Bits(keep) \cup Noted(12, a, b)) \cup Noted(8, a, b))
    BY <1>2, <1>20, <2>4 DEF Writes, FpSets, FpWrites, Result
  <2>6. /\ regs'[T0] = regs[T0] /\ regs'[S0] = regs[S0] /\ regs'[S1] = regs[S1]
        /\ regs'[S2] = regs[S2] /\ regs'[T3] = regs[T3] /\ regs'[A0] = regs[A0]
    BY <2>5
  <2>7. /\ fregs'[1] = fregs[1] /\ fregs'[2] = fregs[2]
    BY <1>1, <2>4 DEF Registers
  <2> QED BY <1>20, <2>5, <2>6, <2>7 DEF SumsFacts
<1>21. CASE mtime = 18
  <2>1. AtWord(Lui(T3, DATA))
    BY <1>1, <1>21 DEF SumsText, AtWord
  <2>3. T3 \in 1 .. 31 /\ DATA \in Words
    BY WordSizes, Named, DataWord
  <2>4. Writes(T3, Wrap(Immediate(Lui(T3, DATA))))
    BY <2>1, <2>3, LuiRuns
  <2>5. /\ mtime' = 19
        /\ OnLine(26)'
        /\ regs' = [regs EXCEPT ![T3] = Wrap(Immediate(Lui(T3, DATA)))]
        /\ fregs' = fregs
        /\ fflags' = fflags
    BY <1>2, <1>21, <2>4 DEF Writes, FpSets, FpWrites, Result
  <2>6. /\ regs'[T0] = regs[T0] /\ regs'[S0] = regs[S0] /\ regs'[S1] = regs[S1]
        /\ regs'[S2] = regs[S2] /\ regs'[T3] = Wrap(Immediate(Lui(T3, DATA))) /\ regs'[A0] = regs[A0]
    BY <1>1, <2>5, Named DEF Registers
  <2>7. /\ fregs'[1] = fregs[1] /\ fregs'[2] = fregs[2]
    BY <2>5
  <2> QED BY <1>21, <2>5, <2>6, <2>7 DEF SumsFacts
<1>22. CASE mtime = 19
  <2>1. AtWord(Addi(T3, DATA))
    BY <1>1, <1>22 DEF SumsText, AtWord
  <2>2. regs[T3] = Wrap(Immediate(Lui(T3, DATA)))
    BY <1>22 DEF SumsFacts
  <2>3. T3 \in 1 .. 31 /\ DATA \in Words
    BY WordSizes, Named, DataWord
  <2>4. Writes(T3, DATA)
    BY <2>1, <2>2, <2>3, AddiRuns
  <2>5. /\ mtime' = 20
        /\ OnLine(26)'
        /\ regs' = [regs EXCEPT ![T3] = DATA]
        /\ fregs' = fregs
        /\ fflags' = fflags
    BY <1>2, <1>22, <2>4 DEF Writes, FpSets, FpWrites, Result
  <2>6. /\ regs'[T0] = regs[T0] /\ regs'[S0] = regs[S0] /\ regs'[S1] = regs[S1]
        /\ regs'[S2] = regs[S2] /\ regs'[T3] = DATA /\ regs'[A0] = regs[A0]
    BY <1>1, <2>5, Named DEF Registers
  <2>7. /\ fregs'[1] = fregs[1] /\ fregs'[2] = fregs[2]
    BY <2>5
  <2> QED BY <1>22, <2>5, <2>6, <2>7 DEF SumsFacts
<1>23. CASE mtime = 20
  <2>1. AtWord(enc_s(0, 3, T3, 2, OP_STORE_FP))
    BY <1>1, <1>23 DEF SumsText, AtWord
  <2>2. regs[T3] = DATA
    BY <1>23 DEF SumsFacts
  <2>r. Names(T3, 0, DATA, 4)
    BY <2>2, DataWord DEF Names
  <2>3. Puts(DATA, 4, fregs[3])
    <3>1. T3 \in Registers /\ 3 \in Registers
      BY InRange DEF Registers
    <3> QED BY <2>1, <2>r, <3>1, FpStoreRuns
  <2>4. Advances /\ regs' = regs /\ fregs' = fregs /\ fflags' = fflags
    BY <2>3 DEF Puts
  <2>5. /\ mtime' = 21
        /\ OnLine(26)'
        /\ regs' = regs
        /\ fregs' = fregs
        /\ fflags' = fflags
    BY <1>2, <1>23, <2>4 DEF Writes, FpSets, FpWrites, Result
  <2>6. /\ regs'[T0] = regs[T0] /\ regs'[S0] = regs[S0] /\ regs'[S1] = regs[S1]
        /\ regs'[S2] = regs[S2] /\ regs'[T3] = regs[T3] /\ regs'[A0] = regs[A0]
    BY <2>5
  <2>7. /\ fregs'[1] = fregs[1] /\ fregs'[2] = fregs[2]
    BY <2>5
  <2> QED BY <1>23, <2>5, <2>6, <2>7 DEF SumsFacts
<1>24. CASE mtime = 21
  <2>1. AtWord(enc_i(0, T3, 2, 4, OP_LOAD_FP))
    BY <1>1, <1>24 DEF SumsText, AtWord
  <2>2. regs[T3] = DATA
    BY <1>24 DEF SumsFacts
  <2>r. Names(T3, 0, DATA, 4)
    BY <2>2, DataWord DEF Names
  <2>4. Advances /\ regs' = regs /\ fflags' = fflags
        /\ \E x : fregs' = [fregs EXCEPT ![4] = x]
    <3>1. T3 \in Registers /\ 4 \in Registers
      BY InRange DEF Registers
    <3> QED BY <2>1, <2>r, <3>1, FpLoadRuns
  <2>5. /\ mtime' = 22
        /\ OnLine(26)'
        /\ regs' = regs
        /\ fflags' = fflags
    BY <1>2, <1>24, <2>4 DEF Writes, FpSets, FpWrites, Result
  <2>6. /\ regs'[T0] = regs[T0] /\ regs'[S0] = regs[S0] /\ regs'[S1] = regs[S1]
        /\ regs'[S2] = regs[S2] /\ regs'[T3] = regs[T3] /\ regs'[A0] = regs[A0]
    BY <2>5
  <2>7. /\ fregs'[1] = fregs[1] /\ fregs'[2] = fregs[2]
    BY <1>1, <2>4 DEF Registers
  <2> QED BY <1>24, <2>5, <2>6, <2>7 DEF SumsFacts
<1>25. CASE mtime = 22
  <2>1. AtWord(enc_r(96, 0, 1, 0, T1, OP_FP))
    BY <1>1, <1>25 DEF SumsText, AtWord
  <2>2. fregs[1] = a /\ fflags = ((Bits(keep) \cup Noted(12, a, b)) \cup Noted(8, a, b))
    BY <1>25 DEF SumsFacts
  <2>r. 0 \in 0 .. 3 /\ 0 \in {0, 1} /\ T1 \in 1 .. 31 /\ 1 \in Registers
    BY InRange DEF Registers
  <2>3. FpWrites(T1, fp_float_to_int(0, csr[CSR_FRM], fregs[1], 0 = 1))
    BY <2>1, <2>r, ToIntRuns
  <2>z. fp_float_to_int(0, csr[CSR_FRM], a, 0 = 1).flags = Turned(a)
    BY DEF fp_float_to_int, Turned, Result
  <2>4. Advances /\ fregs' = fregs /\ fflags' = (((Bits(keep) \cup Noted(12, a, b)) \cup Noted(8, a, b)) \cup Turned(a))
        /\ \E x : regs' = [regs EXCEPT ![T1] = x]
    BY <2>2, <2>3, <2>z DEF FpWrites
  <2>5. /\ mtime' = 23
        /\ OnLine(26)'
        /\ fregs' = fregs
        /\ fflags' = (((Bits(keep) \cup Noted(12, a, b)) \cup Noted(8, a, b)) \cup Turned(a))
    BY <1>2, <1>25, <2>4 DEF Writes, FpSets, FpWrites, Result
  <2>6. /\ regs'[T0] = regs[T0] /\ regs'[S0] = regs[S0] /\ regs'[S1] = regs[S1]
        /\ regs'[S2] = regs[S2] /\ regs'[T3] = regs[T3] /\ regs'[A0] = regs[A0]
    BY <1>1, <2>4, Named DEF Registers
  <2>7. /\ fregs'[1] = fregs[1] /\ fregs'[2] = fregs[2]
    BY <2>5
  <2> QED BY <1>25, <2>5, <2>6, <2>7 DEF SumsFacts
<1>26. CASE mtime = 23
  <2>1. AtWord(enc_r(16, 2, 1, 0, 5, OP_FP))
    BY <1>1, <1>26 DEF SumsText, AtWord
  <2>r. 5 \in 1 .. 31 /\ 1 \in Registers /\ 2 \in Registers
    BY DEF Registers
  <2>3. FpSets(5, Result((fregs[1] % Half) + Half * sign(fregs[2]), {}))
    BY <2>1, <2>r, SignRuns
  <2>4. Advances /\ regs' = regs /\ fflags' = fflags
        /\ \E x : fregs' = [fregs EXCEPT ![5] = x]
    BY <2>3 DEF FpSets, Result
  <2>5. /\ mtime' = 24
        /\ OnLine(26)'
        /\ regs' = regs
        /\ fflags' = fflags
    BY <1>2, <1>26, <2>4 DEF Writes, FpSets, FpWrites, Result
  <2>6. /\ regs'[T0] = regs[T0] /\ regs'[S0] = regs[S0] /\ regs'[S1] = regs[S1]
        /\ regs'[S2] = regs[S2] /\ regs'[T3] = regs[T3] /\ regs'[A0] = regs[A0]
    BY <2>5
  <2>7. /\ fregs'[1] = fregs[1] /\ fregs'[2] = fregs[2]
    BY <1>1, <2>4 DEF Registers
  <2> QED BY <1>26, <2>5, <2>6, <2>7 DEF SumsFacts
<1>27. CASE mtime = 24
  <2>1. AtWord(CsrWord(2, A0, CSR_FFLAGS, 0))
    BY <1>1, <1>27 DEF SumsText, AtWord
  <2>2. fflags = (((Bits(keep) \cup Noted(12, a, b)) \cup Noted(8, a, b)) \cup Turned(a))
    BY <1>27 DEF SumsFacts
  <2>3. Advances /\ regs' = [regs EXCEPT ![A0] = Number(fflags)] /\ fregs' = fregs
    BY <2>1, FlagsRead, InRange
  <2>4. Advances /\ regs' = [regs EXCEPT ![A0] = Number((((Bits(keep) \cup Noted(12, a, b)) \cup Noted(8, a, b)) \cup Turned(a)))] /\ fregs' = fregs
    BY <2>2, <2>3
  <2>5. /\ mtime' = 25
        /\ OnLine(26)'
        /\ regs' = [regs EXCEPT ![A0] = Number((((Bits(keep) \cup Noted(12, a, b)) \cup Noted(8, a, b)) \cup Turned(a)))]
        /\ fregs' = fregs
    BY <1>2, <1>27, <2>4 DEF Writes, FpSets, FpWrites, Result
  <2>6. /\ regs'[T0] = regs[T0] /\ regs'[S0] = regs[S0] /\ regs'[S1] = regs[S1]
        /\ regs'[S2] = regs[S2] /\ regs'[T3] = regs[T3] /\ regs'[A0] = Number((((Bits(keep) \cup Noted(12, a, b)) \cup Noted(8, a, b)) \cup Turned(a)))
    BY <1>1, <2>5, Named DEF Registers
  <2>7. /\ fregs'[1] = fregs[1] /\ fregs'[2] = fregs[2]
    BY <2>5
  <2> QED BY <1>27, <2>5, <2>6, <2>7 DEF SumsFacts
<1>28. CASE mtime = 25
  <2>1. AtWord(EBREAK)
    BY <1>1, <1>28 DEF SumsText, AtWord
  <2>5. mtime' = mtime + 1 /\ state' = "HALTED" /\ regs' = regs /\ fregs' = fregs /\ fflags' = fflags /\ mem' = mem
    BY <2>1, EbreakRuns
  <2>6. OnLine(26)' /\ mtime' = 26
    BY <1>28, <2>5 DEF OnLine
  <2> QED BY <1>28, <2>5, <2>6 DEF SumsFacts
<1> QED BY <1>1, <1>3, <1>4, <1>5, <1>6, <1>7, <1>8, <1>9, <1>10, <1>11, <1>12, <1>13, <1>14, <1>15,
           <1>16, <1>17, <1>18, <1>19, <1>20, <1>21, <1>22, <1>23, <1>24, <1>25, <1>26, <1>27, <1>28
\* When the program of the flags is booted, it runs as above.
SumsInv ==
    boot.name = "sums" =>
        \E a \in Words, b \in Words, keep \in {0, 1, 16} :
            /\ boot.args = <<a, b, keep>> /\ SumsText(boot.code, a, b, keep)
            /\ SumsFacts(a, b, keep)

\* The promise at the end.
LEMMA SumsEnds ==
  ASSUME CInv, HostTyped, HostAnswers, JoinsFlags, SumsInv
  PROVE  FlagsOfAll
<1> SUFFICES ASSUME Ended("sums") PROVE FlagsOfAll
  BY DEF FlagsOfAll
<1>1. PICK a \in Words, b \in Words, keep \in {0, 1, 16} :
        boot.args = <<a, b, keep>> /\ SumsFacts(a, b, keep)
  BY DEF Ended, SumsInv
<1>2. mtime = 26
  BY <1>1 DEF Ended, SumsFacts, OnLine
<1> DEFINE q == Noted(12, a, b)
           m == Noted(8, a, b)
           t == Turned(a)
           k == Bits(keep)
<1>3. /\ regs[S0] = Number(q) /\ regs[S1] = Number(m) /\ regs[S2] = Number(t)
      /\ regs[A0] = Number((((k \cup q) \cup m) \cup t))
  BY <1>1, <1>2 DEF SumsFacts
<1>4. \A o \in Twofold : Noted(o, a, b) \in SUBSET Flags
  <2>1. ASSUME NEW o \in Twofold PROVE Noted(o, a, b) \in SUBSET Flags
    <3>1. "TONEAREST" \in HostModes /\ o \in Operations
      BY DEF HostModes, Twofold, Operations
    <3>2. HostArith(o, "TONEAREST", a, b) # {}
      BY <3>1 DEF HostAnswers
    <3>3. \A r \in HostArith(o, "TONEAREST", a, b) : r.flags \subseteq Flags
      BY <3>1 DEF HostTyped
    <3> QED BY <3>2, <3>3 DEF Noted
  <2> QED BY <2>1
<1>5. q \in SUBSET Flags /\ m \in SUBSET Flags
  <2>1. 12 \in Twofold /\ 8 \in Twofold
    BY DEF Twofold
  <2> QED BY <1>4, <2>1
<1>6. t \in SUBSET Flags
  <2>1. \A f \in Flags : \A cond : Raised(f, cond) \in SUBSET Flags
    BY DEF Raised
  <2>2. FP_NV \in Flags /\ FP_NX \in Flags
    BY DEF Flags
  <2> QED BY <2>1, <2>2 DEF Turned, fp_float_to_int, Result
<1>7. k \in SUBSET Flags /\ Number(k) = keep
  BY KeptFlags
<1> HIDE DEF q, m, t, k
<1>8. /\ BitOr(Number(q), Number(m)) = Number(q \cup m)
      /\ BitOr(Number(t), keep) = Number(t \cup k)
  BY <1>5, <1>6, <1>7 DEF JoinsFlags
<1>9. q \cup m \in SUBSET Flags /\ t \cup k \in SUBSET Flags
  BY <1>5, <1>6, <1>7
<1>10. BitOr(Number(q \cup m), Number(t \cup k)) = Number((q \cup m) \cup (t \cup k))
  BY <1>9 DEF JoinsFlags
<1>11. ((k \cup q) \cup m) \cup t = (q \cup m) \cup (t \cup k)
  OBVIOUS
<1>12. boot.args[3] = keep
  BY <1>1
<1> QED BY <1>3, <1>8, <1>10, <1>11, <1>12 DEF FlagsOfAll

\* For all operands, what the flags hold at the end of a computation is all that its
\* operations raised and nothing else (fpu.c, csr.c), whatever else is booted.
THEOREM FlagsKept ==
  ASSUME HostTyped, HostAnswers, HostDecides, JoinsFlags, XLEN <= 32, TextFits(26), DataFits(4),
         \A b \in Boots : b.name = "sums" => b \in Sums(Words)
  PROVE  Spec => []FlagsOfAll
<1>1. Init => CInv
  BY InitType
<1>2. CInv /\ [Next]_vars => CInv'
  BY StepType
<1>3. Init => SumsInv
  <2> SUFFICES ASSUME Init, boot.name = "sums"
               PROVE  \E a \in Words, b \in Words, keep \in {0, 1, 16} :
                        /\ boot.args = <<a, b, keep>> /\ SumsText(boot.code, a, b, keep)
                        /\ SumsFacts(a, b, keep)
    BY DEF SumsInv
  <2>1. boot \in Sums(Words)
    BY DEF Init
  <2>2. PICK a \in Words, b \in Words, keep \in {0, 1, 16} : boot = Booted("sums", <<a, b, keep>>, sums(a, b, keep), 90)
    BY ONLY <2>1 DEF Sums
  <2>3. boot.args = <<a, b, keep>> /\ boot.code = assemble(sums(a, b, keep), TEXT) /\ boot.entry = TEXT
        /\ boot.mtime = 0
    BY <2>2 DEF Booted
  <2>4. SumsText(boot.code, a, b, keep)
    BY <2>3, SumsAssembled DEF TextFits
  <2>5. mtime = 0 /\ state = "RUNNING" /\ pc = TEXT
    BY <2>3 DEF Init
  <2>6. SumsFacts(a, b, keep)
    BY <2>5 DEF SumsFacts, OnLine, TextFits
  <2> QED BY <2>3, <2>4, <2>6
<1>4. CInv /\ SumsInv /\ [Next]_vars => SumsInv'
  <2> SUFFICES ASSUME CInv, SumsInv, [Next]_vars PROVE SumsInv'
    OBVIOUS
  <2>1. CASE UNCHANGED vars
    <3>1. UNCHANGED <<boot, mtime, state, pc, regs, fregs, fflags>>
      BY <2>1 DEF vars
    <3>2. SUFFICES ASSUME boot.name = "sums"
                   PROVE  \E a \in Words, b \in Words, keep \in {0, 1, 16} :
                            /\ boot.args = <<a, b, keep>> /\ SumsText(boot.code, a, b, keep)
                            /\ SumsFacts(a, b, keep)'
      BY <3>1 DEF SumsInv
    <3>3. PICK a \in Words, b \in Words, keep \in {0, 1, 16} :
            /\ boot.args = <<a, b, keep>> /\ SumsText(boot.code, a, b, keep) /\ SumsFacts(a, b, keep)
      BY <3>2 DEF SumsInv
    <3>4. SumsFacts(a, b, keep)'
      BY <3>1, <3>3 DEF SumsFacts, OnLine
    <3> QED BY <3>3, <3>4
  <2>2. CASE Step
    <3>1. boot' = boot
      BY <2>2 DEF Step
    <3>2. SUFFICES ASSUME boot.name = "sums"
                   PROVE  \E a \in Words, b \in Words, keep \in {0, 1, 16} :
                            /\ boot.args = <<a, b, keep>> /\ SumsText(boot.code, a, b, keep)
                            /\ SumsFacts(a, b, keep)'
      BY <3>1 DEF SumsInv
    <3>3. PICK a \in Words, b \in Words, keep \in {0, 1, 16} :
            /\ boot.args = <<a, b, keep>> /\ SumsText(boot.code, a, b, keep) /\ SumsFacts(a, b, keep)
      BY <3>2 DEF SumsInv
    <3>4. SumsFacts(a, b, keep)'
      BY <2>2, <3>3, SumsStep
    <3> QED BY <3>3, <3>4
  <2> QED BY <2>1, <2>2 DEF Next, Returned
<1>5. CInv /\ SumsInv => FlagsOfAll
  BY SumsEnds
<1> QED BY <1>1, <1>2, <1>3, <1>4, <1>5, PTL DEF Spec
-----------------------------------------------------------------------------
\* Conversions.

\* The host's mode for a static one.
ModeOf(rm) == host_rounding(rm, 0)

\* It is the mode the host is set to, whatever frm says.
LEMMA StaticMode ==
  ASSUME NEW rm \in 0 .. 3, NEW frm
  PROVE  /\ host_rounding(rm, frm) = ModeOf(rm)
         /\ rm = 0 <=> ModeOf(rm) = "TONEAREST"
         /\ rm = 2 <=> ModeOf(rm) = "DOWNWARD"
         /\ rm = 3 <=> ModeOf(rm) = "UPWARD"
<1>1. rm \in {0, 1, 2, 3}
  OBVIOUS
<1> QED BY <1>1 DEF host_rounding, ModeOf

\* A quotient q with remainder r, rounded: d is the unit, b the whole part.
Up(rm, neg, q, r, d) ==
    \/ rm = 0 /\ (2 * r > d \/ (2 * r = d /\ q % 2 = 1))
    \/ rm = 2 /\ neg /\ r > 0
    \/ rm = 3 /\ ~neg /\ r > 0

\* n units of it are the rounding of v.
Nearest(rm, neg, d, q, r, s, n, v) ==
    /\ s = (IF Up(rm, neg, q, r, d) THEN q + 1 ELSE q)
    /\ n = (IF neg THEN -(d * s) ELSE d * s)
    /\ v = (IF neg THEN -(d * q + r) ELSE d * q + r)

\* Its multiple of the unit is right, and exact if nothing remains.
LEMMA RoundedUnits ==
  ASSUME NEW rm \in 0 .. 3, NEW neg \in BOOLEAN, NEW d \in Nat \ {0}, NEW q \in Nat,
         NEW r \in 0 .. d - 1, NEW s \in Int, NEW n \in Int, NEW v \in Int,
         Nearest(rm, neg, d, q, r, s, n, v)
  PROVE  IsRounded(rm, n, v, d) /\ (n = v <=> r = 0)
<1> USE DEF Nearest
<1> DEFINE b == d * q
<1>1. b \in Nat /\ d * s = (IF Up(rm, neg, q, r, d) THEN b + d ELSE b)
  <2>1. d * q \in Nat /\ d * (q + 1) = d * q + d
    OBVIOUS
  <2> QED BY <2>1
<1>2. 2 * r = d => n \div d = (IF neg THEN -s ELSE s)
  <2>1. 0 \in 0 .. d - 1
    OBVIOUS
  <2>2. (d * s + 0) \div d = s
    BY ONLY <2>1, d \in Nat \ {0}, s \in Int, DivisionUnique
  <2>3. (d * (-s) + 0) \div d = -s
    <3>1. -s \in Int
      OBVIOUS
    <3> QED BY ONLY <2>1, <3>1, d \in Nat \ {0}, DivisionUnique
  <2>4. d * s + 0 = d * s /\ d * (-s) + 0 = -(d * s)
    OBVIOUS
  <2> QED BY <2>2, <2>3, <2>4
<1>3. /\ v = (IF neg THEN -(b + r) ELSE b + r)
      /\ n = (IF neg THEN -(d * s) ELSE d * s)
  OBVIOUS
<1> HIDE DEF b
<1> DEFINE p == d * s
<1>4. /\ p = (IF Up(rm, neg, q, r, d) THEN b + d ELSE b)
      /\ n = (IF neg THEN -p ELSE p)
  BY <1>1, <1>3
<1> HIDE DEF p
<1>5. CASE rm = 0
  <2>1. Up(rm, neg, q, r, d) <=> (2 * r > d \/ (2 * r = d /\ q % 2 = 1))
    BY <1>5 DEF Up
  <2>2. p = b \/ p = b + d
    BY <1>4
  <2>3. Magnitude(n - v) = (IF Up(rm, neg, q, r, d) THEN d - r ELSE r)
    BY ONLY <1>1, <1>3, <1>4, neg \in BOOLEAN, r \in 0 .. d - 1, d \in Nat \ {0} DEF Magnitude
  <2>4. 2 * Magnitude(n - v) <= d
    BY <2>1, <2>3
  <2>5. ASSUME 2 * Magnitude(n - v) = d PROVE (n \div d) % 2 = 0
    <3>1. 2 * r = d
      BY <2>3, <2>5
    <3>2. s = (IF q % 2 = 1 THEN q + 1 ELSE q)
      BY <2>1, <3>1
    <3>3. s % 2 = 0 /\ (-s) % 2 = 0
      BY <3>2
    <3> QED BY <1>2, <3>1, <3>3
  <2>6. n = v <=> r = 0
    BY ONLY <1>1, <1>3, <1>4, <2>1, neg \in BOOLEAN, r \in 0 .. d - 1, d \in Nat \ {0}
  <2> QED BY <1>5, <2>4, <2>5, <2>6 DEF IsRounded
<1>6. CASE rm = 1
  <2>1. p = b
    BY <1>4, <1>6 DEF Up
  <2> QED BY <1>1, <1>3, <1>4, <1>6, <2>1 DEF IsRounded, Magnitude
<1>7. CASE rm = 2
  <2>1. p = (IF neg /\ r > 0 THEN b + d ELSE b)
    BY <1>4, <1>7 DEF Up
  <2> QED BY <1>1, <1>3, <1>4, <1>7, <2>1 DEF IsRounded
<1>8. CASE rm = 3
  <2>1. p = (IF ~neg /\ r > 0 THEN b + d ELSE b)
    BY <1>4, <1>8 DEF Up
  <2> QED BY <1>1, <1>3, <1>4, <1>8, <2>1 DEF IsRounded
<1> QED BY <1>5, <1>6, <1>7, <1>8

\* So is the host's, also in units that are c times as small; what was rounded in one
\* unit is rounded in a greater one.
LEMMA HostRounds ==
  ASSUME NEW rm \in 0 .. 3, NEW neg \in BOOLEAN, NEW m \in Nat, NEW d \in Nat \ {0},
         NEW c \in Nat \ {0}, NEW s, s = Rounded(ModeOf(rm), neg, m, d)
  PROVE  LET n == IF neg THEN -((d * c) * s) ELSE (d * c) * s
             v == IF neg THEN -(m * c) ELSE m * c IN
         s \in Nat /\ IsRounded(rm, n, v, d * c) /\ (n = v <=> m % d = 0)
<1> DEFINE q == m \div d
           r == m % d
           D == d * c
           rest == r * c
           n == IF neg THEN -(D * s) ELSE D * s
           v == IF neg THEN -(m * c) ELSE m * c
<1>1. q \in Nat /\ r \in 0 .. d - 1 /\ m = d * q + r /\ s \in Nat
  BY RoundedType
<1>2. s = (IF Up(rm, neg, q, r, d) THEN q + 1 ELSE q)
  <2>1. Rounded(ModeOf(rm), neg, m, d) = (IF Up(rm, neg, q, r, d) THEN q + 1 ELSE q)
    BY StaticMode DEF Rounded, Up
  <2> QED BY <2>1
<1> HIDE DEF q, r
<1>3. D \in Nat \ {0} /\ rest \in 0 .. D - 1 /\ (rest = 0 <=> r = 0) /\ (rest > 0 <=> r > 0)
      /\ (2 * rest > D <=> 2 * r > d) /\ (2 * rest = D <=> 2 * r = d)
  <2>1. D \in Nat \ {0}
    BY <1>1
  <2>2. (d - r) * c = D - rest /\ (2 * r - d) * c = 2 * rest - D
    BY <1>1
  <2>3. \A x \in Int : (x > 0 <=> x * c > 0) /\ (x = 0 <=> x * c = 0)
    BY <1>1
  <2>4. rest \in Int /\ (rest > 0 <=> r > 0) /\ (rest = 0 <=> r = 0)
    BY <1>1, <2>3
  <2>5. D - rest > 0
    <3>1. d - r \in Int /\ d - r > 0
      BY <1>1
    <3>2. (d - r) * c > 0
      BY <2>3, <3>1
    <3> QED BY <2>2, <3>2
  <2>6. (2 * rest > D <=> 2 * r > d) /\ (2 * rest = D <=> 2 * r = d)
    <3> DEFINE x == 2 * r - d
    <3>1. x \in Int /\ x * c = 2 * rest - D
      BY <1>1, <2>2
    <3>2. (x > 0 <=> 2 * rest - D > 0) /\ (x = 0 <=> 2 * rest - D = 0)
      BY <2>3, <3>1
    <3> QED BY <1>1, <2>1, <2>4, <3>2
  <2> QED BY <1>1, <2>1, <2>4, <2>5, <2>6
<1>4. Up(rm, neg, q, rest, D) <=> Up(rm, neg, q, r, d)
  BY <1>3 DEF Up
<1>5. m * c = D * q + rest
  BY <1>1
<1> HIDE DEF D, rest
<1>6. /\ Nearest(rm, neg, D, q, rest, s, n, v)
      /\ n \in Int /\ v \in Int /\ s \in Int /\ D \in Nat \ {0} /\ q \in Nat /\ rest \in 0 .. D - 1
  BY <1>1, <1>2, <1>3, <1>4, <1>5 DEF Nearest
<1> HIDE DEF n, v
<1>7. IsRounded(rm, n, v, D) /\ (n = v <=> rest = 0)
  BY ONLY <1>6, rm \in 0 .. 3, neg \in BOOLEAN, RoundedUnits
<1> QED BY <1>1, <1>3, <1>7 DEF n, v, D, r

\* What is rounded to a unit is rounded to a coarser one, if that is where it lands.
LEMMA CoarserUnit ==
  ASSUME NEW rm \in 0 .. 3, NEW n \in Int, NEW v \in Int, NEW d \in Nat \ {0}, NEW e \in Nat,
         e >= d, IsRounded(rm, n, v, d)
  PROVE  IsRounded(rm, n, v, e)
<1>1. CASE rm = 0
  <2>1. Magnitude(n - v) \in Nat
    BY DEF Magnitude
  <2>2. 2 * Magnitude(n - v) <= d /\ (2 * Magnitude(n - v) = d => (n \div d) % 2 = 0)
    BY <1>1 DEF IsRounded
  <2>3. CASE e = d
    BY <2>3
  <2>4. CASE e > d
    <3>1. 2 * Magnitude(n - v) <= e /\ 2 * Magnitude(n - v) # e
      BY <2>1, <2>2, <2>4
    <3> QED BY <1>1, <3>1 DEF IsRounded
  <2> QED BY <2>3, <2>4
<1>2. CASE rm = 1
  BY <1>2 DEF IsRounded, Magnitude
<1>3. CASE rm = 2
  BY <1>3 DEF IsRounded
<1>4. CASE rm = 3
  BY <1>4 DEF IsRounded
<1> QED BY <1>1, <1>2, <1>3, <1>4
\* A pattern and its parts.
LEMMA PatternParts ==
  ASSUME NEW a \in Words
  PROVE  /\ frac(a) \in 0 .. FracCount - 1 /\ exp(a) \in 0 .. ExpCount - 1
         /\ a % Half = FracCount * exp(a) + frac(a)
<1> DEFINE x == a % Half
           y == x % FracCount
<1>1. /\ FracCount \in Nat \ {0} /\ ExpCount \in Nat /\ Half = FracCount * ExpCount
      /\ sign(a) \in {0, 1} /\ x \in 0 .. Half - 1 /\ a = sign(a) * Half + x
  BY FormatSizes, SignType
<1>2. exp(a) \in Int /\ y \in 0 .. FracCount - 1 /\ x = FracCount * exp(a) + y
  <2>1. x \in Int /\ x \div FracCount \in Int /\ x = FracCount * (x \div FracCount) + (x % FracCount)
        /\ x % FracCount \in 0 .. FracCount - 1
    <3> HIDE DEF x
    <3>1. x \in Int /\ FracCount \in Nat \ {0}
      BY <1>1
    <3> QED BY ONLY <3>1
  <2> QED BY <2>1 DEF exp
<1> HIDE DEF x, y
<1>3. frac(a) = y
  <2>1. a = FracCount * (sign(a) * ExpCount + exp(a)) + y
    <3>1. CASE sign(a) = 0
      <4>1. sign(a) * ExpCount + exp(a) = exp(a) /\ sign(a) * Half = 0
        BY <1>1, <1>2, <3>1
      <4> QED BY <1>1, <1>2, <4>1
    <3>2. CASE sign(a) = 1
      <4>1. sign(a) * ExpCount + exp(a) = ExpCount + exp(a) /\ sign(a) * Half = Half
        BY <1>1, <1>2, <3>2
      <4>2. FracCount * (ExpCount + exp(a)) = Half + FracCount * exp(a)
        BY <1>1, <1>2
      <4> QED BY <1>1, <1>2, <4>1, <4>2
    <3> QED BY <1>1, <3>1, <3>2
  <2>2. sign(a) * ExpCount + exp(a) \in Int
    BY <1>1, <1>2
  <2> DEFINE q == sign(a) * ExpCount + exp(a)
  <2>3. FracCount \in Nat \ {0} /\ q \in Int /\ y \in 0 .. FracCount - 1 /\ a = FracCount * q + y
    BY <1>1, <1>2, <2>1, <2>2
  <2> HIDE DEF q
  <2>4. (FracCount * q + y) % FracCount = y
    BY ONLY <2>3, DivisionUnique
  <2> QED BY <2>3, <2>4 DEF frac
<1>4. exp(a) \in 0 .. ExpCount - 1
  <2> DEFINE e == exp(a)
  <2>1. e \in Int /\ FracCount * e <= x /\ x < FracCount * e + FracCount
        /\ 0 <= x /\ x < FracCount * ExpCount
    BY <1>1, <1>2
  <2> HIDE DEF e
  <2>2. e >= 0
    <3> SUFFICES ASSUME e <= -1 PROVE FALSE
      BY <2>1
    <3>1. FracCount * (e + 1) <= 0
      BY <1>1, <2>1
    <3> QED BY <1>1, <2>1, <3>1
  <2>3. e < ExpCount
    <3> SUFFICES ASSUME e >= ExpCount PROVE FALSE
      BY <1>1, <2>1
    <3>1. FracCount * e >= FracCount * ExpCount
      BY <1>1, <2>1
    <3>2. FracCount * e \in Int /\ FracCount * ExpCount \in Int /\ x \in Int
      BY <1>1, <2>1
    <3> QED BY <2>1, <3>1, <3>2
  <2> QED BY <1>1, <2>1, <2>2, <2>3 DEF e
<1> QED BY <1>2, <1>3, <1>4 DEF x

\* The exponent decides between powers of two.
LEMMA PowerBelow ==
  ASSUME NEW a \in Words, NEW k \in Int
  PROVE  /\ a % Half >= Power(k) <=> exp(a) >= Bias + k
         /\ a % Half = Power(k) <=> exp(a) = Bias + k /\ frac(a) = 0
         /\ Power(k) \in Int /\ a % Half \in Int
<1> DEFINE e == exp(a)
           f == frac(a)
           n == Bias + k
<1>1. /\ FracCount \in Nat \ {0} /\ e \in Int /\ f \in 0 .. FracCount - 1 /\ n \in Int
      /\ a % Half = FracCount * e + f /\ Power(k) = FracCount * n
  BY PatternParts, FormatSizes DEF Power
<1> HIDE DEF e, f, n
<1>2. FracCount * e \in Int /\ FracCount * n \in Int
  BY <1>1
<1>3. CASE e >= n + 1
  <2>1. FracCount * e >= FracCount * (n + 1)
    BY <1>1, <1>3
  <2>2. FracCount * (n + 1) = FracCount * n + FracCount
    BY <1>1
  <2> QED BY <1>1, <1>2, <1>3, <2>1, <2>2 DEF e, f, n
<1>4. CASE e = n
  BY <1>1, <1>2, <1>4 DEF e, f, n
<1>5. CASE e <= n - 1
  <2>1. FracCount * e <= FracCount * (n - 1)
    BY <1>1, <1>5
  <2>2. FracCount * (n - 1) = FracCount * n - FracCount
    BY <1>1
  <2> QED BY <1>1, <1>2, <1>5, <2>1, <2>2 DEF e, f, n
<1> QED BY <1>1, <1>3, <1>4, <1>5

\* The magnitude of a number in its units.
Mag(v) == Mantissa(v) * (IF Scale(v) < 0 THEN Pow2[-Scale(v)] ELSE 1)

\* The units of a number in the range of the integers.
LEMMA UnitsAre ==
  ASSUME NEW a \in Words, a % Half < Power(XLEN)
  PROVE  /\ exp(a) <= Bias + XLEN - 1
         /\ Scale(a) \in Int /\ -Scale(a) <= XLEN - 1 - FracBits
         /\ One(a) \in Nat \ {0} /\ Mantissa(a) \in 0 .. 2 * FracCount - 1 /\ Mag(a) \in Nat
         /\ InUnits(a) = (IF sign(a) = 1 THEN -Mag(a) ELSE Mag(a))
         /\ Scale(a) <= 0 => One(a) = 1
         /\ Scale(a) >= 0 => Mag(a) = Mantissa(a)
         /\ Mag(a) = 0 <=> a % Half = 0
<1>1. /\ XLEN \in Nat /\ FracBits \in Nat /\ FracBits + 3 <= XLEN /\ FracBits >= 1
      /\ FracCount \in Nat \ {0} /\ FracCount >= 2 /\ Bias \in Nat
  BY Widths, FormatSizes
<1>2. exp(a) <= Bias + XLEN - 1 /\ exp(a) \in Nat /\ frac(a) \in 0 .. FracCount - 1
      /\ a % Half = FracCount * exp(a) + frac(a)
  BY <1>1, PowerBelow, PatternParts
<1>3. Scale(a) \in Int /\ -Scale(a) <= XLEN - 1 - FracBits
  BY <1>1, <1>2 DEF Scale
<1>4. Mantissa(a) \in 0 .. 2 * FracCount - 1
  BY <1>1, <1>2 DEF Mantissa
<1>5. \A k \in 0 .. XLEN : Pow2[k] \in Nat \ {0}
  BY PowerType
<1>6. One(a) \in Nat \ {0} /\ (Scale(a) <= 0 => One(a) = 1)
  <2>1. Scale(a) <= 0 => One(a) = 1
    BY SmallPowers DEF One
  <2>2. CASE Scale(a) > 0
    <3> DEFINE k == IF Scale(a) <= 0 THEN 0 ELSE IF Scale(a) > FracBits + 2 THEN FracBits + 2 ELSE Scale(a)
    <3>1. k \in 0 .. XLEN /\ One(a) = Pow2[k]
      BY <1>1, <1>3, <2>2 DEF One
    <3> HIDE DEF k
    <3>2. One(a) \in Nat \ {0}
      BY <1>5, <3>1
    <3> QED BY <1>3, <2>2, <3>2
  <2> QED BY <1>3, <2>1, <2>2
<1>7. CASE Scale(a) < 0
  <2> DEFINE p == Pow2[-Scale(a)]
  <2>1. p \in Nat \ {0}
    <3>1. -Scale(a) \in 0 .. XLEN
      BY <1>1, <1>3, <1>7
    <3> QED BY <1>5, <3>1
  <2>2. Mag(a) = Mantissa(a) * p
    BY <1>7 DEF Mag
  <2> HIDE DEF p
  <2>3. Mag(a) \in Nat
    BY <1>4, <2>1, <2>2
  <2>4. exp(a) # 0
    BY <1>1, <1>2, <1>7 DEF Scale
  <2>5. Mantissa(a) >= FracCount
    BY <1>1, <1>2, <2>4 DEF Mantissa
  <2>6. Mantissa(a) >= 1 /\ Mantissa(a) \in Nat
    BY <1>1, <1>4, <2>5
  <2>7. Mag(a) # 0
    BY <2>1, <2>2, <2>6
  <2>8. FracCount * exp(a) >= FracCount * 1
    BY <1>1, <1>2, <2>4
  <2>9. a % Half # 0
    BY <1>1, <1>2, <2>8
  <2>10. InUnits(a) = (IF sign(a) = 1 THEN -Mag(a) ELSE Mag(a))
    <3>1. InUnits(a) = (IF sign(a) = 1 THEN -1 ELSE 1) * Mag(a)
      BY DEF InUnits, Mag
    <3> QED BY <2>3, <3>1
  <2> QED BY <1>2, <1>3, <1>4, <1>6, <1>7, <2>3, <2>7, <2>9, <2>10
<1>8. CASE Scale(a) >= 0
  <2>1. Mag(a) = Mantissa(a)
    BY <1>3, <1>4, <1>8 DEF Mag
  <2>2. InUnits(a) = (IF sign(a) = 1 THEN -Mag(a) ELSE Mag(a))
    <3>1. InUnits(a) = (IF sign(a) = 1 THEN -1 ELSE 1) * Mag(a)
      BY DEF InUnits, Mag
    <3> QED BY <1>4, <2>1, <3>1
  <2>3. Mag(a) = 0 <=> a % Half = 0
    <3>1. CASE exp(a) = 0
      BY <1>1, <1>2, <2>1, <3>1 DEF Mantissa
    <3>2. CASE exp(a) # 0
      <4>1. FracCount * exp(a) >= FracCount * 1
        BY <1>1, <1>2, <3>2
      <4> QED BY <1>1, <1>2, <2>1, <3>2, <4>1 DEF Mantissa
    <3> QED BY <3>1, <3>2
  <2> QED BY <1>2, <1>3, <1>4, <1>6, <1>8, <2>1, <2>2, <2>3
<1> QED BY <1>3, <1>7, <1>8
\* The nearest integer is the rounded quotient of the magnitude and the unit, and a
\* number is an integer if nothing remains.
LEMMA NearbyIs ==
  ASSUME NEW a \in Words, a % Half < Power(XLEN), NEW mode
  PROVE  /\ Nearby(mode, a) = Rounded(mode, sign(a) = 1, Mag(a), One(a))
         /\ IsInteger(a) <=> Mag(a) % One(a) = 0
<1>1. /\ XLEN \in Nat /\ FracBits \in Nat /\ FracBits + 3 <= XLEN /\ FracBits >= 1
      /\ FracCount \in Nat \ {0} /\ Pow2[0] = 1
  BY Widths, FormatSizes, SmallPowers
<1>2. /\ Scale(a) \in Int /\ -Scale(a) <= XLEN - 1 - FracBits
      /\ One(a) \in Nat \ {0} /\ Mantissa(a) \in 0 .. 2 * FracCount - 1 /\ Mag(a) \in Nat
      /\ (Scale(a) <= 0 => One(a) = 1) /\ (Scale(a) >= 0 => Mag(a) = Mantissa(a))
  BY UnitsAre
<1>3. CASE Scale(a) <= 0
  <2>1. Nearby(mode, a) = Mag(a)
    <3>1. CASE Scale(a) < 0
      BY <1>2, <1>3, <3>1 DEF Nearby, Mag
    <3>2. CASE Scale(a) = 0
      BY <1>1, <1>2, <3>2 DEF Nearby
    <3> QED BY <1>2, <1>3, <3>1, <3>2
  <2>2. Mag(a) \div 1 = Mag(a) /\ Mag(a) % 1 = 0
    BY <1>2
  <2>3. Rounded(mode, sign(a) = 1, Mag(a), 1) = Mag(a)
    BY <2>2 DEF Rounded
  <2> QED BY <1>2, <1>3, <2>1, <2>2, <2>3 DEF IsInteger
<1>4. CASE Scale(a) > 0
  <2> DEFINE k == IF Scale(a) > FracBits + 2 THEN FracBits + 2 ELSE Scale(a)
  <2>1. One(a) = Pow2[k] /\ Mag(a) = Mantissa(a) /\ ~(Scale(a) <= 0)
    BY <1>2, <1>4 DEF One
  <2>2. Nearby(mode, a) = Rounded(mode, sign(a) = 1, Mag(a), One(a))
    BY <2>1 DEF Nearby
  <2>3. CASE Scale(a) <= FracBits
    <3>1. One(a) = Pow2[Scale(a)]
      BY <1>1, <1>2, <2>1, <2>3
    <3>2. 0 % One(a) = 0
      BY <1>2
    <3> QED BY <2>1, <2>2, <2>3, <3>1, <3>2 DEF IsInteger
  <2>4. CASE ~(Scale(a) <= FracBits)
    <3>1. k \in 0 .. XLEN /\ FracBits + 1 <= k /\ FracBits + 1 \in 0 .. XLEN
      BY <1>1, <1>2, <1>4, <2>4
    <3> HIDE DEF k
    <3>2. Pow2[FracBits + 1] <= Pow2[k]
      BY <3>1, PowerMonotone
    <3>3. Pow2[FracBits + 1] = FracCount * 2
      <4>1. FracBits \in 0 .. XLEN /\ 1 \in 0 .. XLEN /\ FracBits + 1 <= XLEN
        BY <1>1
      <4>2. Pow2[FracBits + 1] = Pow2[FracBits] * Pow2[1]
        BY <4>1, PowerSum
      <4> QED BY <4>2, SmallPowers DEF FracCount
    <3>4. Mantissa(a) < One(a) /\ Mantissa(a) \in Nat
      BY <1>1, <1>2, <2>1, <3>2, <3>3
    <3>5. Mantissa(a) % One(a) = Mantissa(a)
      BY <1>2, <3>4
    <3> QED BY <2>1, <2>2, <2>4, <3>5 DEF IsInteger
  <2> QED BY <2>3, <2>4
<1> QED BY <1>2, <1>3, <1>4

\* How great it is: at most 2^(XLEN - 1) - 1 below that power of two; from there to the
\* next at most 2^XLEN - 1 and an integer.
LEMMA MagBounds ==
  ASSUME NEW a \in Words, a % Half < Power(XLEN)
  PROVE  /\ exp(a) < Bias + (XLEN - 1) => Mag(a) <= (Half - 1) * One(a)
         /\ exp(a) = Bias + (XLEN - 1) =>
               /\ One(a) = 1 /\ Half <= Mag(a) /\ Mag(a) <= Size - 1
               /\ Mag(a) = Half <=> frac(a) = 0
<1>1. /\ XLEN \in Nat /\ FracBits \in Nat /\ FracBits + 3 <= XLEN /\ FracBits >= 1
      /\ FracCount \in Nat \ {0} /\ Bias \in Nat /\ Half \in Nat \ {0} /\ Size = 2 * Half
      /\ Pow2[1] = 2
  BY Widths, FormatSizes, WordSizes, SmallPowers
<1>2. /\ Scale(a) \in Int /\ -Scale(a) <= XLEN - 1 - FracBits
      /\ One(a) \in Nat \ {0} /\ Mantissa(a) \in 0 .. 2 * FracCount - 1 /\ Mag(a) \in Nat
      /\ (Scale(a) <= 0 => One(a) = 1) /\ (Scale(a) >= 0 => Mag(a) = Mantissa(a))
  BY UnitsAre
<1>3. exp(a) \in Nat /\ frac(a) \in 0 .. FracCount - 1
  BY PatternParts, FormatSizes
<1> DEFINE top == XLEN - 1 - FracBits
           p == Pow2[top]
           h == Pow2[top - 1]
<1>4. FracCount * p = Half
  <2>1. FracBits \in 0 .. XLEN /\ top \in 0 .. XLEN /\ FracBits + top <= XLEN /\ FracBits + top = XLEN - 1
    BY <1>1
  <2> HIDE DEF top
  <2>2. Pow2[FracBits + top] = Pow2[FracBits] * Pow2[top]
    BY <2>1, PowerSum
  <2>3. Half = Pow2[XLEN - 1]
    BY DEF Half
  <2> QED BY <2>1, <2>2, <2>3 DEF FracCount
<1>5. p = 2 * h /\ h \in Nat \ {0} /\ p \in Nat \ {0}
  <2>1. top - 1 \in 0 .. XLEN /\ 1 \in 0 .. XLEN /\ (top - 1) + 1 = top /\ top <= XLEN /\ top \in 0 .. XLEN
    BY <1>1
  <2> HIDE DEF top
  <2>2. Pow2[(top - 1) + 1] = Pow2[top - 1] * Pow2[1]
    BY <2>1, PowerSum
  <2>3. Pow2[top - 1] \in Nat \ {0} /\ Pow2[top] \in Nat \ {0}
    BY <2>1, PowerType
  <2> QED BY <1>1, <2>1, <2>2, <2>3
<1>6. ASSUME exp(a) = Bias + (XLEN - 1)
      PROVE  One(a) = 1 /\ Half <= Mag(a) /\ Mag(a) <= Size - 1 /\ (Mag(a) = Half <=> frac(a) = 0)
  <2>1. exp(a) # 0
    BY <1>1, <1>6
  <2>2. -Scale(a) = top /\ Scale(a) < 0 /\ Mantissa(a) = FracCount + frac(a)
    BY <1>1, <1>3, <1>6, <2>1 DEF Scale, Mantissa
  <2>3. Mag(a) = (FracCount + frac(a)) * p
    BY <2>2 DEF Mag
  <2> HIDE DEF p, h, top
  <2>4. (FracCount + frac(a)) * p = Half + frac(a) * p
    <3>1. FracCount \in Int /\ frac(a) \in Int /\ p \in Int
      BY <1>1, <1>3, <1>5
    <3>2. (FracCount + frac(a)) * p = FracCount * p + frac(a) * p
      BY ONLY <3>1
    <3> QED BY <1>4, <3>2
  <2>5. frac(a) * p \in Nat /\ (frac(a) * p = 0 <=> frac(a) = 0)
    BY <1>1, <1>3, <1>5
  <2>6. frac(a) * p <= Half - 1
    <3>1. frac(a) * p <= (FracCount - 1) * p
      BY <1>1, <1>3, <1>5
    <3>2. (FracCount - 1) * p = Half - p
      BY <1>1, <1>4, <1>5
    <3>3. frac(a) * p \in Int /\ p >= 1 /\ p \in Int
      BY <1>5, <2>5
    <3> QED BY <1>1, <3>1, <3>2, <3>3
  <2> QED BY <1>1, <1>2, <2>2, <2>3, <2>4, <2>5, <2>6
<1>7. ASSUME exp(a) < Bias + (XLEN - 1)
      PROVE  Mag(a) <= (Half - 1) * One(a)
  <2> DEFINE M == Mantissa(a)
  <2>1. CASE Scale(a) >= 0
    <3>1. M <= Half - 1
      <4>1. 2 * FracCount - 1 <= Half - 1
        <5> HIDE DEF p, h, top
        <5>1. FracCount * p >= FracCount * 2
          BY <1>1, <1>5
        <5> QED BY <1>1, <1>4, <5>1
      <4> QED BY <1>1, <1>2, <4>1
    <3>2. (Half - 1) * One(a) >= (Half - 1) * 1
      BY <1>1, <1>2
    <3>3. (Half - 1) * One(a) \in Int
      BY <1>1, <1>2
    <3> QED BY <1>1, <1>2, <2>1, <3>1, <3>2, <3>3
  <2>2. CASE Scale(a) < 0
    <3>1. -Scale(a) <= top - 1 /\ -Scale(a) \in 0 .. XLEN /\ top - 1 \in 0 .. XLEN
      BY <1>1, <1>2, <1>3, <1>7, <2>2 DEF Scale
    <3> DEFINE x == Pow2[-Scale(a)]
    <3>2. x <= h /\ x \in Nat \ {0}
      BY <3>1, PowerMonotone, PowerType
    <3>3. Mag(a) = M * x /\ One(a) = 1
      BY <1>2, <2>2 DEF Mag
    <3> HIDE DEF x, p, h, top, M
    <3>4. M \in 0 .. 2 * FracCount - 1
      BY <1>2 DEF M
    <3>5. M * x <= (2 * FracCount - 1) * x
      BY <1>1, <3>2, <3>4
    <3>6. (2 * FracCount - 1) * x <= (2 * FracCount - 1) * h
      BY <1>1, <1>5, <3>2
    <3>7. (2 * FracCount - 1) * h = Half - h
      BY <1>1, <1>4, <1>5
    <3>8. M * x \in Int /\ (2 * FracCount - 1) * x \in Int /\ h \in Int /\ h >= 1
      BY <1>1, <1>5, <3>2, <3>4
    <3>9. M * x <= Half - 1
      BY <1>1, <3>5, <3>6, <3>7, <3>8
    <3> QED BY <1>1, <3>3, <3>9
  <2> QED BY <1>2, <2>1, <2>2
<1> QED BY <1>6, <1>7
\* What is at most a number of units is rounded to at most that number.
LEMMA RoundedBound ==
  ASSUME NEW mode, NEW neg, NEW m \in Nat, NEW d \in Nat \ {0}, NEW n \in Nat, m <= n * d
  PROVE  Rounded(mode, neg, m, d) \in Nat /\ Rounded(mode, neg, m, d) <= n
<1> DEFINE q == m \div d
           r == m % d
           s == Rounded(mode, neg, m, d)
<1>1. q \in Nat /\ r \in 0 .. d - 1 /\ m = d * q + r /\ s \in Nat /\ s \in {q, q + 1}
  BY RoundedType
<1>2. r = 0 => s = q
  BY DEF Rounded
<1> HIDE DEF q, r, s
<1>3. CASE q >= n + 1
  <2>1. d * q >= d * (n + 1)
    BY <1>1, <1>3
  <2>2. d * (n + 1) = n * d + d /\ d * q \in Int /\ n * d \in Int
    BY <1>1
  <2> QED BY <1>1, <2>1, <2>2
<1>4. CASE q = n
  <2>1. d * q = n * d /\ n * d \in Int
    BY <1>4
  <2>2. r = 0
    BY <1>1, <2>1
  <2> QED BY <1>1, <1>2, <1>4, <2>2 DEF s
<1>5. CASE q <= n - 1
  BY <1>1, <1>5 DEF s
<1> QED BY <1>1, <1>3, <1>4, <1>5

\* The flags that conversions raise.
LEMMA FlagNumbers ==
  /\ Number({}) = 0 /\ Number({FP_NV}) = 16 /\ Number({FP_NX}) = 1
  /\ \A f, c : Raised(f, c) = (IF c THEN {f} ELSE {})
<1>1. Number({}) = 0 /\ Number({FP_NV}) = 16 /\ Number({FP_NX}) = 1
  BY SmallPowers DEF Number, FlagBit, FP_NX, FP_UF, FP_OF, FP_DZ, FP_NV
<1>2. \A f, c : Raised(f, c) = (IF c THEN {f} ELSE {})
  BY DEF Raised
<1> QED BY <1>1, <1>2

\* A number in range becomes the rounded quotient, with its sign.
NearestTo(a, rm) == Rounded(ModeOf(rm), sign(a) = 1, Mag(a), One(a))

\* So the number the conversion gives is the rounded one, inexact if and only if it moved.
LEMMA InRangeRounds ==
  ASSUME NEW a \in Words, a % Half < Power(XLEN), NEW rm \in 0 .. 3, NEW frm,
         NEW n \in Int, n = (IF sign(a) = 1 THEN -NearestTo(a, rm) ELSE NearestTo(a, rm))
  PROVE  /\ Nearby(host_rounding(rm, frm), a) = NearestTo(a, rm) /\ NearestTo(a, rm) \in Nat
         /\ IsRounded(rm, n * One(a), InUnits(a), One(a))
         /\ Number(Raised(FP_NX, ~IsInteger(a))) = Truth(n * One(a) # InUnits(a))
<1> DEFINE d == One(a)
           m == Mag(a)
           s == NearestTo(a, rm)
           neg == sign(a) = 1
<1>1. d \in Nat \ {0} /\ m \in Nat /\ InUnits(a) = (IF neg THEN -m ELSE m) /\ neg \in BOOLEAN
  BY UnitsAre
<1>2. Nearby(host_rounding(rm, frm), a) = s /\ (IsInteger(a) <=> m % d = 0)
  BY NearbyIs, StaticMode DEF NearestTo
<1>3. s = Rounded(ModeOf(rm), neg, m, d)
  BY DEF NearestTo
<1>4. n = (IF neg THEN -s ELSE s)
  OBVIOUS
<1> HIDE DEF d, m, s, neg
<1>5. /\ s \in Nat
      /\ IsRounded(rm, IF neg THEN -((d * 1) * s) ELSE (d * 1) * s,
                   IF neg THEN -(m * 1) ELSE m * 1, d * 1)
      /\ ((IF neg THEN -((d * 1) * s) ELSE (d * 1) * s) = (IF neg THEN -(m * 1) ELSE m * 1)
          <=> m % d = 0)
  <2>1. 1 \in Nat \ {0}
    OBVIOUS
  <2> QED BY ONLY <1>1, <1>3, <2>1, rm \in 0 .. 3, HostRounds
<1>6. /\ d * 1 = d /\ m * 1 = m
      /\ (IF neg THEN -((d * 1) * s) ELSE (d * 1) * s) = n * d
  <2>1. n * d = (IF neg THEN -(d * s) ELSE d * s) /\ d * 1 = d /\ m * 1 = m
    BY <1>1, <1>4, <1>5
  <2> QED BY <2>1
<1>7. IsRounded(rm, n * d, InUnits(a), d) /\ (n * d = InUnits(a) <=> m % d = 0)
  BY <1>1, <1>5, <1>6
<1>8. Number(Raised(FP_NX, ~IsInteger(a))) = Truth(n * d # InUnits(a))
  <2>1. CASE IsInteger(a)
    BY <1>2, <1>7, <2>1, FlagNumbers DEF Truth
  <2>2. CASE ~IsInteger(a)
    BY <1>2, <1>7, <2>2, FlagNumbers DEF Truth
  <2> QED BY <2>1, <2>2
<1> QED BY <1>2, <1>5, <1>7, <1>8 DEF d, s
\* The conversion to an integer, for all numbers and every format.
ReadAs(u, w) == IF u THEN w ELSE Signed(w)

\* The conversion is right.
LEMMA ToIntRight ==
  ASSUME NEW a \in Words, NEW rm \in 0 .. 3, NEW frm, NEW u \in BOOLEAN
  PROVE  LET r == fp_float_to_int(rm, frm, a, u) IN
         IsIntegerOf(a, rm, u, ReadAs(u, r.bits), Number(r.flags))
<1> DEFINE r == fp_float_to_int(rm, frm, a, u)
           x == a % Half
           d == One(a)
           v == InUnits(a)
           s == NearestTo(a, rm)
<1>1. /\ Half \in Nat \ {0} /\ Size = 2 * Half /\ 0 \in Words /\ XLEN \in Nat /\ Bias \in Nat
      /\ sign(a) \in {0, 1} /\ x \in 0 .. Half - 1 /\ a = sign(a) * Half + x
  BY WordSizes, SignType, Widths, FormatSizes
<1>2. /\ Power(XLEN) \in Int /\ Power(XLEN - 1) \in Int /\ Power(XLEN - 1) < Power(XLEN)
      /\ 0 < Power(XLEN - 1)
  <2> DEFINE k == Bias + (XLEN - 1)
  <2>1. k \in Nat \ {0} /\ Bias + XLEN = k + 1 /\ FracCount \in Nat \ {0}
    BY <1>1, FormatSizes, Widths
  <2>2. Power(XLEN) = (k + 1) * FracCount /\ Power(XLEN - 1) = k * FracCount
    BY <2>1 DEF Power
  <2> HIDE DEF k
  <2>3. k * FracCount \in Nat \ {0} /\ (k + 1) * FracCount = k * FracCount + FracCount
    BY <2>1
  <2> QED BY <2>1, <2>2, <2>3
<1>3. /\ sign(a) = 1 => Order(a) = -x
      /\ sign(a) = 0 => Order(a) = x /\ a = x
  BY <1>1 DEF Order
<1>4. Number({}) = 0 /\ Number({FP_NV}) = 16 /\ \A c : Raised(FP_NV, c) = (IF c THEN {FP_NV} ELSE {})
  BY FlagNumbers
<1>5. Signed(Half - 1) = Half - 1 /\ Signed(Half) = -Half
  BY <1>1 DEF Signed
<1>6. CASE bits_is_nan(a)
  <2>1. r = Result(IF u THEN Size - 1 ELSE Half - 1, {FP_NV})
    BY <1>6 DEF fp_float_to_int
  <2>2. r.bits = (IF u THEN Size - 1 ELSE Half - 1) /\ Number(r.flags) = 16
    BY <1>4, <2>1 DEF Result
  <2> QED BY <1>5, <1>6, <2>2 DEF IsIntegerOf, ReadAs
<1>7. CASE ~bits_is_nan(a) /\ x >= Power(XLEN)
  <2>1. x >= Power(XLEN - 1) /\ x > Power(XLEN - 1) /\ x > 0 /\ x \in Int
    BY <1>1, <1>2, <1>7
  <2>2. CASE sign(a) = 1
    <3>1. Order(a) <= 0 /\ Order(a) < 0
      BY <1>3, <2>1, <2>2
    <3>2. r = (IF u THEN Result(0, Raised(FP_NV, Order(a) < 0)) ELSE Result(Half, {FP_NV}))
      BY <1>7, <2>1, <2>2, <3>1 DEF fp_float_to_int
    <3> DEFINE c == Order(a) < 0
    <3>4. c = TRUE
      BY <3>1
    <3> HIDE DEF c
    <3>5. r = (IF u THEN Result(0, {FP_NV}) ELSE Result(Half, {FP_NV}))
      BY <3>2, <3>4 DEF c, Raised
    <3>3. r.bits = (IF u THEN 0 ELSE Half) /\ Number(r.flags) = 16
      BY <1>4, <3>5 DEF Result
    <3> QED BY <1>5, <1>7, <2>2, <3>3 DEF IsIntegerOf, ReadAs
  <2>3. CASE sign(a) = 0
    <3>1. ~(Order(a) <= 0) /\ a >= Power(XLEN) /\ a >= Power(XLEN - 1)
      BY <1>3, <1>7, <2>1, <2>3
    <3>2. r = Result(IF u THEN Size - 1 ELSE Half - 1, {FP_NV})
      BY <1>7, <2>1, <2>3, <3>1 DEF fp_float_to_int
    <3>3. r.bits = (IF u THEN Size - 1 ELSE Half - 1) /\ Number(r.flags) = 16
      BY <1>4, <3>2 DEF Result
    <3> QED BY <1>5, <1>7, <2>3, <3>3 DEF IsIntegerOf, ReadAs
  <2> QED BY <1>1, <2>2, <2>3
<1>8. CASE ~bits_is_nan(a) /\ x < Power(XLEN)
  <2> DEFINE m == Mag(a)
             n == IF sign(a) = 1 THEN -s ELSE s
             least_int == IF u THEN 0 ELSE -Half
             most == IF u THEN Size - 1 ELSE Half - 1
  <2>1. /\ d \in Nat \ {0} /\ m \in Nat /\ v = (IF sign(a) = 1 THEN -m ELSE m)
        /\ (m = 0 <=> x = 0)
    BY <1>8, UnitsAre
  <2>2. s \in Nat /\ \A l \in Nat : m <= l * d => s <= l
    BY <2>1, RoundedBound DEF NearestTo
  <2>3. n \in Int
    BY <2>2
  <2>4. /\ Nearby(host_rounding(rm, frm), a) = s
        /\ IsRounded(rm, n * d, v, d)
        /\ Number(Raised(FP_NX, ~IsInteger(a))) = Truth(n * d # v)
    BY <1>8, <2>3, InRangeRounds
  <2>5. /\ x < Power(XLEN - 1) => m <= (Half - 1) * d
        /\ x >= Power(XLEN - 1) => d = 1 /\ Half <= m /\ m <= Size - 1
        /\ x = Power(XLEN - 1) => m = Half
        /\ x > Power(XLEN - 1) => m > Half
    <3>1. /\ x >= Power(XLEN) <=> exp(a) >= Bias + XLEN
          /\ x >= Power(XLEN - 1) <=> exp(a) >= Bias + (XLEN - 1)
          /\ x = Power(XLEN - 1) <=> exp(a) = Bias + (XLEN - 1) /\ frac(a) = 0
      <4>1. XLEN \in Int /\ XLEN - 1 \in Int
        BY <1>1
      <4> QED BY <4>1, PowerBelow
    <3>2. exp(a) \in Int
      BY PatternParts, FormatSizes
    <3>3. /\ exp(a) < Bias + (XLEN - 1) => m <= (Half - 1) * d
          /\ exp(a) = Bias + (XLEN - 1) =>
                d = 1 /\ Half <= m /\ m <= Size - 1 /\ (m = Half <=> frac(a) = 0)
      BY <1>8, MagBounds
    <3> HIDE DEF m, d, x
    <3>4. x \in Int
      BY <1>1
    <3>5. ASSUME x < Power(XLEN - 1) PROVE m <= (Half - 1) * d
      BY <1>1, <1>2, <3>1, <3>2, <3>3, <3>4, <3>5
    <3>6. ASSUME x >= Power(XLEN - 1) PROVE exp(a) = Bias + (XLEN - 1)
      BY <1>1, <1>2, <1>8, <3>1, <3>2, <3>4, <3>6 DEF x
    <3>7. x > Power(XLEN - 1) => x >= Power(XLEN - 1) /\ ~(x = Power(XLEN - 1))
      BY <1>2, <3>4
    <3>8. x = Power(XLEN - 1) => x >= Power(XLEN - 1)
      BY <1>2, <3>4
    <3>9. ASSUME x > Power(XLEN - 1) PROVE m > Half
      BY <1>1, <2>1, <3>1, <3>3, <3>6, <3>7, <3>9 DEF m
    <3> QED BY <3>1, <3>3, <3>5, <3>6, <3>8, <3>9
  <2>6. (Half - 1) * d \in Nat /\ Half * d = (Half - 1) * d + d /\ 0 * d = 0
        /\ (Size - 1) * d = (Half - 1) * d + Half * d /\ (-Half) * d = -(Half * d)
        /\ (d = 1 => (Half - 1) * d = Half - 1)
    BY <1>1, <2>1
  <2>7. m <= (Size - 1) * d
    BY <1>1, <1>2, <2>1, <2>5, <2>6
  <2> DEFINE g == (Half - 1) * d
  <2>8. /\ g \in Nat /\ Half * d = g + d /\ 0 * d = 0 /\ (Size - 1) * d = g + (g + d)
        /\ (-Half) * d = -(g + d) /\ (d = 1 => g = Half - 1)
    BY <2>6
  <2>9. ASSUME u, x > 0 /\ sign(a) = 1
        PROVE  IsIntegerOf(a, rm, u, ReadAs(u, r.bits), Number(r.flags))
    <3>1. Order(a) < 0 /\ Order(a) <= 0
      BY <1>1, <1>3, <2>9
    <3>2. r = Result(0, Raised(FP_NV, Order(a) < 0))
      BY <1>8, <2>9, <3>1 DEF fp_float_to_int
    <3> DEFINE c == Order(a) < 0
    <3>5. c = TRUE
      BY <3>1
    <3> HIDE DEF c
    <3>6. r = Result(0, {FP_NV})
      BY <3>2, <3>5 DEF c, Raised
    <3>3. r.bits = 0 /\ Number(r.flags) = 16
      BY <1>4, <3>6 DEF Result
    <3>4. v < 0 * d
      BY <1>1, <2>1, <2>8, <2>9
    <3> QED BY <1>1, <1>2, <1>8, <2>9, <3>3, <3>4 DEF IsIntegerOf, ReadAs
  <2>10. ASSUME ~(v < least_int * d), ~(v > most * d),
                r.bits = Wrap(n), least_int <= n, n <= most,
                r.flags = Raised(FP_NX, ~IsInteger(a))
         PROVE  IsIntegerOf(a, rm, u, ReadAs(u, r.bits), Number(r.flags))
    <3>1. ReadAs(u, r.bits) = n
      <4>1. CASE u
        <5>1. n \in Words
          BY <1>1, <2>3, <2>10, <4>1, WordSizes
        <5> QED BY <2>10, <4>1, <5>1, WrapWord DEF ReadAs
      <4>2. CASE ~u
        <5>1. -Half <= n /\ n < Half
          BY <1>1, <2>3, <2>10, <4>2
        <5> HIDE DEF n
        <5>2. Signed(Wrap(n)) = n
          BY <2>3, <5>1, SignedWrap
        <5> QED BY <2>10, <4>2, <5>2 DEF ReadAs
      <4> QED BY <4>1, <4>2
    <3>2. Number(r.flags) = Truth(n * d # v)
      BY <2>4, <2>10
    <3>3. ~(x >= Power(XLEN))
      BY <1>1, <1>2, <1>8
    <3> QED BY <1>8, <2>4, <2>10, <3>1, <3>2, <3>3 DEF IsIntegerOf
  <2>11. ASSUME u, x = 0
         PROVE  IsIntegerOf(a, rm, u, ReadAs(u, r.bits), Number(r.flags))
    <3>1. Order(a) = 0 /\ Order(a) <= 0
      BY <1>1, <1>3, <2>11
    <3>2. r = Result(0, Raised(FP_NV, Order(a) < 0))
      BY <1>8, <2>11, <3>1 DEF fp_float_to_int
    <3> DEFINE c == Order(a) < 0
    <3>a. c = FALSE
      BY <3>1
    <3> HIDE DEF c
    <3>b. r = Result(0, {})
      BY <3>2, <3>a DEF c, Raised
    <3>3. r.bits = 0 /\ r.flags = {}
      BY <3>b DEF Result
    <3>4. m = 0 /\ v = 0
      BY <2>1, <2>11
    <3>5. s = 0 /\ n = 0
      <4>1. m <= 0 * d /\ 0 \in Nat
        BY <2>8, <3>4
      <4>2. s <= 0
        BY <2>2, <4>1
      <4> QED BY <2>2, <4>2
    <3>6. n * d = v
      BY <2>8, <3>4, <3>5
    <3>7. Number(r.flags) = Truth(n * d # v)
      BY <1>4, <3>3, <3>6 DEF Truth
    <3>c. (Size - 1) * d \in Nat /\ 0 * d = 0
      <4> HIDE DEF d, g
      <4> QED BY ONLY <1>1, <2>1, <2>8
    <3>8. ~(x >= Power(XLEN)) /\ ~(v < 0 * d) /\ ~(v > (Size - 1) * d)
      <4>1. ~(x >= Power(XLEN))
        BY <1>1, <1>2, <1>8
      <4> QED BY <3>4, <3>c, <4>1
    <3>9. ReadAs(u, r.bits) = n
      BY <2>11, <3>3, <3>5 DEF ReadAs
    <3> QED BY <1>8, <2>4, <2>11, <3>7, <3>8, <3>9 DEF IsIntegerOf
  <2>12. ASSUME u, x > 0 /\ sign(a) = 0
         PROVE  IsIntegerOf(a, rm, u, ReadAs(u, r.bits), Number(r.flags))
    <3>1. ~(Order(a) <= 0) /\ ~(a >= Power(XLEN))
      BY <1>1, <1>2, <1>3, <1>8, <2>12
    <3>2. r = Result(Wrap(s), Raised(FP_NX, ~IsInteger(a)))
      BY <1>8, <2>4, <2>12, <3>1 DEF fp_float_to_int
    <3>6. sign(a) # 1
      BY <2>12
    <3>7. n = s
      BY <3>6
    <3>3. n = s /\ r.bits = Wrap(n) /\ r.flags = Raised(FP_NX, ~IsInteger(a))
      BY <3>2, <3>7 DEF Result
    <3>4. s <= Size - 1
      BY <1>1, <2>2, <2>7
    <3>5. ~(v < 0 * d) /\ ~(v > (Size - 1) * d)
      BY <2>1, <2>7, <2>8, <2>12
    <3>8. least_int = 0 /\ most = Size - 1
      BY <2>12
    <3>9. least_int <= n /\ n <= most
      BY <2>2, <3>4, <3>7, <3>8
    <3> QED BY <2>10, <3>3, <3>5, <3>8, <3>9
  <2>13. ASSUME ~u, sign(a) = 0, x >= Power(XLEN - 1)
         PROVE  IsIntegerOf(a, rm, u, ReadAs(u, r.bits), Number(r.flags))
    <3>1. a >= Power(XLEN - 1)
      BY <1>3, <2>13
    <3>2. r = Result(Half - 1, {FP_NV})
      BY <1>8, <2>13, <3>1 DEF fp_float_to_int
    <3>3. r.bits = Half - 1 /\ Number(r.flags) = 16
      BY <1>4, <3>2 DEF Result
    <3>4. v > (Half - 1) * d /\ ~(v < (-Half) * d)
      BY <1>1, <2>1, <2>5, <2>8, <2>13
    <3> QED BY <1>1, <1>2, <1>5, <1>8, <2>13, <3>3, <3>4 DEF IsIntegerOf, ReadAs
  <2>14. ASSUME ~u, sign(a) = 1, x > Power(XLEN - 1)
         PROVE  IsIntegerOf(a, rm, u, ReadAs(u, r.bits), Number(r.flags))
    <3>1. r = Result(Half, {FP_NV})
      BY <1>8, <2>14 DEF fp_float_to_int
    <3>2. r.bits = Half /\ Number(r.flags) = 16
      BY <1>4, <3>1 DEF Result
    <3>3. x >= Power(XLEN - 1)
      BY <1>1, <1>2, <2>14
    <3>4. v < (-Half) * d
      BY <1>1, <2>1, <2>5, <2>8, <2>14, <3>3
    <3> QED BY <1>1, <1>2, <1>5, <1>8, <2>14, <3>2, <3>4 DEF IsIntegerOf, ReadAs
  <2>15. ASSUME ~u, sign(a) = 0, x < Power(XLEN - 1)
         PROVE  IsIntegerOf(a, rm, u, ReadAs(u, r.bits), Number(r.flags))
    <3>1. ~(a >= Power(XLEN - 1))
      BY <1>1, <1>2, <1>3, <2>15
    <3>2. r = Result(Wrap(s), Raised(FP_NX, ~IsInteger(a)))
      BY <1>8, <2>4, <2>15, <3>1 DEF fp_float_to_int
    <3>3. n = s /\ r.bits = Wrap(n) /\ r.flags = Raised(FP_NX, ~IsInteger(a))
      BY <2>15, <3>2 DEF Result
    <3>4. Half - 1 \in Nat /\ m <= (Half - 1) * d
      BY <1>1, <2>5, <2>15
    <3>5. s <= Half - 1
      BY <2>2, <3>4
    <3>6. ~(v < (-Half) * d) /\ ~(v > (Half - 1) * d)
      BY <2>1, <2>8, <2>15, <3>4
    <3>7. -Half <= n
      BY <1>1, <2>2, <3>3
    <3> QED BY <2>10, <2>15, <3>3, <3>5, <3>6, <3>7
  <2>16. ASSUME ~u, sign(a) = 1, x <= Power(XLEN - 1)
         PROVE  IsIntegerOf(a, rm, u, ReadAs(u, r.bits), Number(r.flags))
    <3>1. ~(x > Power(XLEN - 1))
      BY <1>1, <1>2, <2>16
    <3>2. r = Result(Wrap(-s), Raised(FP_NX, ~IsInteger(a)))
      BY <1>8, <2>4, <2>16, <3>1 DEF fp_float_to_int
    <3>3. n = -s /\ r.bits = Wrap(n) /\ r.flags = Raised(FP_NX, ~IsInteger(a))
      BY <2>16, <3>2 DEF Result
    <3>4. m <= Half * d
      <4> HIDE DEF x, m, d
      <4>1. CASE x < Power(XLEN - 1)
        BY <2>1, <2>5, <2>8, <4>1
      <4>2. CASE x = Power(XLEN - 1)
        <5>1. x >= Power(XLEN - 1)
          BY <1>2, <4>2
        <5>2. m = Half /\ d = 1
          BY <2>5, <4>2, <5>1
        <5> QED BY <1>1, <5>2
      <4>3. x \in Int
        BY <1>1 DEF x
      <4> QED BY <1>2, <2>16, <4>1, <4>2, <4>3 DEF x
    <3>5. s <= Half
      BY <1>1, <2>2, <3>4
    <3>6. ~(v < (-Half) * d) /\ ~(v > (Half - 1) * d)
      BY <2>1, <2>8, <2>16, <3>4
    <3>7. -Half <= n /\ n <= Half - 1
      BY <1>1, <2>2, <3>3, <3>5
    <3> QED BY <2>10, <2>16, <3>3, <3>6, <3>7
  <2>17. x > 0 \/ x = 0
    BY <1>1
  <2>18. (x >= Power(XLEN - 1) \/ x < Power(XLEN - 1)) /\ (x > Power(XLEN - 1) \/ x <= Power(XLEN - 1))
    BY <1>1, <1>2
  <2> QED BY <1>1, <2>9, <2>11, <2>12, <2>13, <2>14, <2>15, <2>16, <2>17, <2>18
<1>9. x >= Power(XLEN) \/ x < Power(XLEN)
  BY <1>1, <1>2
<1> QED BY <1>6, <1>7, <1>8, <1>9
\* The pattern a conversion from an integer makes of a sign, a leading bit and a
\* significand, and the number it stands for: a carry doubles the unit.
FloatPattern(neg, k, m) == (IF neg THEN Half ELSE 0) + Power(k) + m - FracCount

\* It is a pattern of that sign, and stands for the significand in units of the leading bit.
LEMMA PatternStands ==
  ASSUME NEW neg \in BOOLEAN, NEW k \in 0 .. XLEN - 1, NEW m \in Int,
         FracCount <= m, m <= 2 * FracCount, NEW f, f = FloatPattern(neg, k, m)
  PROVE  /\ f \in Words /\ (sign(f) = 1 <=> neg)
         /\ Pow2[k] \in Nat \ {0}
         /\ FloatValue(f) = (IF neg THEN -(m * Pow2[k]) ELSE m * Pow2[k])
         /\ Ulp(f) = Pow2[k] \/ Ulp(f) = 2 * Pow2[k]
         /\ m < 2 * FracCount => /\ exp(f) = Bias + k /\ Mantissa(f) = m
                                 /\ Scale(f) = FracBits - k
<1>1. /\ XLEN \in Nat /\ FracBits \in Nat /\ FracBits + 3 <= XLEN
      /\ FracCount \in Nat \ {0} /\ Bias \in Nat /\ Bias + XLEN + 1 < ExpCount
      /\ ExpCount \in Nat /\ FracCount * ExpCount = Half /\ Half \in Nat \ {0} /\ Size = 2 * Half
      /\ Words = 0 .. Size - 1 /\ Pow2[1] = 2
  BY Widths, FormatSizes, WordSizes, SmallPowers
<1>2. k \in Nat /\ k <= XLEN - 1 /\ Pow2[k] \in Nat \ {0}
  BY <1>1, PowerType
<1>3. Bias > 0
  <2>1. ExpCount \div 2 > XLEN /\ XLEN >= 12
    BY FormatAssumption, Widths
  <2> QED BY <1>1, <2>1 DEF Bias
<1>4. ASSUME NEW e \in 1 .. ExpCount - 1, NEW h \in 0 .. FracCount - 1,
             Power(k) + m - FracCount = FracCount * e + h
      PROVE  /\ f \in Words /\ sign(f) = (IF neg THEN 1 ELSE 0)
             /\ exp(f) = e /\ frac(f) = h
  <2> DEFINE y == FracCount * e + h
             g == IF neg THEN 1 ELSE 0
  <2>1. y \in 0 .. Half - 1
    <3>1. e * FracCount + h \in 0 .. Half - 1 /\ e * FracCount = FracCount * e
      BY <1>1, <1>4, PatternType
    <3> QED BY <3>1
  <2>2. f = Half * g + y
    <3>1. Power(k) \in Int
      BY <1>1, <1>2 DEF Power
    <3>2. f = (IF neg THEN Half ELSE 0) + (Power(k) + m - FracCount)
      BY <1>1, <3>1 DEF FloatPattern
    <3>3. f = (IF neg THEN Half ELSE 0) + y
      BY <1>4, <3>2
    <3> HIDE DEF y
    <3> QED BY <1>1, <2>1, <3>3
  <2>3. y \div FracCount = e /\ y % FracCount = h
    <3>1. e \in Int /\ h \in 0 .. FracCount - 1
      BY <1>1
    <3> QED BY ONLY <1>1, <3>1, DivisionUnique
  <2> HIDE DEF y
  <2>4. g \in {0, 1} /\ g \in Int
    OBVIOUS
  <2>5. f \div Half = g /\ f % Half = y
    <3> HIDE DEF g
    <3> QED BY ONLY <1>1, <2>1, <2>2, <2>4, DivisionUnique
  <2>6. f \in Words
    <3>1. f = (IF neg THEN Half ELSE 0) + y
      BY <1>1, <2>1, <2>2
    <3> QED BY <1>1, <2>1, <3>1
  <2>7. exp(f) = e
    BY <2>3, <2>5 DEF exp
  <2>8. frac(f) = h
    <3>1. f % FracCount = h
      <4> DEFINE w == g * ExpCount + e
      <4>1. f = FracCount * w + h /\ w \in Int
        <5>1. Half * g = FracCount * (g * ExpCount)
          <6>1. CASE g = 0
            BY <1>1, <6>1
          <6>2. CASE g = 1
            BY <1>1, <6>2
          <6> QED BY <2>4, <6>1, <6>2
        <5>2. g * ExpCount \in Int /\ e \in Int /\ h \in Int
          BY <1>1, <2>4
        <5>3. FracCount * (g * ExpCount + e) = FracCount * (g * ExpCount) + FracCount * e
          BY <1>1, <5>2
        <5>4. FracCount * e \in Int /\ FracCount * (g * ExpCount) \in Int
          BY <1>1, <5>2
        <5> QED BY <2>2, <5>1, <5>2, <5>3, <5>4 DEF y
      <4> HIDE DEF w
      <4> QED BY <1>1, <4>1, DivisionUnique
    <3> QED BY <3>1 DEF frac
  <2> QED BY <2>5, <2>6, <2>7, <2>8 DEF sign
<1>5. Power(k) = FracCount * (Bias + k) /\ FracCount * (Bias + k) \in Nat
      /\ FracCount * (Bias + k + 1) = FracCount * (Bias + k) + FracCount
  BY <1>1, <1>2 DEF Power
<1>6. CASE m < 2 * FracCount
  <2> DEFINE e == Bias + k
             h == m - FracCount
  <2>1. e \in 1 .. ExpCount - 1 /\ h \in 0 .. FracCount - 1
    BY <1>1, <1>2, <1>3, <1>6
  <2>2. Power(k) + m - FracCount = FracCount * e + h
    BY <1>1, <1>5
  <2> HIDE DEF e, h
  <2>3. f \in Words /\ sign(f) = (IF neg THEN 1 ELSE 0) /\ exp(f) = e /\ frac(f) = h
    BY <1>4, <2>1, <2>2
  <2>4. exp(f) # 0 /\ Mantissa(f) = m /\ Scale(f) = FracBits - k
    <3>1. exp(f) # 0
      BY <2>1, <2>3
    <3>2. Mantissa(f) = h + FracCount
      BY <2>3, <3>1 DEF Mantissa
    <3>3. Scale(f) = FracBits + Bias - e
      BY <2>3, <3>1 DEF Scale
    <3> QED BY <1>1, <1>2, <3>1, <3>2, <3>3 DEF e, h
  <2>5. FracBits - (FracBits - k) = k
    BY <1>1, <1>2
  <2>6. Ulp(f) = Pow2[k]
    BY <2>4, <2>5 DEF Ulp
  <2>7. FloatValue(f) = (IF neg THEN -(m * Pow2[k]) ELSE m * Pow2[k])
    <3>1. FloatValue(f) = (IF sign(f) = 1 THEN -1 ELSE 1) * (m * Pow2[k])
      BY <2>4, <2>6 DEF FloatValue
    <3> DEFINE z == m * Pow2[k]
    <3>2. z \in Int
      BY <1>2
    <3> HIDE DEF z
    <3>3. (-1) * z = -z /\ 1 * z = z
      BY <3>2
    <3>4. CASE neg
      BY <2>3, <3>1, <3>3, <3>4 DEF z
    <3>5. CASE ~neg
      BY <2>3, <3>1, <3>3, <3>5 DEF z
    <3> QED BY <3>4, <3>5
  <2>8. exp(f) = Bias + k
    BY <2>3 DEF e
  <2> QED BY <1>2, <2>3, <2>4, <2>6, <2>7, <2>8
<1>7. CASE m = 2 * FracCount
  <2> DEFINE e == Bias + k + 1
  <2>1. e \in 1 .. ExpCount - 1 /\ 0 \in 0 .. FracCount - 1
    BY <1>1, <1>2, <1>3
  <2>2. Power(k) + m - FracCount = FracCount * e + 0
    BY <1>1, <1>5, <1>7
  <2> HIDE DEF e
  <2>3. f \in Words /\ sign(f) = (IF neg THEN 1 ELSE 0) /\ exp(f) = e /\ frac(f) = 0
    BY <1>4, <2>1, <2>2
  <2>4. exp(f) # 0 /\ Mantissa(f) = FracCount /\ Scale(f) = FracBits - (k + 1)
    <3>1. exp(f) # 0
      BY <2>1, <2>3
    <3>2. Mantissa(f) = 0 + FracCount
      BY <2>3, <3>1 DEF Mantissa
    <3>3. Scale(f) = FracBits + Bias - e
      BY <2>3, <3>1 DEF Scale
    <3> QED BY <1>1, <1>2, <3>1, <3>2, <3>3 DEF e
  <2>5. FracBits - (FracBits - (k + 1)) = k + 1 /\ k \in 0 .. XLEN /\ 1 \in 0 .. XLEN /\ k + 1 <= XLEN
    BY <1>1, <1>2
  <2>6. Ulp(f) = Pow2[k + 1] /\ Pow2[k + 1] = Pow2[k] * 2
    BY <1>1, <2>4, <2>5, PowerSum DEF Ulp
  <2>7. FloatValue(f) = (IF neg THEN -(m * Pow2[k]) ELSE m * Pow2[k])
    <3>1. FloatValue(f) = (IF sign(f) = 1 THEN -1 ELSE 1) * (FracCount * (Pow2[k] * 2))
      BY <2>4, <2>6 DEF FloatValue
    <3> DEFINE z == m * Pow2[k]
    <3>2. z \in Int /\ FracCount * (Pow2[k] * 2) = z
      BY <1>1, <1>2, <1>7
    <3> HIDE DEF z
    <3>3. (-1) * z = -z /\ 1 * z = z
      BY <3>2
    <3>4. CASE neg
      BY <2>3, <3>1, <3>2, <3>3, <3>4 DEF z
    <3>5. CASE ~neg
      BY <2>3, <3>1, <3>2, <3>3, <3>5 DEF z
    <3> QED BY <3>4, <3>5
  <2> QED BY <1>1, <1>2, <1>7, <2>3, <2>6, <2>7
<1> QED BY <1>1, <1>6, <1>7

\* The integer a conversion reads in a word, its magnitude and its leading bit.
Negative(u, value) == ~u /\ value >= Half
Leading(n)         == CHOOSE j \in 0 .. XLEN - 1 : Pow2[j] <= n /\ n < 2 * Pow2[j]

\* A word is the integer of that magnitude, and the leading bit exists.
LEMMA Magnitudes ==
  ASSUME NEW value \in Words, NEW u \in BOOLEAN
  PROVE  LET neg == Negative(u, value)
             n == IF neg THEN Size - value ELSE value IN
         /\ ReadAs(u, value) = (IF neg THEN -n ELSE n) /\ neg \in BOOLEAN
         /\ n \in 0 .. Size - 1 /\ (n = 0 <=> value = 0)
         /\ n \in 1 .. Size - 1 => /\ Leading(n) \in 0 .. XLEN - 1
                                   /\ Pow2[Leading(n)] <= n /\ n < 2 * Pow2[Leading(n)]
<1> DEFINE neg == Negative(u, value)
           n == IF neg THEN Size - value ELSE value
<1>1. Half \in Nat \ {0} /\ Size = 2 * Half /\ value \in 0 .. Size - 1 /\ neg \in BOOLEAN
  BY WordSizes DEF Negative
<1>2. ReadAs(u, value) = (IF neg THEN -n ELSE n)
  BY <1>1 DEF ReadAs, Signed, Negative
<1>3. n \in 0 .. Size - 1 /\ (n = 0 <=> value = 0)
  BY <1>1 DEF Negative
<1> HIDE DEF n
<1>4. ASSUME n \in 1 .. Size - 1
      PROVE  /\ Leading(n) \in 0 .. XLEN - 1
             /\ Pow2[Leading(n)] <= n /\ n < 2 * Pow2[Leading(n)]
  BY <1>4, TopBitAssumption DEF Leading
<1> QED BY <1>1, <1>2, <1>3, <1>4 DEF n

\* Nothing is lost by rounding what fits.
LEMMA ExactRounds ==
  ASSUME NEW rm \in 0 .. 3, NEW v \in Int, NEW unit \in Nat \ {0}
  PROVE  IsRounded(rm, v, v, unit)
<1>1. Magnitude(v - v) = 0 /\ Magnitude(v) \in Nat
  BY DEF Magnitude
<1> QED BY <1>1 DEF IsRounded
\* The conversion from an integer, for all integers and every format.
LEMMA ToFloatRight ==
  ASSUME NEW value \in Words, NEW rm \in 0 .. 3, NEW frm, NEW u \in BOOLEAN
  PROVE  LET r == fp_int_to_float(rm, frm, value, u) IN
         IsFloatOf(ReadAs(u, value), rm, r.bits, Number(r.flags))
<1> DEFINE r == fp_int_to_float(rm, frm, value, u)
           neg == Negative(u, value)
           n == IF neg THEN Size - value ELSE value
           k == Leading(n)
           mode == host_rounding(rm, frm)
           m == Significand(mode, neg, n, k)
           f == FloatPattern(neg, k, m)
           lost == k > FracBits /\ n % Pow2[k - FracBits] # 0
           x == ReadAs(u, value)
           P == Pow2[k]
<1> SUFFICES IsFloatOf(x, rm, r.bits, Number(r.flags))
  OBVIOUS
<1>1. /\ x = (IF neg THEN -n ELSE n) /\ neg \in BOOLEAN
      /\ n \in 0 .. Size - 1 /\ (n = 0 <=> value = 0)
      /\ n \in 1 .. Size - 1 => k \in 0 .. XLEN - 1 /\ P <= n /\ n < 2 * P
  BY Magnitudes
<1>2. r = (IF n = 0 THEN Result(0, {}) ELSE Result(f, Raised(FP_NX, lost)))
  BY DEF fp_int_to_float, Negative, Leading, Significand, FloatPattern
<1>3. Size \in Nat /\ FracCount \in Nat \ {0} /\ FracBits \in Nat
  BY WordSizes, FormatSizes
<1> HIDE DEF n, neg, r, lost, mode
<1>4. CASE n = 0
  <2>1. r.bits = 0 /\ Number(r.flags) = 0 /\ x = 0
    <3>1. r = Result(0, {})
      BY <1>2, <1>4
    <3>2. -n = 0 - n
      BY <1>1, <1>3
    <3>3. x = 0
      BY <1>1, <1>4, <3>2
    <3> QED BY <3>1, <3>3, FlagNumbers DEF Result
  <2> QED BY <2>1 DEF IsFloatOf
<1>5. CASE n \in 1 .. Size - 1
  <2>1. /\ m \in Int /\ FracCount <= m /\ m <= 2 * FracCount /\ P \in Nat \ {0}
        /\ k <= FracBits => m * P = n * FracCount
        /\ k > FracBits => /\ Pow2[k - FracBits] \in Nat \ {0}
                           /\ P = Pow2[k - FracBits] * FracCount
                           /\ m = Rounded(mode, neg, n, Pow2[k - FracBits])
    BY <1>1, <1>5, SignificandRange
  <2>2. k \in 0 .. XLEN - 1 /\ k \in Int
    BY <1>1, <1>5
  <2> HIDE DEF k, m
  <2>3. /\ FloatValue(f) = (IF neg THEN -(m * P) ELSE m * P)
        /\ Ulp(f) = P \/ Ulp(f) = 2 * P
    BY <1>1, <2>1, <2>2, PatternStands
  <2> DEFINE z == m * P
             y == n * FracCount
             n2 == IF neg THEN -z ELSE z
             v2 == IF neg THEN -y ELSE y
  <2>4. z \in Int /\ y \in Int /\ x * FracCount = v2 /\ n2 \in Int /\ v2 \in Int
    <3>1. n \in Int /\ (-n) * FracCount = -(n * FracCount)
      BY <1>3, <1>5
    <3> QED BY <1>1, <1>3, <2>1, <3>1
  <2>5. IsRounded(rm, n2, v2, P) /\ (n2 # v2 <=> lost)
    <3>1. CASE k <= FracBits
      <4>1. n2 = v2
        BY <2>1, <3>1
      <4>2. ~lost
        BY <1>3, <2>2, <3>1 DEF lost
      <4> HIDE DEF n2, v2
      <4> QED BY <2>1, <2>4, <4>1, <4>2, ExactRounds
    <3>2. CASE k > FracBits
      <4> DEFINE d == Pow2[k - FracBits]
                 s == Rounded(ModeOf(rm), neg, n, d)
      <4>1. d \in Nat \ {0} /\ P = d * FracCount /\ n \in Nat
        BY <1>5, <2>1, <3>2
      <4>2. m = s
        BY <2>1, <3>2, StaticMode DEF mode
      <4>3. /\ IsRounded(rm, IF neg THEN -((d * FracCount) * s) ELSE (d * FracCount) * s,
                         IF neg THEN -(n * FracCount) ELSE n * FracCount, d * FracCount)
            /\ (IF neg THEN -((d * FracCount) * s) ELSE (d * FracCount) * s)
                 = (IF neg THEN -(n * FracCount) ELSE n * FracCount) <=> n % d = 0
        <5>1. d \in Nat \ {0} /\ n \in Nat /\ neg \in BOOLEAN /\ FracCount \in Nat \ {0}
          BY <1>1, <1>3, <4>1
        <5> HIDE DEF d
        <5>2. s = Rounded(ModeOf(rm), neg, n, d)
          OBVIOUS
        <5> HIDE DEF s
        <5> QED BY ONLY <5>1, <5>2, rm \in 0 .. 3, HostRounds
      <4>4. z = (d * FracCount) * s
        <5>1. m * P = P * m
          BY <2>1
        <5> QED BY <4>1, <4>2, <5>1
      <4>5. lost <=> n % d # 0
        BY <3>2 DEF lost
      <4> HIDE DEF z, y, s, d
      <4> QED BY <4>1, <4>3, <4>4, <4>5 DEF y
    <3> QED BY <1>3, <2>2, <3>1, <3>2
  <2>6. IsRounded(rm, n2, v2, Ulp(f))
    <3>1. CASE Ulp(f) = P
      BY <2>5, <3>1
    <3>2. CASE Ulp(f) = 2 * P
      <4> HIDE DEF n2, v2, P
      <4>1. 2 * P \in Nat /\ 2 * P >= P
        BY <2>1
      <4>2. IsRounded(rm, n2, v2, 2 * P)
        BY <2>1, <2>4, <2>5, <4>1, CoarserUnit
      <4> QED BY <3>2, <4>2
    <3> QED BY <2>3, <3>1, <3>2
  <2>7. r.bits = f /\ r.flags = Raised(FP_NX, lost)
    BY <1>2, <1>5 DEF Result
  <2>8. Number(r.flags) = Truth(n2 # v2)
    <3>1. CASE lost
      BY <2>5, <2>7, <3>1, FlagNumbers DEF Truth
    <3>2. CASE ~lost
      BY <2>5, <2>7, <3>2, FlagNumbers DEF Truth
    <3> QED BY <3>1, <3>2
  <2>9. x # 0
    BY <1>1, <1>3, <1>5
  <2>10. FloatValue(f) = n2 /\ x * FracCount = v2
    BY <2>3, <2>4
  <2> HIDE DEF n2, v2, f, x
  <2>11. IsRounded(rm, FloatValue(r.bits), x * FracCount, Ulp(r.bits))
    BY <2>6, <2>7, <2>10
  <2>12. Number(r.flags) = Truth(FloatValue(r.bits) # x * FracCount)
    BY <2>7, <2>8, <2>10
  <2> QED BY <2>9, <2>11, <2>12 DEF IsFloatOf
<1> QED BY <1>1, <1>3, <1>4, <1>5

\* A number that is an integer of the type converts to it.
LEMMA IntegerConverts ==
  ASSUME NEW f \in Words, ~bits_is_nan(f), f % Half < Power(XLEN),
         NEW value \in Words, NEW u \in BOOLEAN, NEW frm,
         InUnits(f) = ReadAs(u, value) * One(f)
  PROVE  fp_float_to_int(1, frm, f, u).bits = value
<1> DEFINE r == fp_float_to_int(1, frm, f, u)
           x == ReadAs(u, value)
           w == ReadAs(u, r.bits)
           d == One(f)
           most == IF u THEN Size - 1 ELSE Half - 1
           least_int == IF u THEN 0 ELSE -Half
<1>1. r.bits \in Words
  BY FloatToIntType
<1>2. IsIntegerOf(f, 1, u, w, Number(r.flags))
  BY ToIntRight
<1>3. Half \in Nat \ {0} /\ Size = 2 * Half /\ Words = 0 .. Size - 1 /\ Power(XLEN) \in Int
      /\ f % Half \in Int
  BY WordSizes, SignType, Widths, PowerBelow
<1>4. d \in Nat \ {0}
  BY UnitsAre
<1>5. /\ x \in Int /\ w \in Int /\ least_int <= x /\ x <= most
      /\ (w = x => r.bits = value)
  BY <1>1, <1>3 DEF ReadAs, Signed
<1>6. most \in Int /\ least_int \in Int
  BY <1>3
<1> HIDE DEF x, w, d, most, least_int, r
<1>7. least_int * d <= x * d /\ x * d <= most * d
      /\ least_int * d \in Int /\ x * d \in Int /\ most * d \in Int
  BY <1>4, <1>5, <1>6
<1>8. IsRounded(1, w * d, x * d, d)
  <2>1. InUnits(f) = x * d
    BY DEF x, d
  <2>2. ~(f % Half >= Power(XLEN))
    BY <1>3
  <2>3. ~(x * d < least_int * d) /\ ~(x * d > most * d)
    BY <1>7
  <2> QED BY <1>2, <2>1, <2>2, <2>3 DEF IsIntegerOf, d, most, least_int
<1>9. /\ Magnitude(w * d) <= Magnitude(x * d) /\ Magnitude(x * d) < Magnitude(w * d) + d
      /\ (w * d # 0 => (w * d < 0 <=> x * d < 0))
  BY <1>8 DEF IsRounded
<1>10. w = x
  <2>1. w * d \in Int /\ w * d + d = (w + 1) * d /\ w * d - d = (w - 1) * d
        /\ (w + 1) * d \in Int /\ (w - 1) * d \in Int
    BY <1>4, <1>5
  <2>2. ~(x >= w + 1 /\ (w > 0 \/ w = 0))
    <3> SUFFICES ASSUME x >= w + 1, w >= 0 PROVE FALSE
      BY <1>5
    <3>1. x * d >= (w + 1) * d /\ w * d >= 0
      BY <1>4, <1>5
    <3> QED BY <1>4, <1>7, <1>9, <2>1, <3>1 DEF Magnitude
  <2>3. ~(x <= w - 1 /\ (w < 0 \/ w = 0))
    <3> SUFFICES ASSUME x <= w - 1, w <= 0 PROVE FALSE
      BY <1>5
    <3>1. x * d <= (w - 1) * d /\ w * d <= 0
      BY <1>4, <1>5
    <3> QED BY <1>4, <1>7, <1>9, <2>1, <3>1 DEF Magnitude
  <2>4. ~(x <= w - 1 /\ w > 0)
    <3> SUFFICES ASSUME x <= w - 1, w >= 1 PROVE FALSE
      BY <1>5
    <3>1. x * d <= (w - 1) * d /\ w * d >= d
      BY <1>4, <1>5
    <3> QED BY <1>4, <1>7, <1>9, <2>1, <3>1 DEF Magnitude
  <2>5. ~(x >= w + 1 /\ w < 0)
    <3> SUFFICES ASSUME x >= w + 1, w <= -1 PROVE FALSE
      BY <1>5
    <3>1. x * d >= (w + 1) * d /\ w * d <= -d
      BY <1>4, <1>5
    <3> QED BY <1>4, <1>7, <1>9, <2>1, <3>1 DEF Magnitude
  <2> QED BY <1>5, <2>2, <2>3, <2>4, <2>5
<1> QED BY <1>5, <1>10 DEF r

\* What was converted without loss comes back.
ComesBack(value, rm, frm, frm2, u) ==
    LET r == fp_int_to_float(rm, frm, value, u) IN
    Number(r.flags) = 0 => fp_float_to_int(1, frm2, r.bits, u).bits = value

\* It does: such an integer is a number with nothing behind the point.
LEMMA BackAgain ==
  ASSUME NEW value \in Words, NEW rm \in 0 .. 3, NEW frm, NEW u \in BOOLEAN, NEW frm2
  PROVE  ComesBack(value, rm, frm, frm2, u)
<1> DEFINE r == fp_int_to_float(rm, frm, value, u)
           neg == Negative(u, value)
           n == IF neg THEN Size - value ELSE value
           k == Leading(n)
           mode == host_rounding(rm, frm)
           m == Significand(mode, neg, n, k)
           f == FloatPattern(neg, k, m)
           lost == k > FracBits /\ n % Pow2[k - FracBits] # 0
           x == ReadAs(u, value)
           P == Pow2[k]
<1> SUFFICES ASSUME Number(r.flags) = 0
             PROVE  fp_float_to_int(1, frm2, r.bits, u).bits = value
  BY DEF ComesBack
<1>1. /\ x = (IF neg THEN -n ELSE n) /\ neg \in BOOLEAN
      /\ n \in 0 .. Size - 1 /\ (n = 0 <=> value = 0)
      /\ n \in 1 .. Size - 1 => k \in 0 .. XLEN - 1 /\ P <= n /\ n < 2 * P
  BY Magnitudes
<1>2. r = (IF n = 0 THEN Result(0, {}) ELSE Result(f, Raised(FP_NX, lost)))
  BY DEF fp_int_to_float, Negative, Leading, Significand, FloatPattern
<1>3. /\ Size \in Nat /\ FracCount \in Nat \ {0} /\ FracBits \in Nat /\ XLEN \in Nat
      /\ FracBits + 3 <= XLEN /\ Bias \in Nat /\ Bias + XLEN + 1 < ExpCount /\ ExpCount \in Nat
      /\ Half \in Nat \ {0} /\ Words = 0 .. Size - 1 /\ 0 \in Words
  BY WordSizes, FormatSizes, Widths
<1> HIDE DEF n, neg, r, lost, mode
<1>4. CASE n = 0
  <2>1. r.bits = 0 /\ x = 0
    <3>1. r = Result(0, {})
      BY <1>2, <1>4
    <3>2. -n = 0 - n
      BY <1>1, <1>3
    <3>3. x = 0
      BY <1>1, <1>4, <3>2
    <3> QED BY <3>1, <3>3 DEF Result
  <2>2. exp(0) = 0 /\ 0 % Half = 0 /\ 0 < Power(XLEN)
    <3>1. 0 % Half = 0 /\ 0 \div FracCount = 0
      BY <1>3
    <3>2. Bias + XLEN \in Nat \ {0}
      BY <1>3, Widths
    <3>3. (Bias + XLEN) * FracCount > 0
      BY <1>3, <3>2
    <3> QED BY <3>1, <3>3 DEF exp, Power
  <2>3. ~bits_is_nan(0)
    BY <1>3, <2>2 DEF bits_is_nan, ExpMax
  <2>4. InUnits(0) = 0 /\ One(0) \in Nat
    <3>1. Mag(0) = 0
      BY <1>3, <2>2, UnitsAre
    <3> QED BY <1>3, <2>2, <3>1, UnitsAre
  <2>5. InUnits(0) = x * One(0)
    <3>1. 0 * One(0) = 0
      BY <2>4
    <3> QED BY <2>1, <2>4, <3>1
  <2> QED BY <1>3, <2>1, <2>2, <2>3, <2>5, IntegerConverts DEF r
<1>5. CASE n \in 1 .. Size - 1
  <2>1. /\ m \in Int /\ FracCount <= m /\ m <= 2 * FracCount /\ P \in Nat \ {0}
        /\ k <= FracBits => m * P = n * FracCount
        /\ k > FracBits => /\ Pow2[k - FracBits] \in Nat \ {0}
                           /\ P = Pow2[k - FracBits] * FracCount
                           /\ m = Rounded(mode, neg, n, Pow2[k - FracBits])
    BY <1>1, <1>5, SignificandRange
  <2>2. k \in 0 .. XLEN - 1 /\ k \in Int /\ P <= n /\ n < 2 * P /\ n \in Nat
    BY <1>1, <1>5
  <2> HIDE DEF k, m
  <2>3. r.bits = f /\ r.flags = Raised(FP_NX, lost)
    BY <1>2, <1>5 DEF Result
  <2>4. ~lost
    <3> SUFFICES ASSUME lost PROVE FALSE
      OBVIOUS
    <3>1. Number(r.flags) = 0
      BY DEF r
    <3>2. Number(r.flags) = 1
      BY <2>3, FlagNumbers
    <3> QED BY <3>1, <3>2
  <2>5. m * P = n * FracCount
    <3>1. CASE k <= FracBits
      BY <2>1, <3>1
    <3>2. CASE k > FracBits
      <4> DEFINE d == Pow2[k - FracBits]
                 q == n \div d
      <4>1. d \in Nat \ {0} /\ P = d * FracCount /\ m = Rounded(mode, neg, n, d)
        BY <2>1, <3>2
      <4>2. n % d = 0
        BY <2>4, <3>2 DEF lost
      <4>3. m = q /\ n = d * q /\ q \in Int
        <5> HIDE DEF d
        <5>1. q \in Int /\ n = d * q + (n % d)
          BY <2>2, <4>1, QuotientType
        <5>2. ~(2 * (n % d) > d) /\ ~(2 * (n % d) = d) /\ ~(n % d > 0)
          BY <4>1, <4>2
        <5>3. Rounded(mode, neg, n, d) = q
          BY <5>2 DEF Rounded
        <5> HIDE DEF q
        <5>4. d * q \in Int
          BY <4>1, <5>1
        <5>5. n = d * q
          BY <4>2, <5>1, <5>4
        <5> QED BY <4>1, <5>1, <5>3, <5>5
      <4> HIDE DEF d, q
      <4>4. q * (d * FracCount) = (d * q) * FracCount
        BY <1>3, <4>1, <4>3
      <4> QED BY <4>1, <4>3, <4>4
    <3> QED BY <1>3, <2>2, <3>1, <3>2
  <2>6. m < 2 * FracCount
    <3>1. CASE m = 2 * FracCount
      <4> HIDE DEF P
      <4>1. n * FracCount < (2 * P) * FracCount
        BY ONLY <1>3, <2>1, <2>2, FracCount \in Nat \ {0}
      <4>2. (2 * FracCount) * P = (2 * P) * FracCount /\ (2 * P) * FracCount \in Int
        BY <1>3, <2>1
      <4> QED BY <2>5, <3>1, <4>1, <4>2
    <3> QED BY <1>3, <2>1, <3>1
  <2>7. /\ f \in Words /\ (sign(f) = 1 <=> neg) /\ exp(f) = Bias + k
        /\ Mantissa(f) = m /\ Scale(f) = FracBits - k
    BY <1>1, <2>1, <2>2, <2>6, PatternStands
  <2> HIDE DEF f
  <2>8. ~bits_is_nan(f)
    BY <1>3, <2>2, <2>7 DEF bits_is_nan, ExpMax
  <2>9. f % Half < Power(XLEN)
    <3>1. ~(exp(f) >= Bias + XLEN)
      BY <1>3, <2>2, <2>7
    <3>2. XLEN \in Int
      BY <1>3
    <3>3. f % Half \in Int /\ Power(XLEN) \in Int /\ (f % Half >= Power(XLEN) <=> exp(f) >= Bias + XLEN)
      BY <2>7, <3>2, PowerBelow
    <3> QED BY <3>1, <3>3
  <2>10. Mag(f) = n * One(f) /\ One(f) \in Nat \ {0}
    <3>1. CASE k <= FracBits
      <4> DEFINE t == Pow2[FracBits - k]
      <4>1. /\ FracBits - k \in 0 .. XLEN /\ k \in 0 .. XLEN /\ (FracBits - k) + k = FracBits
            /\ ~(FracBits - k < 0) /\ ~(FracBits - k > FracBits + 2)
        BY <1>3, <2>2, <3>1
      <4>2. t \in Nat \ {0} /\ FracCount = t * P
        BY <1>3, <4>1, PowerType, PowerSum DEF FracCount
      <4>3. One(f) = t
        <5>1. CASE FracBits - k <= 0
          <6>1. FracBits - k = 0
            BY <1>3, <2>2, <3>1, <5>1
          <6> QED BY <2>7, <6>1 DEF One
        <5>2. CASE ~(FracBits - k <= 0)
          BY <2>7, <4>1, <5>2 DEF One
        <5> QED BY <5>1, <5>2
      <4>4. Mag(f) = m
        <5>1. Mag(f) = m * 1
          BY <2>7, <4>1 DEF Mag
        <5> QED BY <2>1, <5>1
      <4>5. m = n * t
        <5> HIDE DEF t, P
        <5>1. (n * t) * P = n * (t * P) /\ n * t \in Int
          BY <2>1, <2>2, <4>2
        <5>2. (m - n * t) * P = m * P - (n * t) * P
          BY <2>1, <5>1
        <5>3. m * P \in Int /\ (n * t) * P \in Int /\ m - n * t \in Int
          BY <2>1, <5>1
        <5>4. (m - n * t) * P = 0
          BY <2>5, <4>2, <5>1, <5>2, <5>3
        <5> DEFINE c == m - n * t
        <5> HIDE DEF c
        <5>5. c \in Int /\ c * P = 0
          BY <5>3, <5>4 DEF c
        <5>6. c = 0
          BY <2>1, <5>5
        <5> QED BY <2>1, <5>1, <5>6 DEF c
      <4> QED BY <4>2, <4>3, <4>4, <4>5
    <3>2. CASE k > FracBits
      <4> DEFINE d == Pow2[k - FracBits]
      <4>1. FracBits - k < 0 /\ -(FracBits - k) = k - FracBits /\ FracBits - k <= 0
        BY <1>3, <2>2, <3>2
      <4>2. d \in Nat \ {0} /\ P = d * FracCount
        BY <2>1, <3>2
      <4>3. One(f) = 1
        BY <2>7, <4>1, SmallPowers DEF One
      <4>4. Mag(f) = m * d
        BY <2>7, <4>1 DEF Mag
      <4>5. m * d = n
        <5> HIDE DEF d, P
        <5>1. m * (d * FracCount) = (m * d) * FracCount /\ m * d \in Int
          BY <1>3, <2>1, <4>2
        <5>2. (m * d - n) * FracCount = (m * d) * FracCount - n * FracCount
          BY <1>3, <2>2, <5>1
        <5>3. (m * d) * FracCount \in Int /\ n * FracCount \in Int /\ m * d - n \in Int
          BY <1>3, <2>2, <5>1
        <5>4. (m * d - n) * FracCount = 0
          BY <2>5, <4>2, <5>1, <5>2, <5>3
        <5> QED BY <1>3, <2>2, <5>1, <5>3, <5>4
      <4> QED BY <2>2, <4>3, <4>4, <4>5
    <3> QED BY <1>3, <2>2, <3>1, <3>2
  <2>11. InUnits(f) = x * One(f)
    <3>1. InUnits(f) = (IF sign(f) = 1 THEN -Mag(f) ELSE Mag(f))
      BY <2>7, <2>9, UnitsAre
    <3>2. (-n) * One(f) = -(n * One(f))
      BY <2>2, <2>10
    <3> QED BY <1>1, <2>7, <2>10, <3>1, <3>2
  <2>12. fp_float_to_int(1, frm2, f, u).bits = value
    BY <2>7, <2>8, <2>9, <2>11, IntegerConverts
  <2> QED BY <2>3, <2>12 DEF r
<1> QED BY <1>1, <1>3, <1>4, <1>5
-----------------------------------------------------------------------------
\* The programs of the conversions.

\* In a static mode frm does not matter.
AsInteger(v, rm, u) == fp_float_to_int(rm, 0, v, u = 1)
AsFloat(x, rm, u)   == fp_int_to_float(rm, 0, x, u = 1)

\* The mode of the instruction decides alone.
LEMMA StaticConversions ==
  ASSUME NEW v, NEW rm \in 0 .. 3, NEW frm, NEW u
  PROVE  /\ fp_float_to_int(rm, frm, v, u = 1) = AsInteger(v, rm, u)
         /\ fp_int_to_float(rm, frm, v, u = 1) = AsFloat(v, rm, u)
<1>1. host_rounding(rm, frm) = host_rounding(rm, 0)
  BY StaticMode
<1>2. fp_float_to_int(rm, frm, v, u = 1) = AsInteger(v, rm, u)
  BY <1>1 DEF fp_float_to_int, AsInteger
<1>3. fp_int_to_float(rm, frm, v, u = 1) = AsFloat(v, rm, u)
  BY <1>1 DEF fp_int_to_float, AsFloat
<1> QED BY <1>2, <1>3

\* Its words.
ConvertText(c, v, rm, u) ==
    /\ Holds(c, TEXT, Lui(T0, v))
    /\ Holds(c, TEXT + 4, Addi(T0, v))
    /\ Holds(c, TEXT + 8, enc_r(120, 0, T0, 0, 1, OP_FP))
    /\ Holds(c, TEXT + 12, Lui(T0, 0))
    /\ Holds(c, TEXT + 16, Addi(T0, 0))
    /\ Holds(c, TEXT + 20, enc_r(120, 0, T0, 0, 2, OP_FP))
    /\ Holds(c, TEXT + 24, CsrWord(5, 0, CSR_FFLAGS, 0))
    /\ Holds(c, TEXT + 28, enc_r(96, u, 1, rm, A0, OP_FP))
    /\ Holds(c, TEXT + 32, CsrWord(2, S0, CSR_FFLAGS, 0))
    /\ Holds(c, TEXT + 36, EBREAK)

\* The assembler puts them there.
LEMMA ConvertAssembled ==
  ASSUME TEXT \in Nat, NEW v, NEW rm, NEW u
  PROVE  ConvertText(assemble(convert(v, rm, u), TEXT), v, rm, u)
<1> DEFINE items == convert(v, rm, u)
           c == assemble(items, TEXT)
<1>1. /\ Len(items) = 8
      /\ items[1] = li32(T0, v)
      /\ items[2] = Word(enc_r(120, 0, T0, 0, 1, OP_FP))
      /\ items[3] = li32(T0, 0)
      /\ items[4] = Word(enc_r(120, 0, T0, 0, 2, OP_FP))
      /\ items[5] = Word(CsrWord(5, 0, CSR_FFLAGS, 0))
      /\ items[6] = Word(enc_r(96, u, 1, rm, A0, OP_FP))
      /\ items[7] = Word(CsrWord(2, S0, CSR_FFLAGS, 0))
      /\ items[8] = Word(EBREAK)
  <2> DEFINE p0 == <<li32(T0, v),
                  Word(enc_r(120, 0, T0, 0, 1, OP_FP)),
                  li32(T0, 0),
                  Word(enc_r(120, 0, T0, 0, 2, OP_FP)),
                  Word(CsrWord(5, 0, CSR_FFLAGS, 0))>>
             q1 == <<Word(enc_r(96, u, 1, rm, A0, OP_FP)),
                  Word(CsrWord(2, S0, CSR_FFLAGS, 0)),
                  Word(EBREAK)>>
             p1 == p0 \o q1
             S0_ == {p0[1], p0[2], p0[3], p0[4], p0[5]}
             S1_ == {q1[1], q1[2], q1[3]}
  <2>1. items = p1
    BY DEF convert, operands, fmv_w_x, fmv_x_w, fp, csrrwi, csrr, csrrs, system, CsrWord, ebreak, EBREAK, Special
  <2>2. p0 \in Seq(S0_) /\ Len(p0) = 5
    OBVIOUS
  <2>3. /\ p0[1] = li32(T0, v)
        /\ p0[2] = Word(enc_r(120, 0, T0, 0, 1, OP_FP))
        /\ p0[3] = li32(T0, 0)
        /\ p0[4] = Word(enc_r(120, 0, T0, 0, 2, OP_FP))
        /\ p0[5] = Word(CsrWord(5, 0, CSR_FFLAGS, 0))
    OBVIOUS
  <2>4. q1 \in Seq(S1_) /\ Len(q1) = 3
    OBVIOUS
  <2>5. /\ q1[1] = Word(enc_r(96, u, 1, rm, A0, OP_FP))
        /\ q1[2] = Word(CsrWord(2, S0, CSR_FFLAGS, 0))
        /\ q1[3] = Word(EBREAK)
    OBVIOUS
  <2> HIDE DEF p0, S0_, q1, S1_, items
  <2>6. IsJoin(p1, p0, 5, q1, 3)
    BY ONLY <2>2, <2>4, Appended
  <2>n1. Len(p1) = 8
    BY <2>6 DEF IsJoin
  <2> HIDE DEF p1
  <2>7. /\ \A i \in 1 .. 5 : p1[i] = p0[i]
        /\ \A i \in 1 .. 3 : p1[5 + i] = q1[i]
    BY <2>6 DEF IsJoin
  <2>8. /\ p1[1] = li32(T0, v)
        /\ p1[2] = Word(enc_r(120, 0, T0, 0, 1, OP_FP))
        /\ p1[3] = li32(T0, 0)
        /\ p1[4] = Word(enc_r(120, 0, T0, 0, 2, OP_FP))
        /\ p1[5] = Word(CsrWord(5, 0, CSR_FFLAGS, 0))
        /\ p1[6] = Word(enc_r(96, u, 1, rm, A0, OP_FP))
        /\ p1[7] = Word(CsrWord(2, S0, CSR_FFLAGS, 0))
        /\ p1[8] = Word(EBREAK)
    <3>1. /\ 5 + 1 = 6 /\ 5 + 2 = 7 /\ 5 + 3 = 8
      OBVIOUS
    <3>2. /\ p1[1] = p0[1]
          /\ p1[2] = p0[2]
          /\ p1[3] = p0[3]
          /\ p1[4] = p0[4]
          /\ p1[5] = p0[5]
          /\ p1[6] = q1[1]
          /\ p1[7] = q1[2]
          /\ p1[8] = q1[3]
      BY <2>7, <3>1
    <3> QED BY ONLY <3>2, <2>3, <2>5
  <2> QED BY ONLY <2>1, <2>n1, <2>8
<1> HIDE DEF items
<1>2. /\ Holds(c, TEXT, Lui(T0, v)) /\ Holds(c, TEXT + 4, Addi(T0, v))
      /\ ItemAt(items, TEXT, 2, 8)
  <2>1. items[1] = li32(T0, v) /\ Len(items) \in Nat /\ Len(items) >= 1 /\ TEXT \in Int
    BY <1>1
  <2> QED BY ONLY <2>1, FirstConstant
<1>3. Holds(c, TEXT + 8, enc_r(120, 0, T0, 0, 1, OP_FP)) /\ ItemAt(items, TEXT, 3, 12)
  <2>1. items[2] = Word(enc_r(120, 0, T0, 0, 1, OP_FP)) /\ 2 <= Len(items) /\ TEXT \in Int
    BY <1>1
  <2> QED BY ONLY <1>2, <2>1, NextWord
<1>4. /\ Holds(c, TEXT + 12, Lui(T0, 0)) /\ Holds(c, TEXT + 16, Addi(T0, 0))
      /\ ItemAt(items, TEXT, 4, 20)
  <2>1. items[3] = li32(T0, 0) /\ 3 <= Len(items) /\ TEXT \in Int
    BY <1>1
  <2> QED BY ONLY <1>3, <2>1, NextConstant
<1>5. Holds(c, TEXT + 20, enc_r(120, 0, T0, 0, 2, OP_FP)) /\ ItemAt(items, TEXT, 5, 24)
  <2>1. items[4] = Word(enc_r(120, 0, T0, 0, 2, OP_FP)) /\ 4 <= Len(items) /\ TEXT \in Int
    BY <1>1
  <2> QED BY ONLY <1>4, <2>1, NextWord
<1>6. Holds(c, TEXT + 24, CsrWord(5, 0, CSR_FFLAGS, 0)) /\ ItemAt(items, TEXT, 6, 28)
  <2>1. items[5] = Word(CsrWord(5, 0, CSR_FFLAGS, 0)) /\ 5 <= Len(items) /\ TEXT \in Int
    BY <1>1
  <2> QED BY ONLY <1>5, <2>1, NextWord
<1>7. Holds(c, TEXT + 28, enc_r(96, u, 1, rm, A0, OP_FP)) /\ ItemAt(items, TEXT, 7, 32)
  <2>1. items[6] = Word(enc_r(96, u, 1, rm, A0, OP_FP)) /\ 6 <= Len(items) /\ TEXT \in Int
    BY <1>1
  <2> QED BY ONLY <1>6, <2>1, NextWord
<1>8. Holds(c, TEXT + 32, CsrWord(2, S0, CSR_FFLAGS, 0)) /\ ItemAt(items, TEXT, 8, 36)
  <2>1. items[7] = Word(CsrWord(2, S0, CSR_FFLAGS, 0)) /\ 7 <= Len(items) /\ TEXT \in Int
    BY <1>1
  <2> QED BY ONLY <1>7, <2>1, NextWord
<1>9. Holds(c, TEXT + 36, EBREAK) /\ ItemAt(items, TEXT, 9, 40)
  <2>1. items[8] = Word(EBREAK) /\ 8 <= Len(items) /\ TEXT \in Int
    BY <1>1
  <2> QED BY ONLY <1>8, <2>1, NextWord
<1> QED BY <1>2, <1>3, <1>4, <1>5, <1>6, <1>7, <1>8, <1>9 DEF ConvertText, items

\* What the registers hold, step by step.
ConvertFacts(v, rm, u) ==
    /\ OnLine(10)
    /\ mtime = 1 => regs[T0] = Wrap(Immediate(Lui(T0, v)))
    /\ mtime \in 2 .. 3 => regs[T0] = v
    /\ mtime = 4 => regs[T0] = Wrap(Immediate(Lui(T0, 0)))
    /\ mtime >= 5 => regs[T0] = 0
    /\ mtime >= 3 => fregs[1] = v
    /\ mtime >= 6 => fregs[2] = 0
    /\ mtime = 7 => fflags = {}
    /\ mtime = 8 => fflags = AsInteger(v, rm, u).flags
    /\ mtime >= 8 => regs[A0] = AsInteger(v, rm, u).bits
    /\ mtime >= 9 => regs[S0] = Number(AsInteger(v, rm, u).flags)

\* Every step of the program leaves them so.
LEMMA ConvertStep ==
  ASSUME CInv, Step, XLEN <= 32, TextFits(10),
         NEW v \in Words, NEW rm \in 0 .. 3, NEW u \in {0, 1},
         ConvertText(boot.code, v, rm, u), ConvertFacts(v, rm, u)
  PROVE  ConvertFacts(v, rm, u)'
<1>1. /\ state = "RUNNING" /\ mtime \in 0 .. 9 /\ pc = TEXT + 4 * mtime
      /\ TEXT \in Nat /\ TEXT % 2 = 0 /\ MemSize \in Nat /\ TEXT + 40 <= MemSize
      /\ regs \in [Registers -> Words] /\ regs[0] = 0 /\ fregs \in [Registers -> Words]
      /\ fflags \subseteq Flags
  BY MemoryAssumption DEF Step, Going, ConvertFacts, OnLine, CInv, CTypeOK, TextFits
<1>2. ASSUME Advances, mtime < 9 PROVE mtime' = mtime + 1 /\ OnLine(10)'
  BY <1>1, <1>2 DEF Advances, OnLine
<1>3. CASE mtime = 0
  <2>1. AtWord(Lui(T0, v))
    BY <1>1, <1>3 DEF ConvertText, AtWord
  <2>3. T0 \in 1 .. 31 /\ v \in Words
    BY WordSizes, Named
  <2>4. Writes(T0, Wrap(Immediate(Lui(T0, v))))
    BY <2>1, <2>3, LuiRuns
  <2>5. /\ mtime' = 1
        /\ OnLine(10)'
        /\ regs' = [regs EXCEPT ![T0] = Wrap(Immediate(Lui(T0, v)))]
        /\ fregs' = fregs
        /\ fflags' = fflags
    BY <1>2, <1>3, <2>4 DEF Writes, FpSets, FpWrites, Result
  <2>6. /\ regs'[T0] = Wrap(Immediate(Lui(T0, v))) /\ regs'[A0] = regs[A0] /\ regs'[S0] = regs[S0]
    BY <1>1, <2>5, Named DEF Registers
  <2>7. /\ fregs'[1] = fregs[1] /\ fregs'[2] = fregs[2]
    BY <2>5
  <2> QED BY <1>3, <2>5, <2>6, <2>7 DEF ConvertFacts
<1>4. CASE mtime = 1
  <2>1. AtWord(Addi(T0, v))
    BY <1>1, <1>4 DEF ConvertText, AtWord
  <2>2. regs[T0] = Wrap(Immediate(Lui(T0, v)))
    BY <1>4 DEF ConvertFacts
  <2>3. T0 \in 1 .. 31 /\ v \in Words
    BY WordSizes, Named
  <2>4. Writes(T0, v)
    BY <2>1, <2>2, <2>3, AddiRuns
  <2>5. /\ mtime' = 2
        /\ OnLine(10)'
        /\ regs' = [regs EXCEPT ![T0] = v]
        /\ fregs' = fregs
        /\ fflags' = fflags
    BY <1>2, <1>4, <2>4 DEF Writes, FpSets, FpWrites, Result
  <2>6. /\ regs'[T0] = v /\ regs'[A0] = regs[A0] /\ regs'[S0] = regs[S0]
    BY <1>1, <2>5, Named DEF Registers
  <2>7. /\ fregs'[1] = fregs[1] /\ fregs'[2] = fregs[2]
    BY <2>5
  <2> QED BY <1>4, <2>5, <2>6, <2>7 DEF ConvertFacts
<1>5. CASE mtime = 2
  <2>1. AtWord(enc_r(120, 0, T0, 0, 1, OP_FP))
    BY <1>1, <1>5 DEF ConvertText, AtWord
  <2>2. regs[T0] = v
    BY <1>5 DEF ConvertFacts
  <2>3. FpSets(1, Result(regs[T0], {}))
    BY <2>1, MoveInRuns, InRange
  <2>4. FpSets(1, Result(v, {}))
    BY <2>2, <2>3
  <2>5. /\ mtime' = 3
        /\ OnLine(10)'
        /\ regs' = regs
        /\ fregs' = [fregs EXCEPT ![1] = v]
    BY <1>2, <1>5, <2>4 DEF Writes, FpSets, FpWrites, Result
  <2>6. /\ regs'[T0] = regs[T0] /\ regs'[A0] = regs[A0] /\ regs'[S0] = regs[S0]
    BY <2>5
  <2>7. /\ fregs'[1] = v /\ fregs'[2] = fregs[2]
    BY <1>1, <2>5 DEF Registers
  <2> QED BY <1>5, <2>5, <2>6, <2>7 DEF ConvertFacts
<1>6. CASE mtime = 3
  <2>1. AtWord(Lui(T0, 0))
    BY <1>1, <1>6 DEF ConvertText, AtWord
  <2>3. T0 \in 1 .. 31 /\ 0 \in Words
    BY WordSizes, Named
  <2>4. Writes(T0, Wrap(Immediate(Lui(T0, 0))))
    BY <2>1, <2>3, LuiRuns
  <2>5. /\ mtime' = 4
        /\ OnLine(10)'
        /\ regs' = [regs EXCEPT ![T0] = Wrap(Immediate(Lui(T0, 0)))]
        /\ fregs' = fregs
        /\ fflags' = fflags
    BY <1>2, <1>6, <2>4 DEF Writes, FpSets, FpWrites, Result
  <2>6. /\ regs'[T0] = Wrap(Immediate(Lui(T0, 0))) /\ regs'[A0] = regs[A0] /\ regs'[S0] = regs[S0]
    BY <1>1, <2>5, Named DEF Registers
  <2>7. /\ fregs'[1] = fregs[1] /\ fregs'[2] = fregs[2]
    BY <2>5
  <2> QED BY <1>6, <2>5, <2>6, <2>7 DEF ConvertFacts
<1>7. CASE mtime = 4
  <2>1. AtWord(Addi(T0, 0))
    BY <1>1, <1>7 DEF ConvertText, AtWord
  <2>2. regs[T0] = Wrap(Immediate(Lui(T0, 0)))
    BY <1>7 DEF ConvertFacts
  <2>3. T0 \in 1 .. 31 /\ 0 \in Words
    BY WordSizes, Named
  <2>4. Writes(T0, 0)
    BY <2>1, <2>2, <2>3, AddiRuns
  <2>5. /\ mtime' = 5
        /\ OnLine(10)'
        /\ regs' = [regs EXCEPT ![T0] = 0]
        /\ fregs' = fregs
        /\ fflags' = fflags
    BY <1>2, <1>7, <2>4 DEF Writes, FpSets, FpWrites, Result
  <2>6. /\ regs'[T0] = 0 /\ regs'[A0] = regs[A0] /\ regs'[S0] = regs[S0]
    BY <1>1, <2>5, Named DEF Registers
  <2>7. /\ fregs'[1] = fregs[1] /\ fregs'[2] = fregs[2]
    BY <2>5
  <2> QED BY <1>7, <2>5, <2>6, <2>7 DEF ConvertFacts
<1>8. CASE mtime = 5
  <2>1. AtWord(enc_r(120, 0, T0, 0, 2, OP_FP))
    BY <1>1, <1>8 DEF ConvertText, AtWord
  <2>2. regs[T0] = 0
    BY <1>8 DEF ConvertFacts
  <2>3. FpSets(2, Result(regs[T0], {}))
    BY <2>1, MoveInRuns, InRange
  <2>4. FpSets(2, Result(0, {}))
    BY <2>2, <2>3
  <2>5. /\ mtime' = 6
        /\ OnLine(10)'
        /\ regs' = regs
        /\ fregs' = [fregs EXCEPT ![2] = 0]
    BY <1>2, <1>8, <2>4 DEF Writes, FpSets, FpWrites, Result
  <2>6. /\ regs'[T0] = regs[T0] /\ regs'[A0] = regs[A0] /\ regs'[S0] = regs[S0]
    BY <2>5
  <2>7. /\ fregs'[1] = fregs[1] /\ fregs'[2] = 0
    BY <1>1, <2>5 DEF Registers
  <2> QED BY <1>8, <2>5, <2>6, <2>7 DEF ConvertFacts
<1>9. CASE mtime = 6
  <2>1. AtWord(CsrWord(5, 0, CSR_FFLAGS, 0))
    BY <1>1, <1>9 DEF ConvertText, AtWord
  <2>3. 0 \in Registers
    BY DEF Registers
  <2>4. Advances /\ fflags' = {} /\ regs' = regs /\ fregs' = fregs
    BY <2>1, <2>3, FlagsSet, NoBits
  <2>5. /\ mtime' = 7
        /\ OnLine(10)'
        /\ regs' = regs
        /\ fregs' = fregs
        /\ fflags' = {}
    BY <1>2, <1>9, <2>4 DEF Writes, FpSets, FpWrites, Result
  <2>6. /\ regs'[T0] = regs[T0] /\ regs'[A0] = regs[A0] /\ regs'[S0] = regs[S0]
    BY <2>5
  <2>7. /\ fregs'[1] = fregs[1] /\ fregs'[2] = fregs[2]
    BY <2>5
  <2> QED BY <1>9, <2>5, <2>6, <2>7 DEF ConvertFacts
<1>10. CASE mtime = 7
  <2>1. AtWord(enc_r(96, u, 1, rm, A0, OP_FP))
    BY <1>1, <1>10 DEF ConvertText, AtWord
  <2>2. fregs[1] = v /\ fflags = {}
    BY <1>10 DEF ConvertFacts
  <2>r. rm \in 0 .. 3 /\ u \in {0, 1} /\ A0 \in 1 .. 31 /\ 1 \in Registers
    BY InRange DEF Registers
  <2>3. FpWrites(A0, fp_float_to_int(rm, csr[CSR_FRM], fregs[1], u = 1))
    BY <2>1, <2>r, ToIntRuns
  <2>y. fp_float_to_int(rm, csr[CSR_FRM], fregs[1], u = 1) = AsInteger(v, rm, u)
    BY <2>2, <2>r, StaticConversions
  <2>z. FpWrites(A0, AsInteger(v, rm, u))
    BY <2>3, <2>y
  <2>4. Advances /\ regs' = [regs EXCEPT ![A0] = AsInteger(v, rm, u).bits] /\ fregs' = fregs
        /\ fflags' = AsInteger(v, rm, u).flags
    BY <2>2, <2>z DEF FpWrites
  <2>5. /\ mtime' = 8
        /\ OnLine(10)'
        /\ regs' = [regs EXCEPT ![A0] = AsInteger(v, rm, u).bits]
        /\ fregs' = fregs
        /\ fflags' = AsInteger(v, rm, u).flags
    BY <1>2, <1>10, <2>4 DEF Writes, FpSets, FpWrites, Result
  <2>6. /\ regs'[T0] = regs[T0] /\ regs'[A0] = AsInteger(v, rm, u).bits /\ regs'[S0] = regs[S0]
    BY <1>1, <2>5, Named DEF Registers
  <2>7. /\ fregs'[1] = fregs[1] /\ fregs'[2] = fregs[2]
    BY <2>5
  <2> QED BY <1>10, <2>5, <2>6, <2>7 DEF ConvertFacts
<1>11. CASE mtime = 8
  <2>1. AtWord(CsrWord(2, S0, CSR_FFLAGS, 0))
    BY <1>1, <1>11 DEF ConvertText, AtWord
  <2>2. fflags = AsInteger(v, rm, u).flags
    BY <1>11 DEF ConvertFacts
  <2>3. Advances /\ regs' = [regs EXCEPT ![S0] = Number(fflags)] /\ fregs' = fregs
    BY <2>1, FlagsRead, InRange
  <2>4. Advances /\ regs' = [regs EXCEPT ![S0] = Number(AsInteger(v, rm, u).flags)] /\ fregs' = fregs
    BY <2>2, <2>3
  <2>5. /\ mtime' = 9
        /\ OnLine(10)'
        /\ regs' = [regs EXCEPT ![S0] = Number(AsInteger(v, rm, u).flags)]
        /\ fregs' = fregs
    BY <1>2, <1>11, <2>4 DEF Writes, FpSets, FpWrites, Result
  <2>6. /\ regs'[T0] = regs[T0] /\ regs'[A0] = regs[A0] /\ regs'[S0] = Number(AsInteger(v, rm, u).flags)
    BY <1>1, <2>5, Named DEF Registers
  <2>7. /\ fregs'[1] = fregs[1] /\ fregs'[2] = fregs[2]
    BY <2>5
  <2> QED BY <1>11, <2>5, <2>6, <2>7 DEF ConvertFacts
<1>12. CASE mtime = 9
  <2>1. AtWord(EBREAK)
    BY <1>1, <1>12 DEF ConvertText, AtWord
  <2>5. mtime' = mtime + 1 /\ state' = "HALTED" /\ regs' = regs /\ fregs' = fregs /\ fflags' = fflags /\ mem' = mem
    BY <2>1, EbreakRuns
  <2>6. OnLine(10)' /\ mtime' = 10
    BY <1>12, <2>5 DEF OnLine
  <2> QED BY <1>12, <2>5, <2>6 DEF ConvertFacts
<1> QED BY <1>1, <1>3, <1>4, <1>5, <1>6, <1>7, <1>8, <1>9, <1>10, <1>11, <1>12
\* Its words.
IntegralText(c, v, rm, u) ==
    /\ Holds(c, TEXT, Lui(T0, v))
    /\ Holds(c, TEXT + 4, Addi(T0, v))
    /\ Holds(c, TEXT + 8, CsrWord(5, 0, CSR_FFLAGS, 0))
    /\ Holds(c, TEXT + 12, enc_r(104, u, T0, rm, 1, OP_FP))
    /\ Holds(c, TEXT + 16, CsrWord(2, S0, CSR_FFLAGS, 0))
    /\ Holds(c, TEXT + 20, enc_r(96, u, 1, 1, A0, OP_FP))
    /\ Holds(c, TEXT + 24, enc_r(112, 0, 1, 0, A1, OP_FP))
    /\ Holds(c, TEXT + 28, EBREAK)

\* The assembler puts them there.
LEMMA IntegralAssembled ==
  ASSUME TEXT \in Nat, NEW v, NEW rm, NEW u
  PROVE  IntegralText(assemble(there_and_back(v, rm, u), TEXT), v, rm, u)
<1> DEFINE items == there_and_back(v, rm, u)
           c == assemble(items, TEXT)
<1>1. /\ Len(items) = 7
      /\ items[1] = li32(T0, v)
      /\ items[2] = Word(CsrWord(5, 0, CSR_FFLAGS, 0))
      /\ items[3] = Word(enc_r(104, u, T0, rm, 1, OP_FP))
      /\ items[4] = Word(CsrWord(2, S0, CSR_FFLAGS, 0))
      /\ items[5] = Word(enc_r(96, u, 1, 1, A0, OP_FP))
      /\ items[6] = Word(enc_r(112, 0, 1, 0, A1, OP_FP))
      /\ items[7] = Word(EBREAK)
  BY DEF there_and_back, fmv_w_x, fmv_x_w, fp, csrrwi, csrr, csrrs, system, CsrWord, ebreak, EBREAK, Special
<1> HIDE DEF items
<1>2. /\ Holds(c, TEXT, Lui(T0, v)) /\ Holds(c, TEXT + 4, Addi(T0, v))
      /\ ItemAt(items, TEXT, 2, 8)
  <2>1. items[1] = li32(T0, v) /\ Len(items) \in Nat /\ Len(items) >= 1 /\ TEXT \in Int
    BY <1>1
  <2> QED BY ONLY <2>1, FirstConstant
<1>3. Holds(c, TEXT + 8, CsrWord(5, 0, CSR_FFLAGS, 0)) /\ ItemAt(items, TEXT, 3, 12)
  <2>1. items[2] = Word(CsrWord(5, 0, CSR_FFLAGS, 0)) /\ 2 <= Len(items) /\ TEXT \in Int
    BY <1>1
  <2> QED BY ONLY <1>2, <2>1, NextWord
<1>4. Holds(c, TEXT + 12, enc_r(104, u, T0, rm, 1, OP_FP)) /\ ItemAt(items, TEXT, 4, 16)
  <2>1. items[3] = Word(enc_r(104, u, T0, rm, 1, OP_FP)) /\ 3 <= Len(items) /\ TEXT \in Int
    BY <1>1
  <2> QED BY ONLY <1>3, <2>1, NextWord
<1>5. Holds(c, TEXT + 16, CsrWord(2, S0, CSR_FFLAGS, 0)) /\ ItemAt(items, TEXT, 5, 20)
  <2>1. items[4] = Word(CsrWord(2, S0, CSR_FFLAGS, 0)) /\ 4 <= Len(items) /\ TEXT \in Int
    BY <1>1
  <2> QED BY ONLY <1>4, <2>1, NextWord
<1>6. Holds(c, TEXT + 20, enc_r(96, u, 1, 1, A0, OP_FP)) /\ ItemAt(items, TEXT, 6, 24)
  <2>1. items[5] = Word(enc_r(96, u, 1, 1, A0, OP_FP)) /\ 5 <= Len(items) /\ TEXT \in Int
    BY <1>1
  <2> QED BY ONLY <1>5, <2>1, NextWord
<1>7. Holds(c, TEXT + 24, enc_r(112, 0, 1, 0, A1, OP_FP)) /\ ItemAt(items, TEXT, 7, 28)
  <2>1. items[6] = Word(enc_r(112, 0, 1, 0, A1, OP_FP)) /\ 6 <= Len(items) /\ TEXT \in Int
    BY <1>1
  <2> QED BY ONLY <1>6, <2>1, NextWord
<1>8. Holds(c, TEXT + 28, EBREAK) /\ ItemAt(items, TEXT, 8, 32)
  <2>1. items[7] = Word(EBREAK) /\ 7 <= Len(items) /\ TEXT \in Int
    BY <1>1
  <2> QED BY ONLY <1>7, <2>1, NextWord
<1> QED BY <1>2, <1>3, <1>4, <1>5, <1>6, <1>7, <1>8 DEF IntegralText, items

\* What the registers hold, step by step.
IntegralFacts(v, rm, u) ==
    /\ OnLine(8)
    /\ mtime = 1 => regs[T0] = Wrap(Immediate(Lui(T0, v)))
    /\ mtime >= 2 => regs[T0] = v
    /\ mtime = 3 => fflags = {}
    /\ mtime = 4 => fflags = AsFloat(v, rm, u).flags
    /\ mtime >= 4 => fregs[1] = AsFloat(v, rm, u).bits
    /\ mtime >= 5 => regs[S0] = Number(AsFloat(v, rm, u).flags)
    /\ mtime >= 6 => regs[A0] = AsInteger(AsFloat(v, rm, u).bits, 1, u).bits
    /\ mtime >= 7 => regs[A1] = AsFloat(v, rm, u).bits

\* Every step of the program leaves them so.
LEMMA IntegralStep ==
  ASSUME CInv, Step, XLEN <= 32, TextFits(8),
         NEW v \in Words, NEW rm \in 0 .. 3, NEW u \in {0, 1},
         IntegralText(boot.code, v, rm, u), IntegralFacts(v, rm, u)
  PROVE  IntegralFacts(v, rm, u)'
<1>1. /\ state = "RUNNING" /\ mtime \in 0 .. 7 /\ pc = TEXT + 4 * mtime
      /\ TEXT \in Nat /\ TEXT % 2 = 0 /\ MemSize \in Nat /\ TEXT + 32 <= MemSize
      /\ regs \in [Registers -> Words] /\ regs[0] = 0 /\ fregs \in [Registers -> Words]
      /\ fflags \subseteq Flags
  BY MemoryAssumption DEF Step, Going, IntegralFacts, OnLine, CInv, CTypeOK, TextFits
<1>2. ASSUME Advances, mtime < 7 PROVE mtime' = mtime + 1 /\ OnLine(8)'
  BY <1>1, <1>2 DEF Advances, OnLine
<1>3. CASE mtime = 0
  <2>1. AtWord(Lui(T0, v))
    BY <1>1, <1>3 DEF IntegralText, AtWord
  <2>3. T0 \in 1 .. 31 /\ v \in Words
    BY WordSizes, Named
  <2>4. Writes(T0, Wrap(Immediate(Lui(T0, v))))
    BY <2>1, <2>3, LuiRuns
  <2>5. /\ mtime' = 1
        /\ OnLine(8)'
        /\ regs' = [regs EXCEPT ![T0] = Wrap(Immediate(Lui(T0, v)))]
        /\ fregs' = fregs
        /\ fflags' = fflags
    BY <1>2, <1>3, <2>4 DEF Writes, FpSets, FpWrites, Result
  <2>6. /\ regs'[T0] = Wrap(Immediate(Lui(T0, v))) /\ regs'[S0] = regs[S0] /\ regs'[A0] = regs[A0]
        /\ regs'[A1] = regs[A1]
    BY <1>1, <2>5, Named DEF Registers
  <2>7. /\ fregs'[1] = fregs[1]
    BY <2>5
  <2> QED BY <1>3, <2>5, <2>6, <2>7 DEF IntegralFacts
<1>4. CASE mtime = 1
  <2>1. AtWord(Addi(T0, v))
    BY <1>1, <1>4 DEF IntegralText, AtWord
  <2>2. regs[T0] = Wrap(Immediate(Lui(T0, v)))
    BY <1>4 DEF IntegralFacts
  <2>3. T0 \in 1 .. 31 /\ v \in Words
    BY WordSizes, Named
  <2>4. Writes(T0, v)
    BY <2>1, <2>2, <2>3, AddiRuns
  <2>5. /\ mtime' = 2
        /\ OnLine(8)'
        /\ regs' = [regs EXCEPT ![T0] = v]
        /\ fregs' = fregs
        /\ fflags' = fflags
    BY <1>2, <1>4, <2>4 DEF Writes, FpSets, FpWrites, Result
  <2>6. /\ regs'[T0] = v /\ regs'[S0] = regs[S0] /\ regs'[A0] = regs[A0]
        /\ regs'[A1] = regs[A1]
    BY <1>1, <2>5, Named DEF Registers
  <2>7. /\ fregs'[1] = fregs[1]
    BY <2>5
  <2> QED BY <1>4, <2>5, <2>6, <2>7 DEF IntegralFacts
<1>5. CASE mtime = 2
  <2>1. AtWord(CsrWord(5, 0, CSR_FFLAGS, 0))
    BY <1>1, <1>5 DEF IntegralText, AtWord
  <2>3. 0 \in Registers
    BY DEF Registers
  <2>4. Advances /\ fflags' = {} /\ regs' = regs /\ fregs' = fregs
    BY <2>1, <2>3, FlagsSet, NoBits
  <2>5. /\ mtime' = 3
        /\ OnLine(8)'
        /\ regs' = regs
        /\ fregs' = fregs
        /\ fflags' = {}
    BY <1>2, <1>5, <2>4 DEF Writes, FpSets, FpWrites, Result
  <2>6. /\ regs'[T0] = regs[T0] /\ regs'[S0] = regs[S0] /\ regs'[A0] = regs[A0]
        /\ regs'[A1] = regs[A1]
    BY <2>5
  <2>7. /\ fregs'[1] = fregs[1]
    BY <2>5
  <2> QED BY <1>5, <2>5, <2>6, <2>7 DEF IntegralFacts
<1>6. CASE mtime = 3
  <2>1. AtWord(enc_r(104, u, T0, rm, 1, OP_FP))
    BY <1>1, <1>6 DEF IntegralText, AtWord
  <2>2. regs[T0] = v /\ fflags = {}
    BY <1>6 DEF IntegralFacts
  <2>r. 1 \in 1 .. 31 /\ T0 \in Registers
    BY Named DEF Registers
  <2>3. FpSets(1, fp_int_to_float(rm, csr[CSR_FRM], regs[T0], u = 1))
    BY <2>1, <2>r, ToFloatRuns
  <2>z. FpSets(1, AsFloat(v, rm, u))
    BY <2>2, <2>3, StaticConversions
  <2>4. Advances /\ fregs' = [fregs EXCEPT ![1] = AsFloat(v, rm, u).bits] /\ regs' = regs
        /\ fflags' = AsFloat(v, rm, u).flags
    BY <2>2, <2>z DEF FpSets
  <2>5. /\ mtime' = 4
        /\ OnLine(8)'
        /\ regs' = regs
        /\ fregs' = [fregs EXCEPT ![1] = AsFloat(v, rm, u).bits]
        /\ fflags' = AsFloat(v, rm, u).flags
    BY <1>2, <1>6, <2>4 DEF Writes, FpSets, FpWrites, Result
  <2>6. /\ regs'[T0] = regs[T0] /\ regs'[S0] = regs[S0] /\ regs'[A0] = regs[A0]
        /\ regs'[A1] = regs[A1]
    BY <2>5
  <2>7. /\ fregs'[1] = AsFloat(v, rm, u).bits
    BY <1>1, <2>5 DEF Registers
  <2> QED BY <1>6, <2>5, <2>6, <2>7 DEF IntegralFacts
<1>7. CASE mtime = 4
  <2>1. AtWord(CsrWord(2, S0, CSR_FFLAGS, 0))
    BY <1>1, <1>7 DEF IntegralText, AtWord
  <2>2. fflags = AsFloat(v, rm, u).flags
    BY <1>7 DEF IntegralFacts
  <2>3. Advances /\ regs' = [regs EXCEPT ![S0] = Number(fflags)] /\ fregs' = fregs
    BY <2>1, FlagsRead, InRange
  <2>4. Advances /\ regs' = [regs EXCEPT ![S0] = Number(AsFloat(v, rm, u).flags)] /\ fregs' = fregs
    BY <2>2, <2>3
  <2>5. /\ mtime' = 5
        /\ OnLine(8)'
        /\ regs' = [regs EXCEPT ![S0] = Number(AsFloat(v, rm, u).flags)]
        /\ fregs' = fregs
    BY <1>2, <1>7, <2>4 DEF Writes, FpSets, FpWrites, Result
  <2>6. /\ regs'[T0] = regs[T0] /\ regs'[S0] = Number(AsFloat(v, rm, u).flags) /\ regs'[A0] = regs[A0]
        /\ regs'[A1] = regs[A1]
    BY <1>1, <2>5, Named DEF Registers
  <2>7. /\ fregs'[1] = fregs[1]
    BY <2>5
  <2> QED BY <1>7, <2>5, <2>6, <2>7 DEF IntegralFacts
<1>8. CASE mtime = 5
  <2>1. AtWord(enc_r(96, u, 1, 1, A0, OP_FP))
    BY <1>1, <1>8 DEF IntegralText, AtWord
  <2>2. fregs[1] = AsFloat(v, rm, u).bits
    BY <1>8 DEF IntegralFacts
  <2>r. 1 \in 0 .. 3 /\ u \in {0, 1} /\ A0 \in 1 .. 31 /\ 1 \in Registers
    BY InRange DEF Registers
  <2>3. FpWrites(A0, fp_float_to_int(1, csr[CSR_FRM], fregs[1], u = 1))
    BY <2>1, <2>r, ToIntRuns
  <2>y. fp_float_to_int(1, csr[CSR_FRM], fregs[1], u = 1) = AsInteger(AsFloat(v, rm, u).bits, 1, u)
    BY <2>2, <2>r, StaticConversions
  <2>z. FpWrites(A0, AsInteger(AsFloat(v, rm, u).bits, 1, u))
    BY <2>3, <2>y
  <2>4. Advances /\ regs' = [regs EXCEPT ![A0] = AsInteger(AsFloat(v, rm, u).bits, 1, u).bits] /\ fregs' = fregs
    BY <2>2, <2>z DEF FpWrites
  <2>5. /\ mtime' = 6
        /\ OnLine(8)'
        /\ regs' = [regs EXCEPT ![A0] = AsInteger(AsFloat(v, rm, u).bits, 1, u).bits]
        /\ fregs' = fregs
    BY <1>2, <1>8, <2>4 DEF Writes, FpSets, FpWrites, Result
  <2>6. /\ regs'[T0] = regs[T0] /\ regs'[S0] = regs[S0] /\ regs'[A0] = AsInteger(AsFloat(v, rm, u).bits, 1, u).bits
        /\ regs'[A1] = regs[A1]
    BY <1>1, <2>5, Named DEF Registers
  <2>7. /\ fregs'[1] = fregs[1]
    BY <2>5
  <2> QED BY <1>8, <2>5, <2>6, <2>7 DEF IntegralFacts
<1>9. CASE mtime = 6
  <2>1. AtWord(enc_r(112, 0, 1, 0, A1, OP_FP))
    BY <1>1, <1>9 DEF IntegralText, AtWord
  <2>2. fregs[1] = AsFloat(v, rm, u).bits
    BY <1>9 DEF IntegralFacts
  <2>3. FpWrites(A1, Result(fregs[1], {}))
    BY <2>1, MoveOutRuns, InRange DEF Registers
  <2>4. FpWrites(A1, Result(AsFloat(v, rm, u).bits, {}))
    BY <2>2, <2>3
  <2>5. /\ mtime' = 7
        /\ OnLine(8)'
        /\ regs' = [regs EXCEPT ![A1] = AsFloat(v, rm, u).bits]
        /\ fregs' = fregs
    BY <1>2, <1>9, <2>4 DEF Writes, FpSets, FpWrites, Result
  <2>6. /\ regs'[T0] = regs[T0] /\ regs'[S0] = regs[S0] /\ regs'[A0] = regs[A0]
        /\ regs'[A1] = AsFloat(v, rm, u).bits
    BY <1>1, <2>5, Named DEF Registers
  <2>7. /\ fregs'[1] = fregs[1]
    BY <2>5
  <2> QED BY <1>9, <2>5, <2>6, <2>7 DEF IntegralFacts
<1>10. CASE mtime = 7
  <2>1. AtWord(EBREAK)
    BY <1>1, <1>10 DEF IntegralText, AtWord
  <2>5. mtime' = mtime + 1 /\ state' = "HALTED" /\ regs' = regs /\ fregs' = fregs /\ fflags' = fflags /\ mem' = mem
    BY <2>1, EbreakRuns
  <2>6. OnLine(8)' /\ mtime' = 8
    BY <1>10, <2>5 DEF OnLine
  <2> QED BY <1>10, <2>5, <2>6 DEF IntegralFacts
<1> QED BY <1>1, <1>3, <1>4, <1>5, <1>6, <1>7, <1>8, <1>9, <1>10
\* When the program of a conversion to an integer is booted, it runs as above.
ConvertInv ==
    boot.name = "convert" =>
        \E v \in Words, rm \in 0 .. 3, u \in {0, 1} :
            /\ boot.args = <<v, rm, u>> /\ ConvertText(boot.code, v, rm, u)
            /\ ConvertFacts(v, rm, u)

\* It is so at the start.
LEMMA ConvertInit ==
  ASSUME TextFits(10), Init, \A b \in Boots : b.name = "convert" => b \in Conversions(Words)
  PROVE  ConvertInv
<1> SUFFICES ASSUME boot.name = "convert"
             PROVE  \E v \in Words, rm \in 0 .. 3, u \in {0, 1} :
                      /\ boot.args = <<v, rm, u>> /\ ConvertText(boot.code, v, rm, u)
                      /\ ConvertFacts(v, rm, u)
  BY DEF ConvertInv
<1>1. boot \in Conversions(Words)
  BY DEF Init
<1>2. PICK v \in Words, rm \in 0 .. 3, u \in {0, 1} :
        boot = Booted("convert", <<v, rm, u>>, convert(v, rm, u), 60)
  <2>1. PICK v \in Words, rm \in Modes, u \in {0, 1} :
          boot = Booted("convert", <<v, rm, u>>, convert(v, rm, u), 60)
    BY ONLY <1>1 DEF Conversions
  <2> QED BY <2>1 DEF Modes
<1>3. boot.args = <<v, rm, u>> /\ boot.code = assemble(convert(v, rm, u), TEXT)
      /\ boot.entry = TEXT /\ boot.mtime = 0
  BY <1>2 DEF Booted
<1>4. ConvertText(boot.code, v, rm, u)
  BY <1>3, ConvertAssembled DEF TextFits
<1>5. mtime = 0 /\ state = "RUNNING" /\ pc = TEXT
  BY <1>3 DEF Init
<1>6. ConvertFacts(v, rm, u)
  BY <1>5 DEF ConvertFacts, OnLine, TextFits
<1> QED BY <1>3, <1>4, <1>6

\* Every step keeps that.
LEMMA ConvertKept ==
  ASSUME XLEN <= 32, TextFits(10), CInv, ConvertInv, [Next]_vars
  PROVE  ConvertInv'
<1>1. CASE UNCHANGED vars
  <2>1. UNCHANGED <<boot, mtime, state, pc, regs, fregs, fflags>>
    BY <1>1 DEF vars
  <2>2. SUFFICES ASSUME boot.name = "convert"
                 PROVE  \E v \in Words, rm \in 0 .. 3, u \in {0, 1} :
                          /\ boot.args = <<v, rm, u>> /\ ConvertText(boot.code, v, rm, u)
                          /\ ConvertFacts(v, rm, u)'
    BY <2>1 DEF ConvertInv
  <2>3. PICK v \in Words, rm \in 0 .. 3, u \in {0, 1} :
          boot.args = <<v, rm, u>> /\ ConvertText(boot.code, v, rm, u) /\ ConvertFacts(v, rm, u)
    BY <2>2 DEF ConvertInv
  <2>4. ConvertFacts(v, rm, u)'
    BY <2>1, <2>3 DEF ConvertFacts, OnLine
  <2> QED BY <2>3, <2>4
<1>2. CASE Step
  <2>1. boot' = boot
    BY <1>2 DEF Step
  <2>2. SUFFICES ASSUME boot.name = "convert"
                 PROVE  \E v \in Words, rm \in 0 .. 3, u \in {0, 1} :
                          /\ boot.args = <<v, rm, u>> /\ ConvertText(boot.code, v, rm, u)
                          /\ ConvertFacts(v, rm, u)'
    BY <2>1 DEF ConvertInv
  <2>3. PICK v \in Words, rm \in 0 .. 3, u \in {0, 1} :
          boot.args = <<v, rm, u>> /\ ConvertText(boot.code, v, rm, u) /\ ConvertFacts(v, rm, u)
    BY <2>2 DEF ConvertInv
  <2>4. ConvertFacts(v, rm, u)'
    BY <1>2, <2>3, ConvertStep
  <2> QED BY <2>3, <2>4
<1> QED BY <1>1, <1>2 DEF Next, Returned

\* When the program of a conversion from an integer is booted, it runs as above.
IntegralInv ==
    boot.name = "integral" =>
        \E v \in Words, rm \in 0 .. 3, u \in {0, 1} :
            /\ boot.args = <<v, rm, u>> /\ IntegralText(boot.code, v, rm, u)
            /\ IntegralFacts(v, rm, u)

\* It is so at the start.
LEMMA IntegralInit ==
  ASSUME TextFits(8), Init, \A b \in Boots : b.name = "integral" => b \in Integrals(Words)
  PROVE  IntegralInv
<1> SUFFICES ASSUME boot.name = "integral"
             PROVE  \E v \in Words, rm \in 0 .. 3, u \in {0, 1} :
                      /\ boot.args = <<v, rm, u>> /\ IntegralText(boot.code, v, rm, u)
                      /\ IntegralFacts(v, rm, u)
  BY DEF IntegralInv
<1>1. boot \in Integrals(Words)
  BY DEF Init
<1>2. PICK v \in Words, rm \in 0 .. 3, u \in {0, 1} :
        boot = Booted("integral", <<v, rm, u>>, there_and_back(v, rm, u), 60)
  <2>1. PICK v \in Words, rm \in Modes, u \in {0, 1} :
          boot = Booted("integral", <<v, rm, u>>, there_and_back(v, rm, u), 60)
    BY ONLY <1>1 DEF Integrals
  <2> QED BY <2>1 DEF Modes
<1>3. boot.args = <<v, rm, u>> /\ boot.code = assemble(there_and_back(v, rm, u), TEXT)
      /\ boot.entry = TEXT /\ boot.mtime = 0
  BY <1>2 DEF Booted
<1>4. IntegralText(boot.code, v, rm, u)
  BY <1>3, IntegralAssembled DEF TextFits
<1>5. mtime = 0 /\ state = "RUNNING" /\ pc = TEXT
  BY <1>3 DEF Init
<1>6. IntegralFacts(v, rm, u)
  BY <1>5 DEF IntegralFacts, OnLine, TextFits
<1> QED BY <1>3, <1>4, <1>6

\* Every step keeps that.
LEMMA IntegralKept ==
  ASSUME XLEN <= 32, TextFits(8), CInv, IntegralInv, [Next]_vars
  PROVE  IntegralInv'
<1>1. CASE UNCHANGED vars
  <2>1. UNCHANGED <<boot, mtime, state, pc, regs, fregs, fflags>>
    BY <1>1 DEF vars
  <2>2. SUFFICES ASSUME boot.name = "integral"
                 PROVE  \E v \in Words, rm \in 0 .. 3, u \in {0, 1} :
                          /\ boot.args = <<v, rm, u>> /\ IntegralText(boot.code, v, rm, u)
                          /\ IntegralFacts(v, rm, u)'
    BY <2>1 DEF IntegralInv
  <2>3. PICK v \in Words, rm \in 0 .. 3, u \in {0, 1} :
          boot.args = <<v, rm, u>> /\ IntegralText(boot.code, v, rm, u) /\ IntegralFacts(v, rm, u)
    BY <2>2 DEF IntegralInv
  <2>4. IntegralFacts(v, rm, u)'
    BY <2>1, <2>3 DEF IntegralFacts, OnLine
  <2> QED BY <2>3, <2>4
<1>2. CASE Step
  <2>1. boot' = boot
    BY <1>2 DEF Step
  <2>2. SUFFICES ASSUME boot.name = "integral"
                 PROVE  \E v \in Words, rm \in 0 .. 3, u \in {0, 1} :
                          /\ boot.args = <<v, rm, u>> /\ IntegralText(boot.code, v, rm, u)
                          /\ IntegralFacts(v, rm, u)'
    BY <2>1 DEF IntegralInv
  <2>3. PICK v \in Words, rm \in 0 .. 3, u \in {0, 1} :
          boot.args = <<v, rm, u>> /\ IntegralText(boot.code, v, rm, u) /\ IntegralFacts(v, rm, u)
    BY <2>2 DEF IntegralInv
  <2>4. IntegralFacts(v, rm, u)'
    BY <1>2, <2>3, IntegralStep
  <2> QED BY <2>3, <2>4
<1> QED BY <1>1, <1>2 DEF Next, Returned

\* The promises at the end.
LEMMA ConversionsEnd ==
  ASSUME CInv, ConvertInv, IntegralInv
  PROVE  ConversionRounds
<1>1. ASSUME Ended("convert")
      PROVE  LET u == boot.args[3] = 1 IN
             IsIntegerOf(boot.args[1], boot.args[2], u,
                         IF u THEN regs[A0] ELSE Signed(regs[A0]), regs[S0])
  <2>1. PICK v \in Words, rm \in 0 .. 3, u \in {0, 1} :
          boot.args = <<v, rm, u>> /\ ConvertFacts(v, rm, u)
    BY <1>1 DEF Ended, ConvertInv
  <2>2. mtime = 10
    BY <1>1, <2>1 DEF Ended, ConvertFacts, OnLine
  <2> DEFINE q == u = 1
             r == fp_float_to_int(rm, 0, v, q)
  <2>3. regs[A0] = r.bits /\ regs[S0] = Number(r.flags)
    BY <2>1, <2>2 DEF ConvertFacts, AsInteger
  <2>4. boot.args[1] = v /\ boot.args[2] = rm /\ boot.args[3] = u /\ q \in BOOLEAN
    BY <2>1
  <2> HIDE DEF q
  <2>5. IsIntegerOf(v, rm, q, ReadAs(q, r.bits), Number(r.flags))
    BY <2>4, ToIntRight
  <2> HIDE DEF r
  <2>6. IsIntegerOf(v, rm, q, IF q THEN regs[A0] ELSE Signed(regs[A0]), regs[S0])
    BY <2>3, <2>5 DEF ReadAs
  <2> QED BY <2>4, <2>6 DEF q
<1>2. ASSUME Ended("integral")
      PROVE  LET x == IF boot.args[3] = 1 THEN boot.args[1] ELSE Signed(boot.args[1]) IN
             /\ IsFloatOf(x, boot.args[2], regs[A1], regs[S0])
             /\ regs[S0] = 0 => regs[A0] = boot.args[1]
  <2>1. PICK v \in Words, rm \in 0 .. 3, u \in {0, 1} :
          boot.args = <<v, rm, u>> /\ IntegralFacts(v, rm, u)
    BY <1>2 DEF Ended, IntegralInv
  <2>2. mtime = 8
    BY <1>2, <2>1 DEF Ended, IntegralFacts, OnLine
  <2> DEFINE q == u = 1
             r == fp_int_to_float(rm, 0, v, q)
             w == fp_float_to_int(1, 0, r.bits, q)
  <2>3. regs[A1] = r.bits /\ regs[S0] = Number(r.flags) /\ regs[A0] = w.bits
    BY <2>1, <2>2 DEF IntegralFacts, AsInteger, AsFloat
  <2>4. boot.args[1] = v /\ boot.args[2] = rm /\ boot.args[3] = u /\ q \in BOOLEAN
    BY <2>1
  <2> HIDE DEF q
  <2>5. IsFloatOf(ReadAs(q, v), rm, r.bits, Number(r.flags))
    BY <2>4, ToFloatRight
  <2>6. Number(r.flags) = 0 => w.bits = v
    <3>1. ComesBack(v, rm, 0, 0, q)
      BY <2>4, BackAgain
    <3> QED BY <3>1 DEF ComesBack
  <2> HIDE DEF r, w
  <2>7. IsFloatOf(IF q THEN v ELSE Signed(v), rm, regs[A1], regs[S0])
    BY <2>3, <2>5 DEF ReadAs
  <2>8. regs[S0] = 0 => regs[A0] = v
    BY <2>3, <2>6
  <2> QED BY <2>4, <2>7, <2>8 DEF q
<1> QED BY <1>1, <1>2 DEF ConversionRounds

\* For every pattern, integer, static mode and format of numbers, the conversions round
\* as asked, raise inexact if and only if something was lost, saturate what does not
\* fit, and give an integer back that fits (fpu.c), whatever else is booted.
THEOREM ConversionsRound ==
  ASSUME HostTyped, XLEN <= 32, TextFits(10),
         \A b \in Boots : b.name = "convert" => b \in Conversions(Words),
         \A b \in Boots : b.name = "integral" => b \in Integrals(Words)
  PROVE  Spec => []ConversionRounds
<1> DEFINE Inv == CInv /\ ConvertInv /\ IntegralInv
<1>1. TextFits(8)
  BY MemoryAssumption DEF TextFits
<1>2. Init => Inv
  BY <1>1, InitType, ConvertInit, IntegralInit
<1>3. Inv /\ [Next]_vars => Inv'
  BY <1>1, StepType, ConvertKept, IntegralKept
<1>4. Inv => ConversionRounds
  BY ConversionsEnd
<1> QED BY <1>2, <1>3, <1>4, PTL DEF Spec
-----------------------------------------------------------------------------
\* The program of directed rounding.

\* frm is set to a mode.
LEMMA ModeSet ==
  ASSUME CInv, Step, NEW mode \in 0 .. 7, AtWord(CsrWord(5, 0, CSR_FRM, mode))
  PROVE  /\ Advances /\ csr'[CSR_FRM] = mode /\ fflags' = fflags
         /\ UNCHANGED <<regs, fregs, mem, mtimecmp, out>>
<1>1. /\ CSR_FRM \in Csrs /\ CSR_FRM \in Int /\ 0 <= CSR_FRM /\ CSR_FRM < 2048
      /\ 0 \in Registers /\ mode \in Registers /\ 5 \in {1, 2, 3, 5}
  BY CsrNumbers DEF Registers
<1>2. WrittenTo(5, CSR_FRM, mode) = mode
  BY DEF WrittenTo
<1>3. /\ Advances /\ csr' = HeldWritten(CSR_FRM, mode) /\ fflags' = FlagsWritten(CSR_FRM, mode)
      /\ regs' = regs
      /\ UNCHANGED <<fregs, mem, mtimecmp, out>>
  BY <1>1, <1>2, CsrRuns DEF reg_write
<1>4. fflags' = fflags
  BY <1>3, CsrNumbers DEF FlagsWritten
<1>5. csr'[CSR_FRM] = mode
  <2>1. HeldWritten(CSR_FRM, mode) = [Polled EXCEPT ![CSR_FRM] = mode % 8]
    BY CsrNumbers DEF HeldWritten, CSR_MCYCLE
  <2>2. Polled \in [HeldCsrs -> Words] /\ CSR_FRM \in HeldCsrs
    BY CInvParts, CsrNumbers, PolledType DEF CInv
  <2>3. mode % 8 = mode
    OBVIOUS
  <2> QED BY <1>3, <2>1, <2>2, <2>3
<1> QED BY <1>3, <1>4, <1>5

\* The second operand's register: the square root has one operand.
Second(f7) == IF f7 = 44 THEN 0 ELSE 2

\* The result of an operation in a static mode, when there is one only.
Directed(f7, rm, a, b) == CHOOSE r : r \in fp_arith(rm, 0, f7, a, b)
Settled(f7, a, b)      == \A rm \in {0, 2, 3} : fp_arith(rm, 0, f7, a, b) = {Directed(f7, rm, a, b)}

\* What the three roundings raise.
Together(f7, a, b) ==
    (Directed(f7, 2, a, b).flags \cup Directed(f7, 3, a, b).flags) \cup Directed(f7, 0, a, b).flags

\* A dynamic mode is the static one that frm names; a static one does without frm.
LEMMA SettledModes ==
  ASSUME NEW f7, NEW a, NEW b, Settled(f7, a, b)
  PROVE  /\ fp_arith(7, 2, f7, a, b) = {Directed(f7, 2, a, b)}
         /\ fp_arith(7, 3, f7, a, b) = {Directed(f7, 3, a, b)}
         /\ \A frm : fp_arith(0, frm, f7, a, b) = {Directed(f7, 0, a, b)}
<1>1. /\ host_rounding(7, 2) = host_rounding(2, 0)
      /\ host_rounding(7, 3) = host_rounding(3, 0)
      /\ \A frm : host_rounding(0, frm) = host_rounding(0, 0)
  BY DEF host_rounding
<1>2. /\ fp_arith(7, 2, f7, a, b) = fp_arith(2, 0, f7, a, b)
      /\ fp_arith(7, 3, f7, a, b) = fp_arith(3, 0, f7, a, b)
      /\ \A frm : fp_arith(0, frm, f7, a, b) = fp_arith(0, 0, f7, a, b)
  BY <1>1 DEF fp_arith
<1> QED BY <1>2 DEF Settled

\* An operation with one result.
LEMMA BracketRuns ==
  ASSUME CInv, Step, NEW f7 \in Operations, NEW f3 \in Codes3, NEW rd \in 1 .. 31,
         AtWord(enc_r(f7, Second(f7), 1, f3, rd, OP_FP)),
         f7 = 44 => fregs[2] = 0, NEW r,
         fp_arith(f3, csr[CSR_FRM], f7, fregs[1], fregs[2]) = {r}
  PROVE  FpSets(rd, r)
<1> DEFINE r2 == Second(f7)
           w == enc_r(f7, r2, 1, f3, rd, OP_FP)
<1>1. w.f3 = f3 /\ w.f7 = f7 /\ w.rs2 = r2
  BY DEF enc_r
<1>2. f7 \in {0, 4, 8, 12, 44} /\ (f7 = 44 => r2 = 0) /\ (f7 # 44 => r2 = 2)
  BY DEF Operations, Second
<1>3. f7 \in Codes7 /\ 1 \in Registers /\ r2 \in Registers
  BY <1>2 DEF Codes7, Registers
<1>4. AtWord(w)
  OBVIOUS
<1> HIDE DEF w, r2
<1>5. ToFreg(w, csr[CSR_FRM], fregs[1], fregs[r2], regs[1]) = {r}
  <2>1. CASE f7 = 44
    <3>1. fp_arith(f3, csr[CSR_FRM], 44, fregs[1], 0) = {r}
      BY <2>1
    <3>2. ToFreg(w, csr[CSR_FRM], fregs[1], fregs[r2], regs[1])
          = {x \in fp_arith(f3, csr[CSR_FRM], 44, fregs[1], 0) : w.rs2 = 0}
      BY <1>1, <2>1 DEF ToFreg
    <3>3. w.rs2 = 0
      BY <1>1, <1>2, <2>1
    <3> QED BY <3>1, <3>2, <3>3
  <2>2. CASE f7 # 44
    <3>1. r2 = 2 /\ f7 \in {0, 4, 8, 12}
      BY <1>2, <2>2
    <3> QED BY <1>1, <3>1 DEF ToFreg
  <2> QED BY <2>1, <2>2
<1>6. ToReg(w, csr[CSR_FRM], fregs[1], fregs[r2]) = {}
  BY <1>1, <1>2 DEF ToReg, If
<1> QED BY <1>3, <1>4, <1>5, <1>6, OneSets DEF w

\* Its words.
BracketText(c, f7, a, b) ==
    /\ Holds(c, TEXT, Lui(T0, a))
    /\ Holds(c, TEXT + 4, Addi(T0, a))
    /\ Holds(c, TEXT + 8, enc_r(120, 0, T0, 0, 1, OP_FP))
    /\ Holds(c, TEXT + 12, Lui(T0, b))
    /\ Holds(c, TEXT + 16, Addi(T0, b))
    /\ Holds(c, TEXT + 20, enc_r(120, 0, T0, 0, 2, OP_FP))
    /\ Holds(c, TEXT + 24, CsrWord(5, 0, CSR_FFLAGS, 0))
    /\ Holds(c, TEXT + 28, CsrWord(5, 0, CSR_FRM, 2))
    /\ Holds(c, TEXT + 32, enc_r(f7, Second(f7), 1, 7, 3, OP_FP))
    /\ Holds(c, TEXT + 36, CsrWord(5, 0, CSR_FRM, 3))
    /\ Holds(c, TEXT + 40, enc_r(f7, Second(f7), 1, 7, 4, OP_FP))
    /\ Holds(c, TEXT + 44, enc_r(f7, Second(f7), 1, 0, 5, OP_FP))
    /\ Holds(c, TEXT + 48, CsrWord(2, S0, CSR_FFLAGS, 0))
    /\ Holds(c, TEXT + 52, enc_r(112, 0, 3, 0, A0, OP_FP))
    /\ Holds(c, TEXT + 56, enc_r(112, 0, 4, 0, A1, OP_FP))
    /\ Holds(c, TEXT + 60, enc_r(112, 0, 5, 0, A2, OP_FP))
    /\ Holds(c, TEXT + 64, EBREAK)

\* The assembler puts them there.
LEMMA BracketAssembled ==
  ASSUME TEXT \in Nat, NEW f7, NEW a, NEW b
  PROVE  BracketText(assemble(bracket(f7, a, b), TEXT), f7, a, b)
<1> DEFINE items == bracket(f7, a, b)
           c == assemble(items, TEXT)
<1>1. /\ Len(items) = 15
      /\ items[1] = li32(T0, a)
      /\ items[2] = Word(enc_r(120, 0, T0, 0, 1, OP_FP))
      /\ items[3] = li32(T0, b)
      /\ items[4] = Word(enc_r(120, 0, T0, 0, 2, OP_FP))
      /\ items[5] = Word(CsrWord(5, 0, CSR_FFLAGS, 0))
      /\ items[6] = Word(CsrWord(5, 0, CSR_FRM, 2))
      /\ items[7] = Word(enc_r(f7, Second(f7), 1, 7, 3, OP_FP))
      /\ items[8] = Word(CsrWord(5, 0, CSR_FRM, 3))
      /\ items[9] = Word(enc_r(f7, Second(f7), 1, 7, 4, OP_FP))
      /\ items[10] = Word(enc_r(f7, Second(f7), 1, 0, 5, OP_FP))
      /\ items[11] = Word(CsrWord(2, S0, CSR_FFLAGS, 0))
      /\ items[12] = Word(enc_r(112, 0, 3, 0, A0, OP_FP))
      /\ items[13] = Word(enc_r(112, 0, 4, 0, A1, OP_FP))
      /\ items[14] = Word(enc_r(112, 0, 5, 0, A2, OP_FP))
      /\ items[15] = Word(EBREAK)
  <2> DEFINE p0 == <<li32(T0, a),
                  Word(enc_r(120, 0, T0, 0, 1, OP_FP)),
                  li32(T0, b),
                  Word(enc_r(120, 0, T0, 0, 2, OP_FP)),
                  Word(CsrWord(5, 0, CSR_FFLAGS, 0))>>
             q1 == <<Word(CsrWord(5, 0, CSR_FRM, 2))>>
             p1 == p0 \o q1
             q2 == <<Word(enc_r(f7, Second(f7), 1, 7, 3, OP_FP))>>
             p2 == p1 \o q2
             q3 == <<Word(CsrWord(5, 0, CSR_FRM, 3))>>
             p3 == p2 \o q3
             q4 == <<Word(enc_r(f7, Second(f7), 1, 7, 4, OP_FP)),
                  Word(enc_r(f7, Second(f7), 1, 0, 5, OP_FP)),
                  Word(CsrWord(2, S0, CSR_FFLAGS, 0)),
                  Word(enc_r(112, 0, 3, 0, A0, OP_FP)),
                  Word(enc_r(112, 0, 4, 0, A1, OP_FP)),
                  Word(enc_r(112, 0, 5, 0, A2, OP_FP)),
                  Word(EBREAK)>>
             p4 == p3 \o q4
             S0_ == {p0[1], p0[2], p0[3], p0[4], p0[5]}
             S1_ == {q1[1]}
             S2_ == {q2[1]}
             S3_ == {q3[1]}
             S4_ == {q4[1], q4[2], q4[3], q4[4], q4[5], q4[6], q4[7]}
  <2>1. items = p4
    BY DEF bracket, operands, set_frm, Second, fmv_w_x, fmv_x_w, fp, csrrwi, csrr, csrrs, system,
           CsrWord, ebreak, EBREAK, Special
  <2>2. p0 \in Seq(S0_) /\ Len(p0) = 5
    OBVIOUS
  <2>3. /\ p0[1] = li32(T0, a)
        /\ p0[2] = Word(enc_r(120, 0, T0, 0, 1, OP_FP))
        /\ p0[3] = li32(T0, b)
        /\ p0[4] = Word(enc_r(120, 0, T0, 0, 2, OP_FP))
        /\ p0[5] = Word(CsrWord(5, 0, CSR_FFLAGS, 0))
    OBVIOUS
  <2>4. q1 \in Seq(S1_) /\ Len(q1) = 1
    OBVIOUS
  <2>5. /\ q1[1] = Word(CsrWord(5, 0, CSR_FRM, 2))
    OBVIOUS
  <2>6. q2 \in Seq(S2_) /\ Len(q2) = 1
    OBVIOUS
  <2>7. /\ q2[1] = Word(enc_r(f7, Second(f7), 1, 7, 3, OP_FP))
    OBVIOUS
  <2>8. q3 \in Seq(S3_) /\ Len(q3) = 1
    OBVIOUS
  <2>9. /\ q3[1] = Word(CsrWord(5, 0, CSR_FRM, 3))
    OBVIOUS
  <2>10. q4 \in Seq(S4_) /\ Len(q4) = 7
    OBVIOUS
  <2>11. /\ q4[1] = Word(enc_r(f7, Second(f7), 1, 7, 4, OP_FP))
        /\ q4[2] = Word(enc_r(f7, Second(f7), 1, 0, 5, OP_FP))
        /\ q4[3] = Word(CsrWord(2, S0, CSR_FFLAGS, 0))
        /\ q4[4] = Word(enc_r(112, 0, 3, 0, A0, OP_FP))
        /\ q4[5] = Word(enc_r(112, 0, 4, 0, A1, OP_FP))
        /\ q4[6] = Word(enc_r(112, 0, 5, 0, A2, OP_FP))
        /\ q4[7] = Word(EBREAK)
    OBVIOUS
  <2> HIDE DEF p0, S0_, q1, S1_, q2, S2_, q3, S3_, q4, S4_, items
  <2>12. IsJoin(p1, p0, 5, q1, 1)
    BY ONLY <2>2, <2>4, Appended
  <2>m1. p1 \in Seq(S0_ \cup S1_)
    BY ONLY <2>2, <2>4, JoinType
  <2>n1. Len(p1) = 6
    BY <2>12 DEF IsJoin
  <2> HIDE DEF p1
  <2>13. /\ \A i \in 1 .. 5 : p1[i] = p0[i]
        /\ \A i \in 1 .. 1 : p1[5 + i] = q1[i]
    BY <2>12 DEF IsJoin
  <2>14. /\ p1[1] = li32(T0, a)
        /\ p1[2] = Word(enc_r(120, 0, T0, 0, 1, OP_FP))
        /\ p1[3] = li32(T0, b)
        /\ p1[4] = Word(enc_r(120, 0, T0, 0, 2, OP_FP))
        /\ p1[5] = Word(CsrWord(5, 0, CSR_FFLAGS, 0))
        /\ p1[6] = Word(CsrWord(5, 0, CSR_FRM, 2))
    <3>1. /\ 5 + 1 = 6
      OBVIOUS
    <3>2. /\ p1[1] = p0[1]
          /\ p1[2] = p0[2]
          /\ p1[3] = p0[3]
          /\ p1[4] = p0[4]
          /\ p1[5] = p0[5]
          /\ p1[6] = q1[1]
      BY <2>13, <3>1
    <3> QED BY ONLY <3>2, <2>3, <2>5
  <2>15. IsJoin(p2, p1, 6, q2, 1)
    BY ONLY <2>m1, <2>n1, <2>6, Appended
  <2>m2. p2 \in Seq((S0_ \cup S1_) \cup S2_)
    BY ONLY <2>m1, <2>n1, <2>6, JoinType
  <2>n2. Len(p2) = 7
    BY <2>15 DEF IsJoin
  <2> HIDE DEF p2
  <2>16. /\ \A i \in 1 .. 6 : p2[i] = p1[i]
        /\ \A i \in 1 .. 1 : p2[6 + i] = q2[i]
    BY <2>15 DEF IsJoin
  <2>17. /\ p2[1] = li32(T0, a)
        /\ p2[2] = Word(enc_r(120, 0, T0, 0, 1, OP_FP))
        /\ p2[3] = li32(T0, b)
        /\ p2[4] = Word(enc_r(120, 0, T0, 0, 2, OP_FP))
        /\ p2[5] = Word(CsrWord(5, 0, CSR_FFLAGS, 0))
        /\ p2[6] = Word(CsrWord(5, 0, CSR_FRM, 2))
        /\ p2[7] = Word(enc_r(f7, Second(f7), 1, 7, 3, OP_FP))
    <3>1. /\ 6 + 1 = 7
      OBVIOUS
    <3>2. /\ p2[1] = p1[1]
          /\ p2[2] = p1[2]
          /\ p2[3] = p1[3]
          /\ p2[4] = p1[4]
          /\ p2[5] = p1[5]
          /\ p2[6] = p1[6]
          /\ p2[7] = q2[1]
      BY <2>16, <3>1
    <3> QED BY ONLY <3>2, <2>14, <2>7
  <2>18. IsJoin(p3, p2, 7, q3, 1)
    BY ONLY <2>m2, <2>n2, <2>8, Appended
  <2>m3. p3 \in Seq(((S0_ \cup S1_) \cup S2_) \cup S3_)
    BY ONLY <2>m2, <2>n2, <2>8, JoinType
  <2>n3. Len(p3) = 8
    BY <2>18 DEF IsJoin
  <2> HIDE DEF p3
  <2>19. /\ \A i \in 1 .. 7 : p3[i] = p2[i]
        /\ \A i \in 1 .. 1 : p3[7 + i] = q3[i]
    BY <2>18 DEF IsJoin
  <2>20. /\ p3[1] = li32(T0, a)
        /\ p3[2] = Word(enc_r(120, 0, T0, 0, 1, OP_FP))
        /\ p3[3] = li32(T0, b)
        /\ p3[4] = Word(enc_r(120, 0, T0, 0, 2, OP_FP))
        /\ p3[5] = Word(CsrWord(5, 0, CSR_FFLAGS, 0))
        /\ p3[6] = Word(CsrWord(5, 0, CSR_FRM, 2))
        /\ p3[7] = Word(enc_r(f7, Second(f7), 1, 7, 3, OP_FP))
        /\ p3[8] = Word(CsrWord(5, 0, CSR_FRM, 3))
    <3>1. /\ 7 + 1 = 8
      OBVIOUS
    <3>2. /\ p3[1] = p2[1]
          /\ p3[2] = p2[2]
          /\ p3[3] = p2[3]
          /\ p3[4] = p2[4]
          /\ p3[5] = p2[5]
          /\ p3[6] = p2[6]
          /\ p3[7] = p2[7]
          /\ p3[8] = q3[1]
      BY <2>19, <3>1
    <3> QED BY ONLY <3>2, <2>17, <2>9
  <2>21. IsJoin(p4, p3, 8, q4, 7)
    BY ONLY <2>m3, <2>n3, <2>10, Appended
  <2>n4. Len(p4) = 15
    BY <2>21 DEF IsJoin
  <2> HIDE DEF p4
  <2>22. /\ \A i \in 1 .. 8 : p4[i] = p3[i]
        /\ \A i \in 1 .. 7 : p4[8 + i] = q4[i]
    BY <2>21 DEF IsJoin
  <2>23. /\ p4[1] = li32(T0, a)
        /\ p4[2] = Word(enc_r(120, 0, T0, 0, 1, OP_FP))
        /\ p4[3] = li32(T0, b)
        /\ p4[4] = Word(enc_r(120, 0, T0, 0, 2, OP_FP))
        /\ p4[5] = Word(CsrWord(5, 0, CSR_FFLAGS, 0))
        /\ p4[6] = Word(CsrWord(5, 0, CSR_FRM, 2))
        /\ p4[7] = Word(enc_r(f7, Second(f7), 1, 7, 3, OP_FP))
        /\ p4[8] = Word(CsrWord(5, 0, CSR_FRM, 3))
        /\ p4[9] = Word(enc_r(f7, Second(f7), 1, 7, 4, OP_FP))
        /\ p4[10] = Word(enc_r(f7, Second(f7), 1, 0, 5, OP_FP))
        /\ p4[11] = Word(CsrWord(2, S0, CSR_FFLAGS, 0))
        /\ p4[12] = Word(enc_r(112, 0, 3, 0, A0, OP_FP))
        /\ p4[13] = Word(enc_r(112, 0, 4, 0, A1, OP_FP))
        /\ p4[14] = Word(enc_r(112, 0, 5, 0, A2, OP_FP))
        /\ p4[15] = Word(EBREAK)
    <3>1. /\ 8 + 1 = 9 /\ 8 + 2 = 10 /\ 8 + 3 = 11 /\ 8 + 4 = 12 /\ 8 + 5 = 13 /\ 8 + 6 = 14
          /\ 8 + 7 = 15
      OBVIOUS
    <3>2. /\ p4[1] = p3[1]
          /\ p4[2] = p3[2]
          /\ p4[3] = p3[3]
          /\ p4[4] = p3[4]
          /\ p4[5] = p3[5]
          /\ p4[6] = p3[6]
          /\ p4[7] = p3[7]
          /\ p4[8] = p3[8]
          /\ p4[9] = q4[1]
          /\ p4[10] = q4[2]
          /\ p4[11] = q4[3]
          /\ p4[12] = q4[4]
          /\ p4[13] = q4[5]
          /\ p4[14] = q4[6]
          /\ p4[15] = q4[7]
      BY <2>22, <3>1
    <3> QED BY ONLY <3>2, <2>20, <2>11
  <2> QED BY ONLY <2>1, <2>n4, <2>23
<1> HIDE DEF items
<1>2. /\ Holds(c, TEXT, Lui(T0, a)) /\ Holds(c, TEXT + 4, Addi(T0, a))
      /\ ItemAt(items, TEXT, 2, 8)
  <2>1. items[1] = li32(T0, a) /\ Len(items) \in Nat /\ Len(items) >= 1 /\ TEXT \in Int
    BY <1>1
  <2> QED BY ONLY <2>1, FirstConstant
<1>3. Holds(c, TEXT + 8, enc_r(120, 0, T0, 0, 1, OP_FP)) /\ ItemAt(items, TEXT, 3, 12)
  <2>1. items[2] = Word(enc_r(120, 0, T0, 0, 1, OP_FP)) /\ 2 <= Len(items) /\ TEXT \in Int
    BY <1>1
  <2> QED BY ONLY <1>2, <2>1, NextWord
<1>4. /\ Holds(c, TEXT + 12, Lui(T0, b)) /\ Holds(c, TEXT + 16, Addi(T0, b))
      /\ ItemAt(items, TEXT, 4, 20)
  <2>1. items[3] = li32(T0, b) /\ 3 <= Len(items) /\ TEXT \in Int
    BY <1>1
  <2> QED BY ONLY <1>3, <2>1, NextConstant
<1>5. Holds(c, TEXT + 20, enc_r(120, 0, T0, 0, 2, OP_FP)) /\ ItemAt(items, TEXT, 5, 24)
  <2>1. items[4] = Word(enc_r(120, 0, T0, 0, 2, OP_FP)) /\ 4 <= Len(items) /\ TEXT \in Int
    BY <1>1
  <2> QED BY ONLY <1>4, <2>1, NextWord
<1>6. Holds(c, TEXT + 24, CsrWord(5, 0, CSR_FFLAGS, 0)) /\ ItemAt(items, TEXT, 6, 28)
  <2>1. items[5] = Word(CsrWord(5, 0, CSR_FFLAGS, 0)) /\ 5 <= Len(items) /\ TEXT \in Int
    BY <1>1
  <2> QED BY ONLY <1>5, <2>1, NextWord
<1>7. Holds(c, TEXT + 28, CsrWord(5, 0, CSR_FRM, 2)) /\ ItemAt(items, TEXT, 7, 32)
  <2>1. items[6] = Word(CsrWord(5, 0, CSR_FRM, 2)) /\ 6 <= Len(items) /\ TEXT \in Int
    BY <1>1
  <2> QED BY ONLY <1>6, <2>1, NextWord
<1>8. Holds(c, TEXT + 32, enc_r(f7, Second(f7), 1, 7, 3, OP_FP)) /\ ItemAt(items, TEXT, 8, 36)
  <2>1. items[7] = Word(enc_r(f7, Second(f7), 1, 7, 3, OP_FP)) /\ 7 <= Len(items) /\ TEXT \in Int
    BY <1>1
  <2> QED BY ONLY <1>7, <2>1, NextWord
<1>9. Holds(c, TEXT + 36, CsrWord(5, 0, CSR_FRM, 3)) /\ ItemAt(items, TEXT, 9, 40)
  <2>1. items[8] = Word(CsrWord(5, 0, CSR_FRM, 3)) /\ 8 <= Len(items) /\ TEXT \in Int
    BY <1>1
  <2> QED BY ONLY <1>8, <2>1, NextWord
<1>10. Holds(c, TEXT + 40, enc_r(f7, Second(f7), 1, 7, 4, OP_FP)) /\ ItemAt(items, TEXT, 10, 44)
  <2>1. items[9] = Word(enc_r(f7, Second(f7), 1, 7, 4, OP_FP)) /\ 9 <= Len(items) /\ TEXT \in Int
    BY <1>1
  <2> QED BY ONLY <1>9, <2>1, NextWord
<1>11. Holds(c, TEXT + 44, enc_r(f7, Second(f7), 1, 0, 5, OP_FP)) /\ ItemAt(items, TEXT, 11, 48)
  <2>1. items[10] = Word(enc_r(f7, Second(f7), 1, 0, 5, OP_FP)) /\ 10 <= Len(items) /\ TEXT \in Int
    BY <1>1
  <2> QED BY ONLY <1>10, <2>1, NextWord
<1>12. Holds(c, TEXT + 48, CsrWord(2, S0, CSR_FFLAGS, 0)) /\ ItemAt(items, TEXT, 12, 52)
  <2>1. items[11] = Word(CsrWord(2, S0, CSR_FFLAGS, 0)) /\ 11 <= Len(items) /\ TEXT \in Int
    BY <1>1
  <2> QED BY ONLY <1>11, <2>1, NextWord
<1>13. Holds(c, TEXT + 52, enc_r(112, 0, 3, 0, A0, OP_FP)) /\ ItemAt(items, TEXT, 13, 56)
  <2>1. items[12] = Word(enc_r(112, 0, 3, 0, A0, OP_FP)) /\ 12 <= Len(items) /\ TEXT \in Int
    BY <1>1
  <2> QED BY ONLY <1>12, <2>1, NextWord
<1>14. Holds(c, TEXT + 56, enc_r(112, 0, 4, 0, A1, OP_FP)) /\ ItemAt(items, TEXT, 14, 60)
  <2>1. items[13] = Word(enc_r(112, 0, 4, 0, A1, OP_FP)) /\ 13 <= Len(items) /\ TEXT \in Int
    BY <1>1
  <2> QED BY ONLY <1>13, <2>1, NextWord
<1>15. Holds(c, TEXT + 60, enc_r(112, 0, 5, 0, A2, OP_FP)) /\ ItemAt(items, TEXT, 15, 64)
  <2>1. items[14] = Word(enc_r(112, 0, 5, 0, A2, OP_FP)) /\ 14 <= Len(items) /\ TEXT \in Int
    BY <1>1
  <2> QED BY ONLY <1>14, <2>1, NextWord
<1>16. Holds(c, TEXT + 64, EBREAK) /\ ItemAt(items, TEXT, 16, 68)
  <2>1. items[15] = Word(EBREAK) /\ 15 <= Len(items) /\ TEXT \in Int
    BY <1>1
  <2> QED BY ONLY <1>15, <2>1, NextWord
<1> QED BY <1>2, <1>3, <1>4, <1>5, <1>6, <1>7, <1>8, <1>9, <1>10, <1>11, <1>12, <1>13, <1>14, <1>15,
           <1>16 DEF BracketText, items

\* What the registers hold, step by step.
BracketFacts(f7, a, b) ==
    /\ OnLine(17)
    /\ mtime = 1 => regs[T0] = Wrap(Immediate(Lui(T0, a)))
    /\ mtime \in 2 .. 3 => regs[T0] = a
    /\ mtime = 4 => regs[T0] = Wrap(Immediate(Lui(T0, b)))
    /\ mtime >= 5 => regs[T0] = b
    /\ mtime >= 3 => fregs[1] = a
    /\ mtime >= 6 => fregs[2] = b
    /\ mtime \in 7 .. 8 => fflags = {}
    /\ mtime \in 9 .. 10 => fflags = Directed(f7, 2, a, b).flags
    /\ mtime = 11 => fflags = (Directed(f7, 2, a, b).flags \cup Directed(f7, 3, a, b).flags)
    /\ mtime = 12 => fflags = Together(f7, a, b)
    /\ mtime = 8 => csr[CSR_FRM] = 2
    /\ mtime = 10 => csr[CSR_FRM] = 3
    /\ mtime >= 9 => fregs[3] = Directed(f7, 2, a, b).bits
    /\ mtime >= 11 => fregs[4] = Directed(f7, 3, a, b).bits
    /\ mtime >= 12 => fregs[5] = Directed(f7, 0, a, b).bits
    /\ mtime >= 13 => regs[S0] = Number(Together(f7, a, b))
    /\ mtime >= 14 => regs[A0] = Directed(f7, 2, a, b).bits
    /\ mtime >= 15 => regs[A1] = Directed(f7, 3, a, b).bits
    /\ mtime >= 16 => regs[A2] = Directed(f7, 0, a, b).bits

\* Every step of the program leaves them so.
LEMMA BracketStep ==
  ASSUME CInv, Step, XLEN <= 32, TextFits(17), 
         NEW f7 \in Operations, NEW a \in Words, NEW b \in Words, f7 = 44 => b = 0,
         Settled(f7, a, b),
         BracketText(boot.code, f7, a, b), BracketFacts(f7, a, b)
  PROVE  BracketFacts(f7, a, b)'
<1>1. /\ state = "RUNNING" /\ mtime \in 0 .. 16 /\ pc = TEXT + 4 * mtime
      /\ TEXT \in Nat /\ TEXT % 2 = 0 /\ MemSize \in Nat /\ TEXT + 68 <= MemSize
      /\ regs \in [Registers -> Words] /\ regs[0] = 0 /\ fregs \in [Registers -> Words]
      /\ fflags \subseteq Flags
  BY MemoryAssumption DEF Step, Going, BracketFacts, OnLine, CInv, CTypeOK, TextFits
<1>2. ASSUME Advances, mtime < 16 PROVE mtime' = mtime + 1 /\ OnLine(17)'
  BY <1>1, <1>2 DEF Advances, OnLine
<1>3. CASE mtime = 0
  <2>1. AtWord(Lui(T0, a))
    BY <1>1, <1>3 DEF BracketText, AtWord
  <2>3. T0 \in 1 .. 31 /\ a \in Words
    BY WordSizes, Named
  <2>4. Writes(T0, Wrap(Immediate(Lui(T0, a))))
    BY <2>1, <2>3, LuiRuns
  <2>5. /\ mtime' = 1
        /\ OnLine(17)'
        /\ regs' = [regs EXCEPT ![T0] = Wrap(Immediate(Lui(T0, a)))]
        /\ fregs' = fregs
        /\ fflags' = fflags
    BY <1>2, <1>3, <2>4 DEF Writes, FpSets, FpWrites, Result
  <2>6. /\ regs'[T0] = Wrap(Immediate(Lui(T0, a))) /\ regs'[S0] = regs[S0] /\ regs'[A0] = regs[A0]
        /\ regs'[A1] = regs[A1] /\ regs'[A2] = regs[A2]
    BY <1>1, <2>5, Named DEF Registers
  <2>7. /\ fregs'[1] = fregs[1] /\ fregs'[2] = fregs[2] /\ fregs'[3] = fregs[3]
        /\ fregs'[4] = fregs[4] /\ fregs'[5] = fregs[5]
    BY <2>5
  <2> QED BY <1>3, <2>5, <2>6, <2>7 DEF BracketFacts
<1>4. CASE mtime = 1
  <2>1. AtWord(Addi(T0, a))
    BY <1>1, <1>4 DEF BracketText, AtWord
  <2>2. regs[T0] = Wrap(Immediate(Lui(T0, a)))
    BY <1>4 DEF BracketFacts
  <2>3. T0 \in 1 .. 31 /\ a \in Words
    BY WordSizes, Named
  <2>4. Writes(T0, a)
    BY <2>1, <2>2, <2>3, AddiRuns
  <2>5. /\ mtime' = 2
        /\ OnLine(17)'
        /\ regs' = [regs EXCEPT ![T0] = a]
        /\ fregs' = fregs
        /\ fflags' = fflags
    BY <1>2, <1>4, <2>4 DEF Writes, FpSets, FpWrites, Result
  <2>6. /\ regs'[T0] = a /\ regs'[S0] = regs[S0] /\ regs'[A0] = regs[A0]
        /\ regs'[A1] = regs[A1] /\ regs'[A2] = regs[A2]
    BY <1>1, <2>5, Named DEF Registers
  <2>7. /\ fregs'[1] = fregs[1] /\ fregs'[2] = fregs[2] /\ fregs'[3] = fregs[3]
        /\ fregs'[4] = fregs[4] /\ fregs'[5] = fregs[5]
    BY <2>5
  <2> QED BY <1>4, <2>5, <2>6, <2>7 DEF BracketFacts
<1>5. CASE mtime = 2
  <2>1. AtWord(enc_r(120, 0, T0, 0, 1, OP_FP))
    BY <1>1, <1>5 DEF BracketText, AtWord
  <2>2. regs[T0] = a
    BY <1>5 DEF BracketFacts
  <2>3. FpSets(1, Result(regs[T0], {}))
    BY <2>1, MoveInRuns, InRange
  <2>4. FpSets(1, Result(a, {}))
    BY <2>2, <2>3
  <2>5. /\ mtime' = 3
        /\ OnLine(17)'
        /\ regs' = regs
        /\ fregs' = [fregs EXCEPT ![1] = a]
    BY <1>2, <1>5, <2>4 DEF Writes, FpSets, FpWrites, Result
  <2>6. /\ regs'[T0] = regs[T0] /\ regs'[S0] = regs[S0] /\ regs'[A0] = regs[A0]
        /\ regs'[A1] = regs[A1] /\ regs'[A2] = regs[A2]
    BY <2>5
  <2>7. /\ fregs'[1] = a /\ fregs'[2] = fregs[2] /\ fregs'[3] = fregs[3]
        /\ fregs'[4] = fregs[4] /\ fregs'[5] = fregs[5]
    BY <1>1, <2>5 DEF Registers
  <2> QED BY <1>5, <2>5, <2>6, <2>7 DEF BracketFacts
<1>6. CASE mtime = 3
  <2>1. AtWord(Lui(T0, b))
    BY <1>1, <1>6 DEF BracketText, AtWord
  <2>3. T0 \in 1 .. 31 /\ b \in Words
    BY WordSizes, Named
  <2>4. Writes(T0, Wrap(Immediate(Lui(T0, b))))
    BY <2>1, <2>3, LuiRuns
  <2>5. /\ mtime' = 4
        /\ OnLine(17)'
        /\ regs' = [regs EXCEPT ![T0] = Wrap(Immediate(Lui(T0, b)))]
        /\ fregs' = fregs
        /\ fflags' = fflags
    BY <1>2, <1>6, <2>4 DEF Writes, FpSets, FpWrites, Result
  <2>6. /\ regs'[T0] = Wrap(Immediate(Lui(T0, b))) /\ regs'[S0] = regs[S0] /\ regs'[A0] = regs[A0]
        /\ regs'[A1] = regs[A1] /\ regs'[A2] = regs[A2]
    BY <1>1, <2>5, Named DEF Registers
  <2>7. /\ fregs'[1] = fregs[1] /\ fregs'[2] = fregs[2] /\ fregs'[3] = fregs[3]
        /\ fregs'[4] = fregs[4] /\ fregs'[5] = fregs[5]
    BY <2>5
  <2> QED BY <1>6, <2>5, <2>6, <2>7 DEF BracketFacts
<1>7. CASE mtime = 4
  <2>1. AtWord(Addi(T0, b))
    BY <1>1, <1>7 DEF BracketText, AtWord
  <2>2. regs[T0] = Wrap(Immediate(Lui(T0, b)))
    BY <1>7 DEF BracketFacts
  <2>3. T0 \in 1 .. 31 /\ b \in Words
    BY WordSizes, Named
  <2>4. Writes(T0, b)
    BY <2>1, <2>2, <2>3, AddiRuns
  <2>5. /\ mtime' = 5
        /\ OnLine(17)'
        /\ regs' = [regs EXCEPT ![T0] = b]
        /\ fregs' = fregs
        /\ fflags' = fflags
    BY <1>2, <1>7, <2>4 DEF Writes, FpSets, FpWrites, Result
  <2>6. /\ regs'[T0] = b /\ regs'[S0] = regs[S0] /\ regs'[A0] = regs[A0]
        /\ regs'[A1] = regs[A1] /\ regs'[A2] = regs[A2]
    BY <1>1, <2>5, Named DEF Registers
  <2>7. /\ fregs'[1] = fregs[1] /\ fregs'[2] = fregs[2] /\ fregs'[3] = fregs[3]
        /\ fregs'[4] = fregs[4] /\ fregs'[5] = fregs[5]
    BY <2>5
  <2> QED BY <1>7, <2>5, <2>6, <2>7 DEF BracketFacts
<1>8. CASE mtime = 5
  <2>1. AtWord(enc_r(120, 0, T0, 0, 2, OP_FP))
    BY <1>1, <1>8 DEF BracketText, AtWord
  <2>2. regs[T0] = b
    BY <1>8 DEF BracketFacts
  <2>3. FpSets(2, Result(regs[T0], {}))
    BY <2>1, MoveInRuns, InRange
  <2>4. FpSets(2, Result(b, {}))
    BY <2>2, <2>3
  <2>5. /\ mtime' = 6
        /\ OnLine(17)'
        /\ regs' = regs
        /\ fregs' = [fregs EXCEPT ![2] = b]
    BY <1>2, <1>8, <2>4 DEF Writes, FpSets, FpWrites, Result
  <2>6. /\ regs'[T0] = regs[T0] /\ regs'[S0] = regs[S0] /\ regs'[A0] = regs[A0]
        /\ regs'[A1] = regs[A1] /\ regs'[A2] = regs[A2]
    BY <2>5
  <2>7. /\ fregs'[1] = fregs[1] /\ fregs'[2] = b /\ fregs'[3] = fregs[3]
        /\ fregs'[4] = fregs[4] /\ fregs'[5] = fregs[5]
    BY <1>1, <2>5 DEF Registers
  <2> QED BY <1>8, <2>5, <2>6, <2>7 DEF BracketFacts
<1>9. CASE mtime = 6
  <2>1. AtWord(CsrWord(5, 0, CSR_FFLAGS, 0))
    BY <1>1, <1>9 DEF BracketText, AtWord
  <2>3. 0 \in Registers
    BY DEF Registers
  <2>4. Advances /\ fflags' = {} /\ regs' = regs /\ fregs' = fregs
    BY <2>1, <2>3, FlagsSet, NoBits
  <2>5. /\ mtime' = 7
        /\ OnLine(17)'
        /\ regs' = regs
        /\ fregs' = fregs
        /\ fflags' = {}
    BY <1>2, <1>9, <2>4 DEF Writes, FpSets, FpWrites, Result
  <2>6. /\ regs'[T0] = regs[T0] /\ regs'[S0] = regs[S0] /\ regs'[A0] = regs[A0]
        /\ regs'[A1] = regs[A1] /\ regs'[A2] = regs[A2]
    BY <2>5
  <2>7. /\ fregs'[1] = fregs[1] /\ fregs'[2] = fregs[2] /\ fregs'[3] = fregs[3]
        /\ fregs'[4] = fregs[4] /\ fregs'[5] = fregs[5]
    BY <2>5
  <2> QED BY <1>9, <2>5, <2>6, <2>7 DEF BracketFacts
<1>10. CASE mtime = 7
  <2>1. AtWord(CsrWord(5, 0, CSR_FRM, 2))
    BY <1>1, <1>10 DEF BracketText, AtWord
  <2>3. 2 \in 0 .. 7
    OBVIOUS
  <2>4. /\ Advances /\ csr'[CSR_FRM] = 2 /\ fflags' = fflags /\ regs' = regs
        /\ fregs' = fregs
    BY <2>1, <2>3, ModeSet
  <2>5. /\ mtime' = 8
        /\ OnLine(17)'
        /\ regs' = regs
        /\ fregs' = fregs
        /\ fflags' = fflags
    BY <1>2, <1>10, <2>4 DEF Writes, FpSets, FpWrites, Result
  <2>6. /\ regs'[T0] = regs[T0] /\ regs'[S0] = regs[S0] /\ regs'[A0] = regs[A0]
        /\ regs'[A1] = regs[A1] /\ regs'[A2] = regs[A2]
    BY <2>5
  <2>7. /\ fregs'[1] = fregs[1] /\ fregs'[2] = fregs[2] /\ fregs'[3] = fregs[3]
        /\ fregs'[4] = fregs[4] /\ fregs'[5] = fregs[5]
    BY <2>5
  <2> QED BY <1>10, <2>4, <2>5, <2>6, <2>7 DEF BracketFacts
<1>11. CASE mtime = 8
  <2>1. AtWord(enc_r(f7, Second(f7), 1, 7, 3, OP_FP))
    BY <1>1, <1>11 DEF BracketText, AtWord
  <2>2. fregs[1] = a /\ fregs[2] = b /\ fflags = {} /\ csr[CSR_FRM] = 2
    BY <1>11 DEF BracketFacts
  <2>r. 7 \in Codes3 /\ 3 \in 1 .. 31
    BY DEF Codes3
  <2>s. fp_arith(7, csr[CSR_FRM], f7, a, b) = {Directed(f7, 2, a, b)}
    BY <2>2, SettledModes
  <2>3. FpSets(3, Directed(f7, 2, a, b))
    BY <2>1, <2>2, <2>r, <2>s, BracketRuns
  <2>4. /\ Advances /\ regs' = regs /\ fregs' = [fregs EXCEPT ![3] = Directed(f7, 2, a, b).bits]
        /\ fflags' = Directed(f7, 2, a, b).flags
    BY <2>2, <2>3 DEF FpSets
  <2>5. /\ mtime' = 9
        /\ OnLine(17)'
        /\ regs' = regs
        /\ fregs' = [fregs EXCEPT ![3] = Directed(f7, 2, a, b).bits]
        /\ fflags' = Directed(f7, 2, a, b).flags
    BY <1>2, <1>11, <2>4 DEF Writes, FpSets, FpWrites, Result
  <2>6. /\ regs'[T0] = regs[T0] /\ regs'[S0] = regs[S0] /\ regs'[A0] = regs[A0]
        /\ regs'[A1] = regs[A1] /\ regs'[A2] = regs[A2]
    BY <2>5
  <2>7. /\ fregs'[1] = fregs[1] /\ fregs'[2] = fregs[2] /\ fregs'[3] = Directed(f7, 2, a, b).bits
        /\ fregs'[4] = fregs[4] /\ fregs'[5] = fregs[5]
    BY <1>1, <2>5 DEF Registers
  <2> QED BY <1>11, <2>5, <2>6, <2>7 DEF BracketFacts
<1>12. CASE mtime = 9
  <2>1. AtWord(CsrWord(5, 0, CSR_FRM, 3))
    BY <1>1, <1>12 DEF BracketText, AtWord
  <2>3. 3 \in 0 .. 7
    OBVIOUS
  <2>4. /\ Advances /\ csr'[CSR_FRM] = 3 /\ fflags' = fflags /\ regs' = regs
        /\ fregs' = fregs
    BY <2>1, <2>3, ModeSet
  <2>5. /\ mtime' = 10
        /\ OnLine(17)'
        /\ regs' = regs
        /\ fregs' = fregs
        /\ fflags' = fflags
    BY <1>2, <1>12, <2>4 DEF Writes, FpSets, FpWrites, Result
  <2>6. /\ regs'[T0] = regs[T0] /\ regs'[S0] = regs[S0] /\ regs'[A0] = regs[A0]
        /\ regs'[A1] = regs[A1] /\ regs'[A2] = regs[A2]
    BY <2>5
  <2>7. /\ fregs'[1] = fregs[1] /\ fregs'[2] = fregs[2] /\ fregs'[3] = fregs[3]
        /\ fregs'[4] = fregs[4] /\ fregs'[5] = fregs[5]
    BY <2>5
  <2> QED BY <1>12, <2>4, <2>5, <2>6, <2>7 DEF BracketFacts
<1>13. CASE mtime = 10
  <2>1. AtWord(enc_r(f7, Second(f7), 1, 7, 4, OP_FP))
    BY <1>1, <1>13 DEF BracketText, AtWord
  <2>2. fregs[1] = a /\ fregs[2] = b /\ fflags = Directed(f7, 2, a, b).flags /\ csr[CSR_FRM] = 3
    BY <1>13 DEF BracketFacts
  <2>r. 7 \in Codes3 /\ 4 \in 1 .. 31
    BY DEF Codes3
  <2>s. fp_arith(7, csr[CSR_FRM], f7, a, b) = {Directed(f7, 3, a, b)}
    BY <2>2, SettledModes
  <2>3. FpSets(4, Directed(f7, 3, a, b))
    BY <2>1, <2>2, <2>r, <2>s, BracketRuns
  <2>4. /\ Advances /\ regs' = regs /\ fregs' = [fregs EXCEPT ![4] = Directed(f7, 3, a, b).bits]
        /\ fflags' = (Directed(f7, 2, a, b).flags \cup Directed(f7, 3, a, b).flags)
    BY <2>2, <2>3 DEF FpSets
  <2>5. /\ mtime' = 11
        /\ OnLine(17)'
        /\ regs' = regs
        /\ fregs' = [fregs EXCEPT ![4] = Directed(f7, 3, a, b).bits]
        /\ fflags' = (Directed(f7, 2, a, b).flags \cup Directed(f7, 3, a, b).flags)
    BY <1>2, <1>13, <2>4 DEF Writes, FpSets, FpWrites, Result
  <2>6. /\ regs'[T0] = regs[T0] /\ regs'[S0] = regs[S0] /\ regs'[A0] = regs[A0]
        /\ regs'[A1] = regs[A1] /\ regs'[A2] = regs[A2]
    BY <2>5
  <2>7. /\ fregs'[1] = fregs[1] /\ fregs'[2] = fregs[2] /\ fregs'[3] = fregs[3]
        /\ fregs'[4] = Directed(f7, 3, a, b).bits /\ fregs'[5] = fregs[5]
    BY <1>1, <2>5 DEF Registers
  <2> QED BY <1>13, <2>5, <2>6, <2>7 DEF BracketFacts
<1>14. CASE mtime = 11
  <2>1. AtWord(enc_r(f7, Second(f7), 1, 0, 5, OP_FP))
    BY <1>1, <1>14 DEF BracketText, AtWord
  <2>2. fregs[1] = a /\ fregs[2] = b
        /\ fflags = (Directed(f7, 2, a, b).flags \cup Directed(f7, 3, a, b).flags)
    BY <1>14 DEF BracketFacts
  <2>r. 0 \in Codes3 /\ 5 \in 1 .. 31
    BY DEF Codes3
  <2>s. fp_arith(0, csr[CSR_FRM], f7, a, b) = {Directed(f7, 0, a, b)}
    BY <2>2, SettledModes
  <2>3. FpSets(5, Directed(f7, 0, a, b))
    BY <2>1, <2>2, <2>r, <2>s, BracketRuns
  <2>4. /\ Advances /\ regs' = regs /\ fregs' = [fregs EXCEPT ![5] = Directed(f7, 0, a, b).bits]
        /\ fflags' = Together(f7, a, b)
    BY <2>2, <2>3 DEF FpSets, Together
  <2>5. /\ mtime' = 12
        /\ OnLine(17)'
        /\ regs' = regs
        /\ fregs' = [fregs EXCEPT ![5] = Directed(f7, 0, a, b).bits]
        /\ fflags' = Together(f7, a, b)
    BY <1>2, <1>14, <2>4 DEF Writes, FpSets, FpWrites, Result
  <2>6. /\ regs'[T0] = regs[T0] /\ regs'[S0] = regs[S0] /\ regs'[A0] = regs[A0]
        /\ regs'[A1] = regs[A1] /\ regs'[A2] = regs[A2]
    BY <2>5
  <2>7. /\ fregs'[1] = fregs[1] /\ fregs'[2] = fregs[2] /\ fregs'[3] = fregs[3]
        /\ fregs'[4] = fregs[4] /\ fregs'[5] = Directed(f7, 0, a, b).bits
    BY <1>1, <2>5 DEF Registers
  <2> QED BY <1>14, <2>5, <2>6, <2>7 DEF BracketFacts
<1>15. CASE mtime = 12
  <2>1. AtWord(CsrWord(2, S0, CSR_FFLAGS, 0))
    BY <1>1, <1>15 DEF BracketText, AtWord
  <2>2. fflags = Together(f7, a, b)
    BY <1>15 DEF BracketFacts
  <2>3. Advances /\ regs' = [regs EXCEPT ![S0] = Number(fflags)] /\ fregs' = fregs
    BY <2>1, FlagsRead, InRange
  <2>4. Advances /\ regs' = [regs EXCEPT ![S0] = Number(Together(f7, a, b))] /\ fregs' = fregs
    BY <2>2, <2>3
  <2>5. /\ mtime' = 13
        /\ OnLine(17)'
        /\ regs' = [regs EXCEPT ![S0] = Number(Together(f7, a, b))]
        /\ fregs' = fregs
    BY <1>2, <1>15, <2>4 DEF Writes, FpSets, FpWrites, Result
  <2>6. /\ regs'[T0] = regs[T0] /\ regs'[S0] = Number(Together(f7, a, b)) /\ regs'[A0] = regs[A0]
        /\ regs'[A1] = regs[A1] /\ regs'[A2] = regs[A2]
    BY <1>1, <2>5, Named DEF Registers
  <2>7. /\ fregs'[1] = fregs[1] /\ fregs'[2] = fregs[2] /\ fregs'[3] = fregs[3]
        /\ fregs'[4] = fregs[4] /\ fregs'[5] = fregs[5]
    BY <2>5
  <2> QED BY <1>15, <2>5, <2>6, <2>7 DEF BracketFacts
<1>16. CASE mtime = 13
  <2>1. AtWord(enc_r(112, 0, 3, 0, A0, OP_FP))
    BY <1>1, <1>16 DEF BracketText, AtWord
  <2>2. fregs[3] = Directed(f7, 2, a, b).bits
    BY <1>16 DEF BracketFacts
  <2>3. FpWrites(A0, Result(fregs[3], {}))
    BY <2>1, MoveOutRuns, InRange DEF Registers
  <2>4. FpWrites(A0, Result(Directed(f7, 2, a, b).bits, {}))
    BY <2>2, <2>3
  <2>5. /\ mtime' = 14
        /\ OnLine(17)'
        /\ regs' = [regs EXCEPT ![A0] = Directed(f7, 2, a, b).bits]
        /\ fregs' = fregs
    BY <1>2, <1>16, <2>4 DEF Writes, FpSets, FpWrites, Result
  <2>6. /\ regs'[T0] = regs[T0] /\ regs'[S0] = regs[S0] /\ regs'[A0] = Directed(f7, 2, a, b).bits
        /\ regs'[A1] = regs[A1] /\ regs'[A2] = regs[A2]
    BY <1>1, <2>5, Named DEF Registers
  <2>7. /\ fregs'[1] = fregs[1] /\ fregs'[2] = fregs[2] /\ fregs'[3] = fregs[3]
        /\ fregs'[4] = fregs[4] /\ fregs'[5] = fregs[5]
    BY <2>5
  <2> QED BY <1>16, <2>5, <2>6, <2>7 DEF BracketFacts
<1>17. CASE mtime = 14
  <2>1. AtWord(enc_r(112, 0, 4, 0, A1, OP_FP))
    BY <1>1, <1>17 DEF BracketText, AtWord
  <2>2. fregs[4] = Directed(f7, 3, a, b).bits
    BY <1>17 DEF BracketFacts
  <2>3. FpWrites(A1, Result(fregs[4], {}))
    BY <2>1, MoveOutRuns, InRange DEF Registers
  <2>4. FpWrites(A1, Result(Directed(f7, 3, a, b).bits, {}))
    BY <2>2, <2>3
  <2>5. /\ mtime' = 15
        /\ OnLine(17)'
        /\ regs' = [regs EXCEPT ![A1] = Directed(f7, 3, a, b).bits]
        /\ fregs' = fregs
    BY <1>2, <1>17, <2>4 DEF Writes, FpSets, FpWrites, Result
  <2>6. /\ regs'[T0] = regs[T0] /\ regs'[S0] = regs[S0] /\ regs'[A0] = regs[A0]
        /\ regs'[A1] = Directed(f7, 3, a, b).bits /\ regs'[A2] = regs[A2]
    BY <1>1, <2>5, Named DEF Registers
  <2>7. /\ fregs'[1] = fregs[1] /\ fregs'[2] = fregs[2] /\ fregs'[3] = fregs[3]
        /\ fregs'[4] = fregs[4] /\ fregs'[5] = fregs[5]
    BY <2>5
  <2> QED BY <1>17, <2>5, <2>6, <2>7 DEF BracketFacts
<1>18. CASE mtime = 15
  <2>1. AtWord(enc_r(112, 0, 5, 0, A2, OP_FP))
    BY <1>1, <1>18 DEF BracketText, AtWord
  <2>2. fregs[5] = Directed(f7, 0, a, b).bits
    BY <1>18 DEF BracketFacts
  <2>3. FpWrites(A2, Result(fregs[5], {}))
    BY <2>1, MoveOutRuns, InRange DEF Registers
  <2>4. FpWrites(A2, Result(Directed(f7, 0, a, b).bits, {}))
    BY <2>2, <2>3
  <2>5. /\ mtime' = 16
        /\ OnLine(17)'
        /\ regs' = [regs EXCEPT ![A2] = Directed(f7, 0, a, b).bits]
        /\ fregs' = fregs
    BY <1>2, <1>18, <2>4 DEF Writes, FpSets, FpWrites, Result
  <2>6. /\ regs'[T0] = regs[T0] /\ regs'[S0] = regs[S0] /\ regs'[A0] = regs[A0]
        /\ regs'[A1] = regs[A1] /\ regs'[A2] = Directed(f7, 0, a, b).bits
    BY <1>1, <2>5, Named DEF Registers
  <2>7. /\ fregs'[1] = fregs[1] /\ fregs'[2] = fregs[2] /\ fregs'[3] = fregs[3]
        /\ fregs'[4] = fregs[4] /\ fregs'[5] = fregs[5]
    BY <2>5
  <2> QED BY <1>18, <2>5, <2>6, <2>7 DEF BracketFacts
<1>19. CASE mtime = 16
  <2>1. AtWord(EBREAK)
    BY <1>1, <1>19 DEF BracketText, AtWord
  <2>5. /\ mtime' = mtime + 1 /\ state' = "HALTED" /\ regs' = regs /\ fregs' = fregs
        /\ fflags' = fflags
    BY <2>1, EbreakRuns
  <2>6. OnLine(17)' /\ mtime' = 17
    BY <1>19, <2>5 DEF OnLine
  <2> QED BY <1>19, <2>5, <2>6 DEF BracketFacts
<1> QED BY <1>1, <1>3, <1>4, <1>5, <1>6, <1>7, <1>8, <1>9, <1>10, <1>11, <1>12, <1>13, <1>14, <1>15,
           <1>16, <1>17, <1>18, <1>19

\* What the program is started with, and what IEEE 754 asks of the host for it: one
\* answer for each mode, or NaNs; the directed answers are neighbours if one of the
\* roundings is inexact and equal otherwise, and the nearest one is one of them.
Taken(vs, f7, a, b) ==
    /\ f7 \in Operations /\ a \in vs
    /\ IF f7 = 44 THEN b = 0 /\ sign(a) = 0 ELSE b \in vs

Alike(r, s) ==
    /\ r.flags = s.flags
    /\ r.bits # s.bits => bits_is_nan(r.bits) /\ bits_is_nan(s.bits)

Around(x, y, z) ==
    LET inexact == FP_NX \in x.flags \cup y.flags \cup z.flags IN
    IF bits_is_nan(x.bits)
    THEN bits_is_nan(y.bits) /\ bits_is_nan(z.bits) /\ ~inexact
    ELSE /\ ~bits_is_nan(y.bits) /\ ~bits_is_nan(z.bits)
         /\ Order(y.bits) - Order(x.bits) = Truth(inexact)
         /\ Order(z.bits) \in {Order(x.bits), Order(y.bits)}

HostBrackets(vs) ==
    \A f7 \in Operations, a \in vs, b \in vs \cup {0} : Taken(vs, f7, a, b) =>
        /\ \A mode \in HostModes :
              /\ HostArith(f7, mode, a, b) # {}
              /\ \A r, s \in HostArith(f7, mode, a, b) : Alike(r, s)
        /\ \A x \in HostArith(f7, "DOWNWARD", a, b), y \in HostArith(f7, "UPWARD", a, b),
              z \in HostArith(f7, "TONEAREST", a, b) : Around(x, y, z)

\* Then the unit has one result for each mode, and they lie as the program says.
LEMMA HostSettles ==
  ASSUME HostTyped, NEW vs \in SUBSET Words, HostBrackets(vs), NEW f7, NEW a, NEW b,
         Taken(vs, f7, a, b)
  PROVE  /\ Settled(f7, a, b)
         /\ Together(f7, a, b) \subseteq Flags
         /\ Order(Directed(f7, 3, a, b).bits) - Order(Directed(f7, 2, a, b).bits)
              = Truth(FP_NX \in Together(f7, a, b))
         /\ Order(Directed(f7, 0, a, b).bits)
              \in {Order(Directed(f7, 2, a, b).bits), Order(Directed(f7, 3, a, b).bits)}
<1> DEFINE Canonical(r) == Result(IF bits_is_nan(r.bits) THEN FP_CANON_NAN ELSE r.bits, r.flags)
<1>1. /\ f7 \in Operations /\ a \in Words /\ b \in Words
  <2>1. f7 = 44 => b = 0
    BY DEF Taken
  <2>2. 0 \in Words
    BY WordSizes
  <2> QED BY <2>1, <2>2 DEF Taken
<1>t. b \in vs \cup {0} /\ a \in vs
  BY DEF Taken
<1>2. /\ host_rounding(2, 0) = "DOWNWARD" /\ host_rounding(3, 0) = "UPWARD"
      /\ host_rounding(0, 0) = "TONEAREST"
  BY DEF host_rounding
<1>3. ASSUME NEW rm \in {0, 2, 3}, NEW mode \in HostModes, host_rounding(rm, 0) = mode
      PROVE  \E r \in HostArith(f7, mode, a, b) :
                /\ fp_arith(rm, 0, f7, a, b) = {Canonical(r)}
                /\ Directed(f7, rm, a, b) = Canonical(r)
  <2> DEFINE H == HostArith(f7, mode, a, b)
  <2>1. H # {} /\ \A r, s \in H : Alike(r, s)
    BY <1>1, <1>t DEF HostBrackets
  <2>2. PICK r \in H : TRUE
    BY <2>1
  <2>3. ASSUME NEW s \in H PROVE Canonical(s) = Canonical(r)
    <3>1. /\ s.flags = r.flags
          /\ s.bits # r.bits => bits_is_nan(s.bits) /\ bits_is_nan(r.bits)
      BY <2>1, <2>2, <2>3 DEF Alike
    <3> QED BY <3>1
  <2>4. fp_arith(rm, 0, f7, a, b) = {Canonical(s) : s \in H}
    BY <1>3 DEF fp_arith
  <2> HIDE DEF Canonical, H
  <2>5. {Canonical(s) : s \in H} = {Canonical(r)}
    BY <2>2, <2>3
  <2>6. Directed(f7, rm, a, b) = Canonical(r)
    BY <2>4, <2>5 DEF Directed
  <2> QED BY <2>2, <2>4, <2>5, <2>6 DEF H
<1>4. "DOWNWARD" \in HostModes /\ "UPWARD" \in HostModes /\ "TONEAREST" \in HostModes
  BY DEF HostModes
<1>5. PICK x \in HostArith(f7, "DOWNWARD", a, b) :
        /\ fp_arith(2, 0, f7, a, b) = {Canonical(x)} /\ Directed(f7, 2, a, b) = Canonical(x)
  <2>1. 2 \in {0, 2, 3}
    OBVIOUS
  <2> QED BY ONLY <1>2, <1>3, <1>4, <2>1
<1>6. PICK y \in HostArith(f7, "UPWARD", a, b) :
        /\ fp_arith(3, 0, f7, a, b) = {Canonical(y)} /\ Directed(f7, 3, a, b) = Canonical(y)
  <2>1. 3 \in {0, 2, 3}
    OBVIOUS
  <2> QED BY ONLY <1>2, <1>3, <1>4, <2>1
<1>7. PICK z \in HostArith(f7, "TONEAREST", a, b) :
        /\ fp_arith(0, 0, f7, a, b) = {Canonical(z)} /\ Directed(f7, 0, a, b) = Canonical(z)
  <2>1. 0 \in {0, 2, 3}
    OBVIOUS
  <2> QED BY ONLY <1>2, <1>3, <1>4, <2>1
<1>8. Around(x, y, z)
  BY <1>1, <1>t, <1>5, <1>6, <1>7 DEF HostBrackets
<1>9. Settled(f7, a, b)
  BY <1>5, <1>6, <1>7 DEF Settled
<1>10. x.flags \subseteq Flags /\ y.flags \subseteq Flags /\ z.flags \subseteq Flags
  BY <1>1, <1>4, <1>5, <1>6, <1>7 DEF HostTyped
<1>11. Together(f7, a, b) = x.flags \cup y.flags \cup z.flags
  BY <1>5, <1>6, <1>7 DEF Together, Result
<1>12. \A r : Canonical(r).bits = (IF bits_is_nan(r.bits) THEN FP_CANON_NAN ELSE r.bits)
  BY DEF Result
<1> HIDE DEF Canonical
<1> DEFINE P(r) == IF bits_is_nan(r.bits) THEN FP_CANON_NAN ELSE r.bits
<1>13. /\ Order(P(y)) - Order(P(x)) = Truth(FP_NX \in x.flags \cup y.flags \cup z.flags)
       /\ Order(P(z)) \in {Order(P(x)), Order(P(y))}
  <2>1. CASE bits_is_nan(x.bits)
    <3>1. P(x) = FP_CANON_NAN /\ P(y) = FP_CANON_NAN /\ P(z) = FP_CANON_NAN
      BY <1>8, <2>1 DEF Around
    <3>2. ~(FP_NX \in x.flags \cup y.flags \cup z.flags)
      BY <1>8, <2>1 DEF Around
    <3>3. Order(FP_CANON_NAN) \in Int
      BY NaNType, OrderIs
    <3> HIDE DEF P
    <3> QED BY <3>1, <3>2, <3>3 DEF Truth
  <2>2. CASE ~bits_is_nan(x.bits)
    <3>1. P(x) = x.bits /\ P(y) = y.bits /\ P(z) = z.bits
      BY <1>8, <2>2 DEF Around
    <3> HIDE DEF P
    <3> QED BY <1>8, <2>2, <3>1 DEF Around
  <2> QED BY <2>1, <2>2
<1>14. /\ Directed(f7, 2, a, b).bits = P(x) /\ Directed(f7, 3, a, b).bits = P(y)
       /\ Directed(f7, 0, a, b).bits = P(z)
  BY <1>5, <1>6, <1>7, <1>12
<1> HIDE DEF P
<1> QED BY <1>9, <1>10, <1>11, <1>13, <1>14

\* The inexact flag is the lowest bit of the number of the flags.
LEMMA InexactBit ==
  ASSUME NEW s \in SUBSET Flags
  PROVE  Number(s) % 2 = Truth(FP_NX \in s)
<1>1. /\ Pow2[FlagBit[FP_NX]] = 1 /\ Pow2[FlagBit[FP_UF]] = 2 /\ Pow2[FlagBit[FP_OF]] = 4
      /\ Pow2[FlagBit[FP_DZ]] = 8 /\ Pow2[FlagBit[FP_NV]] = 16
  BY SmallPowers DEF FlagBit, FP_NX, FP_UF, FP_OF, FP_DZ, FP_NV
<1> QED BY <1>1 DEF Number, Truth

\* When the program of directed rounding is booted, it runs as above.
BracketInv(vs) ==
    boot.name = "bracket" =>
        \E f7 \in Operations, a \in Words, b \in Words :
            /\ Taken(vs, f7, a, b) /\ boot.args = <<f7, a, b>>
            /\ BracketText(boot.code, f7, a, b) /\ BracketFacts(f7, a, b)

\* It is so at the start.
LEMMA BracketInit ==
  ASSUME TextFits(17), Init, NEW vs \in SUBSET Words,
         \A b \in Boots : b.name = "bracket" => b \in Brackets(vs)
  PROVE  BracketInv(vs)
<1> SUFFICES ASSUME boot.name = "bracket"
             PROVE  \E f7 \in Operations, a \in Words, b \in Words :
                      /\ Taken(vs, f7, a, b) /\ boot.args = <<f7, a, b>>
                      /\ BracketText(boot.code, f7, a, b) /\ BracketFacts(f7, a, b)
  BY DEF BracketInv
<1>1. boot \in Brackets(vs)
  BY DEF Init
<1>2. PICK f7 \in Operations, a \in Words, b \in Words :
        Taken(vs, f7, a, b) /\ boot = Booted("bracket", <<f7, a, b>>, bracket(f7, a, b), 60)
  <2> DEFINE B(o, x, y) == Booted("bracket", <<o, x, y>>, bracket(o, x, y), 60)
             twos == {0, 4, 8, 12}
             squares == {v \in vs : sign(v) = 0}
  <2>1. boot \in {B(f7, a, b) : f7 \in twos, a \in vs, b \in vs} \cup {B(44, a, 0) : a \in squares}
    BY ONLY <1>1 DEF Brackets, B, twos, squares
  <2> HIDE DEF B, twos, squares
  <2>2. CASE boot \in {B(f7, a, b) : f7 \in twos, a \in vs, b \in vs}
    <3>1. PICK f7 \in twos, a \in vs, b \in vs : boot = B(f7, a, b)
      BY <2>2
    <3>2. f7 \in Operations /\ f7 # 44 /\ a \in Words /\ b \in Words
      BY DEF Operations, twos
    <3> QED BY <3>1, <3>2 DEF Taken, B
  <2>3. CASE boot \in {B(44, a, 0) : a \in squares}
    <3>1. PICK a \in squares : boot = B(44, a, 0)
      BY <2>3
    <3>2. 44 \in Operations /\ a \in vs /\ a \in Words /\ sign(a) = 0 /\ 0 \in Words
      BY WordSizes DEF Operations, squares
    <3> QED BY <3>1, <3>2 DEF Taken, B
  <2> QED BY ONLY <2>1, <2>2, <2>3
<1>3. boot.args = <<f7, a, b>> /\ boot.code = assemble(bracket(f7, a, b), TEXT)
      /\ boot.entry = TEXT /\ boot.mtime = 0
  BY <1>2 DEF Booted
<1>4. BracketText(boot.code, f7, a, b)
  BY <1>3, BracketAssembled DEF TextFits
<1>5. mtime = 0 /\ state = "RUNNING" /\ pc = TEXT
  BY <1>3 DEF Init
<1>6. BracketFacts(f7, a, b)
  BY <1>5 DEF BracketFacts, OnLine, TextFits
<1> QED BY <1>2, <1>3, <1>4, <1>6

\* Every step keeps that.
LEMMA BracketKept ==
  ASSUME HostTyped, XLEN <= 32, TextFits(17), NEW vs \in SUBSET Words, HostBrackets(vs), CInv,
         BracketInv(vs), [Next]_vars
  PROVE  BracketInv(vs)'
<1>1. CASE UNCHANGED vars
  <2>1. UNCHANGED <<boot, mtime, state, pc, regs, fregs, fflags, csr>>
    BY <1>1 DEF vars
  <2>2. SUFFICES ASSUME boot.name = "bracket"
                 PROVE  \E f7 \in Operations, a \in Words, b \in Words :
                          /\ Taken(vs, f7, a, b) /\ boot.args = <<f7, a, b>>
                          /\ BracketText(boot.code, f7, a, b) /\ BracketFacts(f7, a, b)'
    BY <2>1 DEF BracketInv
  <2>3. PICK f7 \in Operations, a \in Words, b \in Words :
          /\ Taken(vs, f7, a, b) /\ boot.args = <<f7, a, b>>
          /\ BracketText(boot.code, f7, a, b) /\ BracketFacts(f7, a, b)
    BY <2>2 DEF BracketInv
  <2>4. BracketFacts(f7, a, b)'
    BY <2>1, <2>3 DEF BracketFacts, OnLine
  <2> QED BY <2>3, <2>4
<1>2. CASE Step
  <2>1. boot' = boot
    BY <1>2 DEF Step
  <2>2. SUFFICES ASSUME boot.name = "bracket"
                 PROVE  \E f7 \in Operations, a \in Words, b \in Words :
                          /\ Taken(vs, f7, a, b) /\ boot.args = <<f7, a, b>>
                          /\ BracketText(boot.code, f7, a, b) /\ BracketFacts(f7, a, b)'
    BY <2>1 DEF BracketInv
  <2>3. PICK f7 \in Operations, a \in Words, b \in Words :
          /\ Taken(vs, f7, a, b) /\ boot.args = <<f7, a, b>>
          /\ BracketText(boot.code, f7, a, b) /\ BracketFacts(f7, a, b)
    BY <2>2 DEF BracketInv
  <2>4. Settled(f7, a, b) /\ (f7 = 44 => b = 0)
    BY <2>3, HostSettles DEF Taken
  <2>5. BracketFacts(f7, a, b)'
    BY <1>2, <2>3, <2>4, BracketStep
  <2> QED BY <2>3, <2>5
<1> QED BY <1>1, <1>2 DEF Next, Returned

\* The promise at the end.
LEMMA BracketEnds ==
  ASSUME CInv, HostTyped, NEW vs \in SUBSET Words, HostBrackets(vs), BracketInv(vs)
  PROVE  DirectedBracket
<1> SUFFICES ASSUME Ended("bracket") PROVE DirectedBracket
  BY DEF DirectedBracket
<1>1. PICK f7 \in Operations, a \in Words, b \in Words :
        Taken(vs, f7, a, b) /\ BracketFacts(f7, a, b)
  BY DEF Ended, BracketInv
<1>2. mtime = 17
  BY <1>1 DEF Ended, BracketFacts, OnLine
<1> DEFINE low == Directed(f7, 2, a, b).bits
           high == Directed(f7, 3, a, b).bits
           near == Directed(f7, 0, a, b).bits
           raised == Together(f7, a, b)
<1>3. /\ regs[A0] = low /\ regs[A1] = high /\ regs[A2] = near /\ regs[S0] = Number(raised)
  BY <1>1, <1>2 DEF BracketFacts
<1>4. /\ raised \in SUBSET Flags
      /\ Order(high) - Order(low) = Truth(FP_NX \in raised)
      /\ Order(near) \in {Order(low), Order(high)}
  BY <1>1, HostSettles
<1> HIDE DEF low, high, near, raised
<1>5. Number(raised) % 2 = Truth(FP_NX \in raised)
  BY <1>4, InexactBit
<1> QED BY <1>3, <1>4, <1>5 DEF DirectedBracket

\* For all operands for which the host rounds as IEEE 754 asks, the operations follow
\* frm as it stands when they run, and a static mode overrides it, so that the results
\* lie around the exact one as promised (fpu.c, csr.c), whatever else is booted.
THEOREM DirectedIsBracketed ==
  ASSUME HostTyped, XLEN <= 32, TextFits(17), NEW vs \in SUBSET Words, HostBrackets(vs),
         \A b \in Boots : b.name = "bracket" => b \in Brackets(vs)
  PROVE  Spec => []DirectedBracket
<1> DEFINE Inv == CInv /\ BracketInv(vs)
<1>1. Init => Inv
  BY InitType, BracketInit
<1>2. Inv /\ [Next]_vars => Inv'
  BY StepType, BracketKept
<1>3. Inv => DirectedBracket
  BY BracketEnds
<1> QED BY <1>1, <1>2, <1>3, PTL DEF Spec
=============================================================================
