-------------------------------- MODULE Core --------------------------------
(***************************************************************************)
(* The bare machine: emu_run, emu_step and execute (src/emu.c, src/execute.c) *)
(* on the values of registers and memory, for software that installs no trap  *)
(* handler and stays in M.  mtvec and stvec are 0 then, so every exception     *)
(* ends the run, no interrupt is taken and addresses are not translated; what  *)
(* happens with handlers is Hart's subject, paging is Sv32's, atomics are      *)
(* Reservation's.                                                           *)
(*                                                                         *)
(* A run boots a program: boot.code is its text, half word by half word.      *)
(* Text and data lie apart; no program writes its own text.  A byte has       *)
(* XLEN / 4 bits, so that a word is four bytes at every XLEN.                 *)
(***************************************************************************)
EXTENDS Encoding, Fpu, Sequences

CONSTANTS
    Boots,                  \* what may be booted, see IsBoot
    MemSize,                \* MEM_SIZE
    MaxWrite,               \* longest output of one write call, 8192
    CSR_MMIO_UART, CLINT_MTIME_LO, CLINT_MTIMECMP_LO

IsBoot(b) ==
    /\ DOMAIN b.code \subseteq Words /\ \A a \in DOMAIN b.code : b.code[a] \in Parcels
    /\ b.entry \in 1 .. Size - 1
    /\ b.mtime \in Nat          \* ticks that passed before, with the timer off
    /\ b.max_steps \in Nat      \* --steps, 0 for no bound

ASSUME BootAssumption == \A b \in Boots : IsBoot(b)
ASSUME MemoryAssumption ==
    /\ MemSize \in 1 .. Size - 1
    /\ MaxWrite \in Nat
    /\ {CSR_MMIO_UART, CLINT_MTIME_LO, CLINT_MTIMECMP_LO} \subseteq MemSize .. Size - 1

Registers == 0 .. 31

VARIABLES
    boot,       \* the program that was loaded
    regs,       \* x0 .. x31
    fregs,      \* f0 .. f31, as bit patterns
    fflags,     \* the set of accrued exceptions
    csr,        \* frm and the other registers that only hold data, by address
    pc, state, exit_code,
    mem,        \* the bytes written so far; all others are 0
    mtime, mtimecmp,
    mcycle,
    out         \* what was printed

vars == <<boot, regs, fregs, fflags, csr, pc, state, exit_code, mem, mtime, mtimecmp, mcycle, out>>

-----------------------------------------------------------------------------
\* Control and status registers.

CSR_FFLAGS == 1
CSR_FRM    == 2
CSR_FCSR   == 3
CSR_SIP    == 324
CSR_MIP    == 836
MIP_MTIP   == 128
CSR_SEPC   == 321
CSR_MEPC   == 833
CSR_MCYCLE == 2816

\* sie, sscratch, scause, stval, mie, mscratch, mcause, mtval.
PlainCsrs == {260, 320, 322, 323, 772, 832, 834, 835}
HeldCsrs  == PlainCsrs \cup {CSR_FRM, CSR_SIP, CSR_MIP, CSR_SEPC, CSR_MEPC}
Csrs      == HeldCsrs \cup {CSR_FFLAGS, CSR_FCSR, CSR_MCYCLE}

FlagBit  == [NX |-> 0, UF |-> 1, OF |-> 2, DZ |-> 3, NV |-> 4]
Bits(n)  == {f \in Flags : (n \div Pow2[FlagBit[f]]) % 2 = 1}
Number(s) == LET bit(f) == IF f \in s THEN Pow2[FlagBit[f]] ELSE 0 IN
             bit(FP_NX) + bit(FP_UF) + bit(FP_OF) + bit(FP_DZ) + bit(FP_NV)

\* Mutant: MTIP is latched, a later deadline does not withdraw it.
PolledLatched ==
    [csr EXCEPT ![CSR_MIP] =
        IF mtimecmp # 0 /\ mtime + 1 >= mtimecmp THEN MIP_MTIP ELSE @]

\* mtime++, and MTIP by level; the other bits of mip are never set.
Polled ==
    [csr EXCEPT ![CSR_MIP] =
        IF mtimecmp # 0 /\ mtime + 1 >= mtimecmp THEN MIP_MTIP ELSE 0]

csr_read(a) ==
    IF a = CSR_FFLAGS THEN Number(fflags)
    ELSE IF a = CSR_FCSR THEN 32 * Polled[CSR_FRM] + Number(fflags)
    ELSE IF a = CSR_MCYCLE THEN Wrap(mcycle)
    ELSE Polled[a]

\* Where a write leaves the registers: the flags and the rest.
FlagsWritten(a, val) == IF a \in {CSR_FFLAGS, CSR_FCSR} THEN Bits(val) ELSE fflags

\* Mutant: fcsr takes frm from its low bits.
HeldWrittenLow(a, val) ==
    IF a \in {CSR_FFLAGS, CSR_MCYCLE} THEN Polled
    ELSE IF a \in {CSR_FRM, CSR_FCSR} THEN [Polled EXCEPT ![CSR_FRM] = val % 8]
    ELSE IF a \in {CSR_SIP, CSR_MIP} THEN [Polled EXCEPT ![a] = BitAnd(@, val)]
    ELSE IF a \in {CSR_SEPC, CSR_MEPC} THEN [Polled EXCEPT ![a] = val - (val % 4)]
    ELSE [Polled EXCEPT ![a] = val]

HeldWritten(a, val) ==
    IF a \in {CSR_FFLAGS, CSR_MCYCLE} THEN Polled
    ELSE IF a = CSR_FRM THEN [Polled EXCEPT ![a] = val % 8]
    ELSE IF a = CSR_FCSR THEN [Polled EXCEPT ![CSR_FRM] = (val \div 32) % 8]
    ELSE IF a \in {CSR_SIP, CSR_MIP} THEN [Polled EXCEPT ![a] = BitAnd(@, val)]
    ELSE IF a \in {CSR_SEPC, CSR_MEPC} THEN [Polled EXCEPT ![a] = val - (val % 4)]
    ELSE [Polled EXCEPT ![a] = val]

-----------------------------------------------------------------------------
\* Memory.

ByteSize == Pow2[XLEN \div 4]

\* Mutant: the first byte decides, and one too many is let through.
InMemoryByStart(a, n) == a <= MemSize
InMemory(a, n) == a + n <= MemSize

\* The bounds check fails.  It adds in u32, so the last n - 1 addresses of the address
\* space pass it; C defines nothing for the access then, and the machine no step.
OutOfMemory(a, n) == IF n = 1 THEN a >= MemSize ELSE Wrap(a + n) > MemSize

Byte(a) == IF a \in DOMAIN mem THEN mem[a] ELSE 0

\* n bytes from a, little endian.
Value(a, n) ==
    Byte(a) + (IF n = 1 THEN 0 ELSE ByteSize * Byte(a + 1))
    + (IF n = 4 THEN Pow2[XLEN \div 2] * (Byte(a + 2) + ByteSize * Byte(a + 3)) ELSE 0)

\* Mutant: the halves of a word are stored in the wrong order.
StoredBigEndian(a, n, val) ==
    [x \in DOMAIN mem \cup (a .. a + n - 1) |->
        IF x \in a .. a + n - 1
        THEN (val \div Pow2[(XLEN \div 4) * (a + n - 1 - x)]) % ByteSize ELSE mem[x]]

\* The bytes once val is stored in n of them.
Stored(a, n, val) ==
    [x \in DOMAIN mem \cup (a .. a + n - 1) |->
        IF x \in a .. a + n - 1
        THEN (val \div Pow2[(XLEN \div 4) * (x - a)]) % ByteSize ELSE mem[x]]

\* sext8, sext16: v from n bytes to a word.
SignExtended(v, n) == LET limit == Pow2[(XLEN \div 4) * n] IN
                      IF 2 * v >= limit THEN v + Size - limit ELSE v

-----------------------------------------------------------------------------
\* Boot: emu_init, emu_load_elf.

Init ==
    /\ boot \in Boots
    /\ regs = [r \in Registers |-> 0]
    /\ fregs = [r \in Registers |-> 0]
    /\ fflags = {}
    /\ csr = [a \in HeldCsrs |-> 0]
    /\ pc = boot.entry
    /\ state = "RUNNING"
    /\ exit_code = 0
    /\ mem = [a \in {} |-> 0]
    /\ mtime = boot.mtime
    /\ mtimecmp = 0
    /\ mcycle = 0
    /\ out = <<>>

-----------------------------------------------------------------------------
\* Fetch and decode.

Parcel(a) == IF a \in DOMAIN boot.code THEN boot.code[a] ELSE 0

\* Mutant: a compressed instruction keeps the length decode gave it.
InstructionFour ==
    IF pc % 2 = 1 \/ ~InMemory(pc, 2) THEN {}
    ELSE IF Parcel(pc) % 4 # 3 THEN UNION {decode(w, 4) : w \in expand_compressed(Parcel(pc))}
    ELSE IF ~InMemory(pc, 4) THEN {}
    ELSE decode(Joined(Parcel(pc), Parcel(pc + 2)), 4)

\* The instruction at pc; {} for a failed fetch and for what nobody decodes.
Instruction ==
    IF pc % 2 = 1 \/ ~InMemory(pc, 2) THEN {}
    ELSE IF Parcel(pc) % 4 # 3 THEN UNION {decode(w, 2) : w \in expand_compressed(Parcel(pc))}
    ELSE IF ~InMemory(pc, 4) THEN {}
    ELSE decode(Joined(Parcel(pc), Parcel(pc + 2)), 4)

Following(i) == Wrap(pc + i.len)

\* Mutant: x0 is a register like the others.
reg_write_any(r, v) == [regs EXCEPT ![r] = v]
reg_write(r, v) == IF r = 0 THEN regs ELSE [regs EXCEPT ![r] = v]

rs1_val(i) == regs[i.raw.rs1]
rs2_val(i) == regs[i.raw.rs2]
Target(i)  == Wrap(rs1_val(i) + i.imm)      \* addr of a load, store or jalr

\* The instruction completes and control goes to next.
Retire(next) == pc' = next /\ UNCHANGED <<state, exit_code>>

-----------------------------------------------------------------------------
\* Computation and control transfer.

Computed(i) ==
    LET w == i.raw IN
    IF w.op = OP_LUI THEN Wrap(i.imm)
    ELSE IF w.op = OP_AUIPC THEN Wrap(pc + i.imm)
    ELSE IF w.op = OP_ALUI THEN op_alui(w.f7, w.f3, rs1_val(i), i.imm)
    ELSE op_alu(w.f7, w.f3, rs1_val(i), rs2_val(i))

Compute(i) ==
    /\ i.raw.op \in {OP_LUI, OP_AUIPC, OP_ALUI, OP_ALU}
    /\ regs' = reg_write(i.raw.rd, Computed(i))
    /\ Retire(Following(i))
    /\ csr' = Polled
    /\ UNCHANGED <<fregs, fflags, mem, mtimecmp, out>>

Branch(i) ==
    /\ i.raw.op = OP_BRANCH /\ i.raw.f3 \in BranchKinds
    /\ Retire(IF taken(i.raw.f3, rs1_val(i), rs2_val(i)) THEN Wrap(pc + i.imm) ELSE Following(i))
    /\ csr' = Polled
    /\ UNCHANGED <<regs, fregs, fflags, mem, mtimecmp, out>>

Jump(i) ==
    /\ i.raw.op \in {OP_JAL, OP_JALR}
    /\ regs' = reg_write(i.raw.rd, Following(i))
    /\ Retire(IF i.raw.op = OP_JAL THEN Wrap(pc + i.imm) ELSE Target(i) - (Target(i) % 2))
    /\ csr' = Polled
    /\ UNCHANGED <<fregs, fflags, mem, mtimecmp, out>>

-----------------------------------------------------------------------------
\* Loads and stores.  funct3 modulo 4 tells the width, funct3 >= 4 the unsigned load.

Width(i) == <<1, 2, 4, 8>>[(i.raw.f3 % 4) + 1]

Aligned(i) == Target(i) % Width(i) = 0

ReadsMtime(i) == i.raw.f3 = 2 /\ Target(i) = CLINT_MTIME_LO
LoadedInt(i)  == LET v == Value(Target(i), Width(i)) IN
                 IF i.raw.f3 < 4 THEN SignExtended(v, Width(i)) ELSE v

Load(i) ==
    /\ i.raw.op = OP_LOAD /\ i.raw.f3 \in {0, 1, 2, 4, 5} /\ Aligned(i)
    /\ IF ReadsMtime(i) THEN regs' = reg_write(i.raw.rd, Wrap(mtime + 1))
       ELSE /\ InMemory(Target(i), Width(i))
            /\ regs' = reg_write(i.raw.rd, LoadedInt(i))
    /\ Retire(Following(i))
    /\ csr' = Polled
    /\ UNCHANGED <<fregs, fflags, mem, mtimecmp, out>>

ArmsTimer(i) == i.raw.f3 = 2 /\ Target(i) = CLINT_MTIMECMP_LO
Prints(i)    == i.raw.f3 = 0 /\ Target(i) = CSR_MMIO_UART

\* The low word of mtimecmp is replaced; nothing ever writes the high one.
Deadline(val) == mtimecmp - Wrap(mtimecmp) + val

Store(i) ==
    /\ i.raw.op = OP_STORE /\ i.raw.f3 \in 0 .. 2 /\ Aligned(i)
    /\ \/ /\ ArmsTimer(i)
          /\ mtimecmp' = Deadline(rs2_val(i))
          /\ UNCHANGED <<mem, out>>
       \/ /\ Prints(i)
          /\ out' = Append(out, rs2_val(i) % ByteSize)
          /\ UNCHANGED <<mem, mtimecmp>>
       \/ /\ InMemory(Target(i), Width(i))
          /\ mem' = Stored(Target(i), Width(i), rs2_val(i))
          /\ UNCHANGED <<mtimecmp, out>>
    /\ Retire(Following(i))
    /\ csr' = Polled
    /\ UNCHANGED <<regs, fregs, fflags>>

FpLoad(i) ==
    /\ i.raw.op = OP_LOAD_FP /\ i.raw.f3 = 2 /\ Aligned(i) /\ InMemory(Target(i), 4)
    /\ fregs' = [fregs EXCEPT ![i.raw.rd] = Value(Target(i), 4)]
    /\ Retire(Following(i))
    /\ csr' = Polled
    /\ UNCHANGED <<regs, fflags, mem, mtimecmp, out>>

FpStore(i) ==
    /\ i.raw.op = OP_STORE_FP /\ i.raw.f3 = 2 /\ Aligned(i) /\ InMemory(Target(i), 4)
    /\ mem' = Stored(Target(i), 4, fregs[i.raw.rs2])
    /\ Retire(Following(i))
    /\ csr' = Polled
    /\ UNCHANGED <<regs, fregs, fflags, mtimecmp, out>>

\* Neither the CLINT nor the UART answers flw and fsw.
AccessRefused(i) ==
    \/ /\ i.raw.op = OP_LOAD
       /\ \/ i.raw.f3 \in {3, 6, 7} \/ ~Aligned(i)
          \/ ~ReadsMtime(i) /\ OutOfMemory(Target(i), Width(i))
    \/ /\ i.raw.op = OP_STORE
       /\ \/ i.raw.f3 \notin 0 .. 2 \/ ~Aligned(i)
          \/ ~ArmsTimer(i) /\ ~Prints(i) /\ OutOfMemory(Target(i), Width(i))
    \/ /\ i.raw.op \in {OP_LOAD_FP, OP_STORE_FP}
       /\ i.raw.f3 # 2 \/ ~Aligned(i) \/ OutOfMemory(Target(i), 4)

-----------------------------------------------------------------------------
\* Floating point.

FregResults(i) == ToFreg(i.raw, csr[CSR_FRM], fregs[i.raw.rs1], fregs[i.raw.rs2], rs1_val(i))
RegResults(i)  == ToReg(i.raw, csr[CSR_FRM], fregs[i.raw.rs1], fregs[i.raw.rs2])

\* Mutant: the flags of the last operation replace the accrued ones.
AccruedLast(r) == r.flags
Accrued(r) == fflags \cup r.flags

FpOp(i) ==
    /\ i.raw.op = OP_FP
    /\ \/ \E r \in FregResults(i) :
             /\ fregs' = [fregs EXCEPT ![i.raw.rd] = r.bits]
             /\ fflags' = Accrued(r)
             /\ UNCHANGED regs
       \/ \E r \in RegResults(i) :
             /\ regs' = reg_write(i.raw.rd, r.bits)
             /\ fflags' = Accrued(r)
             /\ UNCHANGED fregs
    /\ Retire(Following(i))
    /\ csr' = Polled
    /\ UNCHANGED <<mem, mtimecmp, out>>

-----------------------------------------------------------------------------
\* System instructions.

Special(imm) == enc_i(imm, 0, 0, 0, OP_SYSTEM)
ECALL  == Special(0)
EBREAK == Special(1)
MRET   == Special(770)
SRET   == Special(258)
IsSfence(w) == w.f7 = 9 /\ w.f3 = 0 /\ w.rd = 0 /\ w.op = OP_SYSTEM

\* Mutant: the length is what was asked for, whatever memory there is.
WritableAsked(a, len) == IF len > MaxWrite THEN MaxWrite ELSE len

\* The bytes write(a0, a1, a2) gets out: it stops at the first that is not in memory.
Writable(a, len) ==
    LET n == IF len > MaxWrite THEN MaxWrite ELSE len IN
    IF a >= MemSize THEN 0 ELSE IF a + n > MemSize THEN MemSize - a ELSE n

\* The host services, by a7.  An unknown one stops the machine after the step.
Exit(i) ==
    /\ i.raw = ECALL /\ regs[17] \in {0, 93}
    /\ state' = "HALTED" /\ exit_code' = regs[10]
    /\ UNCHANGED <<regs, out>>

Write(i) ==
    /\ i.raw = ECALL /\ regs[17] = 64
    /\ LET n == Writable(regs[11], regs[12]) IN
       /\ out' = out \o [k \in 1 .. n |-> Byte(regs[11] + k - 1)]
       /\ regs' = reg_write(10, n)
    /\ UNCHANGED <<state, exit_code>>

UnknownService(i) ==
    /\ i.raw = ECALL /\ regs[17] \notin {0, 64, 93}
    /\ state' = "EXCEPTION"
    /\ UNCHANGED <<regs, out, exit_code>>

Ebreak(i) ==
    /\ i.raw = EBREAK
    /\ state' = "HALTED" /\ exit_code' = 0
    /\ UNCHANGED <<regs, out>>

Sfence(i) == IsSfence(i.raw) /\ UNCHANGED <<regs, out, state, exit_code>>

System(i) ==
    /\ Exit(i) \/ Write(i) \/ UnknownService(i) \/ Ebreak(i) \/ Sfence(i)
    /\ pc' = Following(i)
    /\ csr' = Polled
    /\ UNCHANGED <<fregs, fflags, mem, mtimecmp>>

\* csrrw, csrrs, csrrc and their immediate forms, whose operand is the field rs1.
Operand(i) == IF i.raw.f3 >= 5 THEN i.raw.rs1 ELSE rs1_val(i)
wdata(i) == LET old == csr_read(i.imm) IN
            IF i.raw.f3 % 4 = 1 THEN Operand(i)
            ELSE IF i.raw.f3 % 4 = 2 THEN BitOr(old, Operand(i))
            ELSE BitAnd(old, Inverted(Operand(i)))

CsrInstr(i) ==
    /\ i.raw.op = OP_SYSTEM /\ i.raw.f3 \notin {0, 4} /\ i.imm \in Csrs
    /\ csr' = HeldWritten(i.imm, wdata(i))
    /\ fflags' = FlagsWritten(i.imm, wdata(i))
    /\ regs' = reg_write(i.raw.rd, csr_read(i.imm))
    /\ Retire(Following(i))
    /\ UNCHANGED <<fregs, mem, mtimecmp, out>>

\* The registers that decide about traps, which Hart has; software that touches
\* them has no step here.
TrapCsrs == {256, 261, 384, 768, 770, 771, 773}

SystemRefused(i) ==
    /\ i.raw.op = OP_SYSTEM /\ ~IsSfence(i.raw)
    /\ i.raw \notin {ECALL, EBREAK, MRET, SRET}
    /\ i.raw.f3 \in {0, 4} \/ i.imm \notin Csrs \cup TrapCsrs

-----------------------------------------------------------------------------
\* One step.

FetchRefused == \/ pc % 2 = 1 \/ OutOfMemory(pc, 2)
                \/ InMemory(pc, 2) /\ Instruction = {}

\* An exception: nobody handles it, so the run ends where it is.
Fault ==
    /\ \/ FetchRefused
       \/ \E i \in Instruction :
             \/ i.raw.op = OP_BRANCH /\ i.raw.f3 \notin BranchKinds
             \/ AccessRefused(i)
             \/ i.raw.op = OP_FP /\ FregResults(i) \cup RegResults(i) = {}
             \/ SystemRefused(i)
    /\ state' = "EXCEPTION"
    /\ csr' = Polled
    /\ UNCHANGED <<regs, fregs, fflags, pc, exit_code, mem, mtimecmp, out>>

Execute(i) ==
    \/ Compute(i) \/ Branch(i) \/ Jump(i)
    \/ Load(i) \/ Store(i) \/ FpLoad(i) \/ FpStore(i) \/ FpOp(i)
    \/ System(i) \/ CsrInstr(i)

\* mcycle counts the instructions executed; a write replaces its low word first.
Counted(i) ==
    1 + (IF i.raw.op = OP_SYSTEM /\ i.raw.f3 \notin {0, 4} /\ i.imm = CSR_MCYCLE
         THEN mcycle - Wrap(mcycle) + wdata(i) ELSE mcycle)

\* The condition of the loop in emu_run.
Going ==
    /\ state = "RUNNING"
    /\ boot.max_steps > 0 => mtime - boot.mtime < boot.max_steps

Step ==
    /\ Going
    /\ mtime' = mtime + 1
    /\ \/ Fault /\ UNCHANGED mcycle
       \/ \E i \in Instruction : Execute(i) /\ mcycle' = Counted(i)
    /\ UNCHANGED boot

\* emu_run has returned.
Returned == ~Going /\ UNCHANGED vars

Next == Step \/ Returned

Spec == Init /\ [][Next]_vars

-----------------------------------------------------------------------------

CTypeOK ==
    /\ regs \in [Registers -> Words] /\ regs[0] = 0
    /\ fregs \in [Registers -> Words]
    /\ fflags \subseteq Flags
    /\ csr \in [HeldCsrs -> Words]
    /\ pc \in Words
    /\ state \in {"RUNNING", "HALTED", "EXCEPTION"}
    /\ exit_code \in Words
    /\ DOMAIN mem \subseteq 0 .. MemSize - 1 /\ \A a \in DOMAIN mem : mem[a] \in 0 .. ByteSize - 1
    /\ mtime \in Nat /\ mtimecmp \in Nat /\ mcycle \in Nat
    /\ out \in Seq(0 .. ByteSize - 1)

\* What a floating-point operation raised stays in fflags until software writes the
\* register: no operation in between, whatever its own flags, clears any of it.
FlagsAccrue ==
    [][(~\E i \in Instruction : i.raw.op = OP_SYSTEM /\ i.imm \in {CSR_FFLAGS, CSR_FCSR})
        => fflags \subseteq fflags']_vars

=============================================================================
