-------------------------------- MODULE Hart --------------------------------
(***************************************************************************)
(* The hart of the emulator: privilege levels, trap entry and return,      *)
(* delegation, the control and status registers they read and write, and   *)
(* the timer interrupt that is polled between two instructions.  One       *)
(* action is one way through emu_step (src/emu.c): poll the timer, fetch,   *)
(* decode, execute.                                                         *)
(*                                                                         *)
(* The software is arbitrary: Program[a] is the set of things a fetch at    *)
(* address a may yield, an instruction or the exception the fetch or the    *)
(* data access of that instruction runs into.  General registers and        *)
(* memory are data and are left out; a value that software computes is one  *)
(* of the values of the instructions in Program.                            *)
(***************************************************************************)
EXTENDS Integers

CONSTANTS
    AddrSpace,  \* size of the address space, 2^32 in the program
    Entries,    \* the ELF entry points a run may start from
    Program,    \* [Addr -> set of instructions], see IsInstr
    MaxLeft     \* largest distance between mtime and mtimecmp

Addr == 0 .. AddrSpace - 1

PRIV_U == 0
PRIV_S == 1
PRIV_M == 3

\* Exception codes; the interrupt bit of the cause register is scaled from
\* bit 31 to bit 4, just above the 16 codes that can be delegated.
EXC_INST_MISALIGNED == 0
EXC_ILLEGAL_INST    == 2
EXC_BREAKPOINT      == 3
EXC_ECALL_U         == 8
EXC_ECALL_S         == 9
EXC_ECALL_M         == 11
PageFaults          == {12, 13, 15}
ExcCodes            == 0 .. 15
MCAUSE_IRQ_BIT      == 16
MCAUSE_IRQ_TIMER    == MCAUSE_IRQ_BIT + 7
Causes              == 0 .. 2 * MCAUSE_IRQ_BIT - 1
NoTrap              == -1

-----------------------------------------------------------------------------
\* The registers.  csr_t of include/csr.h: the fields of mstatus the trap
\* logic uses, mie and mip reduced to the timer bit, satp to its MODE bit.

Mstatus == [SIE : BOOLEAN, MIE : BOOLEAN, SPIE : BOOLEAN, MPIE : BOOLEAN,
            SPP : 0 .. 1, MPP : 0 .. 3]

Csr == [mstatus : Mstatus, mie : BOOLEAN, mip : BOOLEAN, satp : BOOLEAN,
        medeleg : SUBSET ExcCodes, mideleg : SUBSET ExcCodes,
        mtvec : Addr, mepc : Addr, mcause : Causes,
        stvec : Addr, sepc : Addr, scause : Causes]

\* mcycle (0xB00) is absent: the decoder sign-extends the address field, so an
\* address above 0x7FF never reaches csr_read and the instruction is illegal.
CsrAddr ==
    [fflags |-> 1, frm |-> 2, fcsr |-> 3,
     sstatus |-> 256, sie |-> 260, stvec |-> 261, sscratch |-> 320,
     sepc |-> 321, scause |-> 322, stval |-> 323, sip |-> 324, satp |-> 384,
     mstatus |-> 768, medeleg |-> 770, mideleg |-> 771, mie |-> 772,
     mtvec |-> 773, mscratch |-> 832, mepc |-> 833, mcause |-> 834,
     mtval |-> 835, mip |-> 836]

\* What can come out of a fetch: "fault" stands for every synchronous exception
\* that the bytes at pc decide (a failed fetch, an undecodable instruction, a
\* misaligned or failing access); "plain" for every instruction that only
\* touches registers and memory.  The final wdata of a csrrw/s/c is in
\* a field named for the kind of register it goes to.
IsInstr(f) ==
    /\ f.op \in {"fault", "plain", "jump", "mret", "sret", "sfence", "ecall",
                 "ebreak", "csrw", "set_timer"}
    /\ f.op = "fault" => f.cause \in ExcCodes
    /\ f.op \in {"plain", "ebreak", "set_timer"} => f.len \in {2, 4}
    /\ f.op = "jump" => f.target \in Addr
    /\ f.op = "ecall" => f.a7 \in {"exit", "write", "unknown"}
    /\ f.op = "set_timer" => f.on \in BOOLEAN /\ f.left \in 0 .. MaxLeft
    /\ f.op = "csrw" =>
         /\ f.csr \in DOMAIN CsrAddr
         /\ f.csr \in {"mstatus", "sstatus"} => f.status \in Mstatus
         /\ f.csr \in {"mie", "mip", "satp"} => f.bit \in BOOLEAN
         /\ f.csr \in {"medeleg", "mideleg"} => f.codes \in SUBSET ExcCodes
         /\ f.csr \in {"mtvec", "mepc", "stvec", "sepc"} => f.to \in Addr
         /\ f.csr \in {"mcause", "scause"} => f.cause \in Causes

ASSUME AddrSpaceAssumption == AddrSpace \in Nat \ {0}
ASSUME EntriesAssumption   == Entries \subseteq Addr \ {0}
ASSUME ProgramAssumption   == \A a \in Addr : \A f \in Program[a] : IsInstr(f)
ASSUME MaxLeftAssumption   == MaxLeft \in Nat

VARIABLES
    priv,   \* current privilege level
    pc,     \* program counter
    csr,    \* control and status registers
    timer,  \* CLINT: on = (mtimecmp # 0), left = ticks until mtime >= mtimecmp
    state   \* emu_state_t

vars == <<priv, pc, csr, timer, state>>

TypeOK ==
    /\ priv \in 0 .. 3
    /\ pc \in Addr
    /\ csr \in Csr
    /\ timer \in [on : BOOLEAN, left : 0 .. MaxLeft]
    /\ state \in {"RUNNING", "HALTED", "EXCEPTION"}

\* emu_init followed by a successful emu_load_elf.
Init ==
    /\ priv = PRIV_M
    /\ pc \in Entries
    /\ csr = [mstatus |-> [SIE |-> FALSE, MIE |-> FALSE, SPIE |-> FALSE,
                           MPIE |-> FALSE, SPP |-> 0, MPP |-> 0],
              mie |-> FALSE, mip |-> FALSE, satp |-> FALSE,
              medeleg |-> {}, mideleg |-> {},
              mtvec |-> 0, mepc |-> 0, mcause |-> 0,
              stvec |-> 0, sepc |-> 0, scause |-> 0]
    /\ timer = [on |-> FALSE, left |-> 0]
    /\ state = "RUNNING"

-----------------------------------------------------------------------------
\* Trap entry.

WordOf(a) == a - (a % 4)             \* a & ~3

\* Mutant: the distance to the deadline is decremented below zero.
TickUnbounded == [timer EXCEPT !.left = @ - 1]

\* mtime++; MTIP is a level, recomputed at every instruction boundary.
Tick == [timer EXCEPT !.left = IF @ > 0 THEN @ - 1 ELSE 0]
\* Mutant: MTIP set only at the tick that meets the deadline.
PolledOnEdge == [csr EXCEPT !.mip = Tick.on /\ timer.left = 1]
Polled == [csr EXCEPT !.mip = Tick.on /\ Tick.left = 0]

Delegated(cause) ==
    /\ priv <= PRIV_S
    /\ IF cause >= MCAUSE_IRQ_BIT THEN cause - MCAUSE_IRQ_BIT \in csr.mideleg
                                  ELSE cause \in csr.medeleg

Vector(cause)  == IF Delegated(cause) THEN csr.stvec ELSE csr.mtvec
Handled(cause) == Vector(cause) # 0

\* mstatus after a trap: the enable bit moves to its backup and is cleared, the
\* interrupted level is recorded.
STrapStatus == [csr.mstatus EXCEPT !.SIE = FALSE, !.SPIE = csr.mstatus.SIE,
                                   !.SPP = IF priv = PRIV_S THEN 1 ELSE 0]
\* Mutants: the S backup is overwritten too; MIE is not cleared; MPP is always M.
MTrapStatusBothLevels == [csr.mstatus EXCEPT !.MIE = FALSE, !.MPP = priv,
    !.MPIE = csr.mstatus.MIE, !.SPIE = csr.mstatus.MIE]
MTrapStatusNested == [csr.mstatus EXCEPT !.MPIE = csr.mstatus.MIE, !.MPP = priv]
MTrapStatusFromM == [csr.mstatus EXCEPT !.MIE = FALSE, !.MPIE = csr.mstatus.MIE,
                                        !.MPP = PRIV_M]
MTrapStatus == [csr.mstatus EXCEPT !.MIE = FALSE, !.MPIE = csr.mstatus.MIE,
                                   !.MPP = priv]

\* Mutant: the delegation branch saves into the M registers.
SavedForSInM(cause) == [Polled EXCEPT !.mepc = WordOf(pc), !.mcause = cause,
                                      !.mstatus = STrapStatus]
SavedForS(cause) == [Polled EXCEPT !.sepc = WordOf(pc), !.scause = cause,
                                   !.mstatus = STrapStatus]
SavedForM(cause) == [Polled EXCEPT !.mepc = WordOf(pc), !.mcause = cause,
                                   !.mstatus = MTrapStatus]

\* trap_raise returning true.
EnterTrap(cause) ==
    /\ Handled(cause)
    /\ pc' = Vector(cause)
    /\ IF Delegated(cause) THEN priv' = PRIV_S /\ csr' = SavedForS(cause)
                           ELSE priv' = PRIV_M /\ csr' = SavedForM(cause)
    /\ UNCHANGED state

-----------------------------------------------------------------------------
\* One step.

IrqPending ==
    /\ Polled.mip
    /\ csr.mie
    /\ priv # PRIV_M \/ csr.mstatus.MIE

\* An interrupt that finds no handler is dropped and the instruction runs.
AtInstruction ==
    /\ state = "RUNNING"
    /\ ~ (IrqPending /\ Handled(MCAUSE_IRQ_TIMER))

Translating == priv # PRIV_M /\ csr.satp

Fetched ==
    IF pc % 2 = 1 THEN {[op |-> "fault", cause |-> EXC_INST_MISALIGNED]}
    ELSE {f \in Program[pc] :
            f.op = "fault" /\ f.cause \in PageFaults => Translating}

\* Mutant: the level is looked for one bit pair too high.
csr_priv_ok_shifted(p, addr) ==
    LET need == (addr \div 1024) % 4 IN p >= IF need = 2 THEN PRIV_M ELSE need

csr_priv_ok(p, addr) ==
    LET need == (addr \div 256) % 4 IN p >= IF need = 2 THEN PRIV_M ELSE need

\* ecall is a host service only while no handler at all is installed.  (From S
\* or U the program then stops, as it does for any trap without a handler.)
\* Mutant: ecall from M stays a host service although mtvec is set.
HostCallBesideM == csr.stvec = 0 /\ priv = PRIV_M
HostCall == csr.mtvec = 0 /\ csr.stvec = 0 /\ priv = PRIV_M

\* The synchronous exception that f raises at the current privilege level.
Cause(f) ==
    CASE f.op = "fault"                                      -> f.cause
      [] f.op = "mret" /\ priv # PRIV_M                      -> EXC_ILLEGAL_INST
      [] f.op \in {"sret", "sfence"} /\ priv < PRIV_S        -> EXC_ILLEGAL_INST
      [] f.op = "csrw" /\ ~csr_priv_ok(priv, CsrAddr[f.csr]) -> EXC_ILLEGAL_INST
      [] f.op = "ebreak" /\ csr.mtvec # 0                    -> EXC_BREAKPOINT
      [] f.op = "ecall" /\ ~HostCall ->
           IF priv = PRIV_M THEN EXC_ECALL_M
           ELSE IF priv = PRIV_S THEN EXC_ECALL_S ELSE EXC_ECALL_U
      [] OTHER -> NoTrap

TimerInterrupt ==
    /\ state = "RUNNING"
    /\ IrqPending
    /\ EnterTrap(MCAUSE_IRQ_TIMER)
    /\ timer' = Tick

Exception(f) ==
    /\ AtInstruction
    /\ Cause(f) # NoTrap
    /\ EnterTrap(Cause(f))
    /\ timer' = Tick

\* trap_raise returns false: the emulator stops with the hart as it was.
Unhandled(f) ==
    /\ AtInstruction
    /\ Cause(f) # NoTrap
    /\ ~Handled(Cause(f))
    /\ timer' = Tick
    /\ csr' = Polled
    /\ state' = "EXCEPTION"
    /\ UNCHANGED <<priv, pc>>

\* The instruction f completes and control goes on at next.
Retire(f, next) ==
    /\ AtInstruction
    /\ Cause(f) = NoTrap
    /\ pc' = next

\* Mutant: the pc does not wrap around.
FollowingPastEnd(len) == pc + len

Following(len) == (pc + len) % AddrSpace

Plain(f) ==
    /\ f.op \in {"plain", "sfence"}
    /\ Retire(f, Following(IF f.op = "plain" THEN f.len ELSE 4))
    /\ timer' = Tick
    /\ csr' = Polled
    /\ UNCHANGED <<priv, state>>

Jump(f) ==
    /\ f.op = "jump"
    /\ Retire(f, f.target)
    /\ timer' = Tick
    /\ csr' = Polled
    /\ UNCHANGED <<priv, state>>

\* A word store to mtimecmp, at any privilege level that reaches its address.
SetTimer(f) ==
    /\ f.op = "set_timer"
    /\ Retire(f, Following(f.len))
    /\ timer' = [on |-> f.on, left |-> f.left]
    /\ csr' = Polled
    /\ UNCHANGED <<priv, state>>

\* mstatus after a return.
MretStatus == [csr.mstatus EXCEPT !.MIE = csr.mstatus.MPIE, !.MPIE = TRUE,
                                  !.MPP = PRIV_U]
\* Mutant: SIE <- SPIE is forgotten.
SretStatusMasked == [csr.mstatus EXCEPT !.SPIE = TRUE, !.SPP = 0]
SretStatus == [csr.mstatus EXCEPT !.SIE = csr.mstatus.SPIE, !.SPIE = TRUE,
                                  !.SPP = 0]

Mret(f) ==
    /\ f.op = "mret"
    /\ Retire(f, csr.mepc)
    /\ timer' = Tick
    /\ priv' = csr.mstatus.MPP
    /\ csr' = [Polled EXCEPT !.mstatus = MretStatus]
    /\ UNCHANGED state

Sret(f) ==
    /\ f.op = "sret"
    /\ Retire(f, csr.sepc)
    /\ timer' = Tick
    /\ priv' = IF csr.mstatus.SPP = 1 THEN PRIV_S ELSE PRIV_U
    /\ csr' = [Polled EXCEPT !.mstatus = SretStatus]
    /\ UNCHANGED state

\* csr_write.  sstatus is the S view of mstatus; the registers that only hold
\* data for software are left out of csr.
CsrWrite(c, f) ==
    CASE f.csr = "mstatus" -> [c EXCEPT !.mstatus = f.status]
      [] f.csr = "sstatus" ->
             [c EXCEPT !.mstatus = [c.mstatus EXCEPT
                 !.SIE = f.status.SIE, !.SPIE = f.status.SPIE, !.SPP = f.status.SPP]]
      [] f.csr = "mtvec"   -> [c EXCEPT !.mtvec = WordOf(f.to)]
      [] f.csr = "mepc"    -> [c EXCEPT !.mepc = WordOf(f.to)]
      [] f.csr = "stvec"   -> [c EXCEPT !.stvec = WordOf(f.to)]
      [] f.csr = "sepc"    -> [c EXCEPT !.sepc = WordOf(f.to)]
      [] f.csr = "mcause"  -> [c EXCEPT !.mcause = f.cause]
      [] f.csr = "scause"  -> [c EXCEPT !.scause = f.cause]
      [] f.csr = "medeleg" -> [c EXCEPT !.medeleg = f.codes]
      [] f.csr = "mideleg" -> [c EXCEPT !.mideleg = f.codes]
      [] f.csr = "mie"     -> [c EXCEPT !.mie = f.bit]
      [] f.csr = "satp"    -> [c EXCEPT !.satp = f.bit]
      [] f.csr = "mip"     -> [c EXCEPT !.mip = @ /\ f.bit]
      [] OTHER             -> c

CsrInstr(f) ==
    /\ f.op = "csrw"
    /\ Retire(f, Following(4))
    /\ timer' = Tick
    /\ csr' = CsrWrite(Polled, f)
    /\ UNCHANGED <<priv, state>>

\* The host services of a program without handlers, and ebreak without mtvec.
\* An unknown service number stops the emulator but the step still retires.
HostService(f) ==
    /\ f.op \in {"ecall", "ebreak"}
    /\ Retire(f, Following(IF f.op = "ebreak" THEN f.len ELSE 4))
    /\ state' = CASE f.op = "ebreak"   -> "HALTED"
                  [] f.op = "ecall" /\ f.a7 = "exit"    -> "HALTED"
                  [] f.op = "ecall" /\ f.a7 = "write"   -> "RUNNING"
                  [] f.op = "ecall" /\ f.a7 = "unknown" -> "EXCEPTION"
    /\ timer' = Tick
    /\ csr' = Polled
    /\ UNCHANGED priv

Step(f) ==
    \/ Exception(f)
    \/ Unhandled(f)
    \/ Plain(f)
    \/ Jump(f)
    \/ SetTimer(f)
    \/ Mret(f)
    \/ Sret(f)
    \/ CsrInstr(f)
    \/ HostService(f)

Next == TimerInterrupt \/ \E f \in Fetched : Step(f)

Spec == Init /\ [][Next]_vars

\* emu_run calls emu_step for as long as the emulator is running.
FairSpec == Spec /\ WF_vars(Next)

-----------------------------------------------------------------------------
\* Once M has installed its handler, no instruction stops the emulator, neither as
\* an unhandled trap nor through the host services meant for programs without
\* handlers: M's own never do, even while it has delegated exceptions to an S that
\* has no handler yet, and nor do those of a lower level as soon as S has its
\* handler or nothing is delegated.
HandlersKeepRunning ==
    [][csr.mtvec # 0 /\ (priv > PRIV_S \/ csr.stvec # 0 \/ csr.medeleg = {})
         => UNCHANGED state]_vars

\* A timer interrupt that M has armed, enabled and kept for itself is not lost:
\* it is pending by level, so unless software moves mtimecmp for ever it is
\* taken, even if the deadline passes while interrupts are off.
ArmedForM ==
    /\ state = "RUNNING"
    /\ timer.on /\ csr.mie
    /\ priv # PRIV_M \/ csr.mstatus.MIE
    /\ ~Delegated(MCAUSE_IRQ_TIMER) /\ csr.mtvec # 0

Rearm == \E f \in Fetched : SetTimer(f)

TimerDelivered == []<>~ArmedForM \/ []<><<Rearm>>_vars

=============================================================================
