----------------------------- MODULE HartProofs -----------------------------
(***************************************************************************)
(* The hart, for every program: its types, that handlers keep it running,    *)
(* that it implements Protection (an initial state maps to an initial state,  *)
(* every step to a Run, a trap or a stutter), and that the context saved by a *)
(* trap survives until the return.  The inductive invariant of the last part  *)
(* is the type invariant together with ContextsKept: each conjunct of a        *)
(* context is disturbed only by the actions that also drop or replace that    *)
(* context.                                                                  *)
(***************************************************************************)
EXTENDS HartProtection, TrapContext, TLAPS

-----------------------------------------------------------------------------
\* Types.

\* Clearing the low two bits of an address gives an address.
LEMMA WordOfAddr == ASSUME NEW a \in Addr PROVE WordOf(a) \in Addr
  BY AddrSpaceAssumption DEF WordOf, Addr

\* pc + len wraps inside the address space.
LEMMA FollowingAddr ==
  ASSUME pc \in Addr, NEW len \in Nat PROVE Following(len) \in Addr
  BY AddrSpaceAssumption DEF Following, Addr

\* Polling the timer changes nothing but mip and the countdown.
LEMMA PolledType ==
  ASSUME TypeOK
  PROVE  /\ Polled \in Csr
         /\ Tick \in [on : BOOLEAN, left : 0 .. MaxLeft]
<1>1. Tick \in [on : BOOLEAN, left : 0 .. MaxLeft]
  BY MaxLeftAssumption DEF TypeOK, Tick
<1>2. (Tick.on /\ Tick.left = 0) \in BOOLEAN
  OBVIOUS
<1>3. Polled \in Csr
  BY <1>2 DEF TypeOK, Polled, Csr
<1> QED BY <1>1, <1>3

\* Everything a fetch yields is an instruction.
LEMMA FetchedInstr ==
  ASSUME TypeOK, NEW f \in Fetched PROVE IsInstr(f)
<1>1. CASE pc % 2 = 1
  BY <1>1 DEF Fetched, IsInstr, EXC_INST_MISALIGNED, ExcCodes
<1>2. CASE pc % 2 # 1
  BY <1>2, ProgramAssumption DEF Fetched, TypeOK
<1> QED BY <1>1, <1>2

\* An instruction raises an exception code or nothing.
LEMMA CauseType ==
  ASSUME NEW f, IsInstr(f) PROVE Cause(f) \in ExcCodes \cup {NoTrap}
  BY DEF IsInstr, Cause, ExcCodes, NoTrap, EXC_ILLEGAL_INST, EXC_BREAKPOINT,
         EXC_ECALL_U, EXC_ECALL_S, EXC_ECALL_M

\* The register updates of trap entry and return, once their values are typed.
LEMMA SetStatusType ==
  ASSUME NEW c \in Csr, NEW m \in Mstatus
  PROVE  [c EXCEPT !.mstatus = m] \in Csr
  BY DEF Csr

\* A trap into S writes sepc, scause and mstatus,
LEMMA SetSContextType ==
  ASSUME NEW c \in Csr, NEW m \in Mstatus, NEW a \in Addr, NEW k \in Causes
  PROVE  [c EXCEPT !.sepc = a, !.scause = k, !.mstatus = m] \in Csr
  BY DEF Csr

\* a trap into M the same of M,
LEMMA SetMContextType ==
  ASSUME NEW c \in Csr, NEW m \in Mstatus, NEW a \in Addr, NEW k \in Causes
  PROVE  [c EXCEPT !.mepc = a, !.mcause = k, !.mstatus = m] \in Csr
  BY DEF Csr

\* a return from S its fields of mstatus,
LEMMA SetSFieldsType ==
  ASSUME NEW m \in Mstatus, NEW ie \in BOOLEAN, NEW pie \in BOOLEAN, NEW p \in 0 .. 1
  PROVE  [m EXCEPT !.SIE = ie, !.SPIE = pie, !.SPP = p] \in Mstatus
  BY DEF Mstatus

\* a return from M its own.
LEMMA SetMFieldsType ==
  ASSUME NEW m \in Mstatus, NEW ie \in BOOLEAN, NEW pie \in BOOLEAN, NEW p \in 0 .. 3
  PROVE  [m EXCEPT !.MIE = ie, !.MPIE = pie, !.MPP = p] \in Mstatus
  BY DEF Mstatus

\* mstatus stays well typed through trap entry and return.
LEMMA StatusTypes ==
  ASSUME TypeOK
  PROVE  /\ STrapStatus \in Mstatus /\ MTrapStatus \in Mstatus
         /\ MretStatus \in Mstatus /\ SretStatus \in Mstatus
<1>1. /\ csr.mstatus \in Mstatus /\ priv \in 0 .. 3
      /\ csr.mstatus.SIE \in BOOLEAN /\ csr.mstatus.SPIE \in BOOLEAN
      /\ csr.mstatus.MIE \in BOOLEAN /\ csr.mstatus.MPIE \in BOOLEAN
  BY DEF TypeOK, Csr, Mstatus
<1>2. (IF priv = PRIV_S THEN 1 ELSE 0) \in 0 .. 1 /\ 0 \in 0 .. 1 /\ PRIV_U \in 0 .. 3
  BY DEF PRIV_U
<1>3. STrapStatus \in Mstatus
  BY <1>1, <1>2, SetSFieldsType DEF STrapStatus
<1>4. MTrapStatus \in Mstatus
  BY <1>1, SetMFieldsType DEF MTrapStatus
<1>5. MretStatus \in Mstatus
  BY <1>1, <1>2, SetMFieldsType, Zenon DEF MretStatus
<1>6. SretStatus \in Mstatus
  BY <1>1, <1>2, SetSFieldsType, Zenon DEF SretStatus
<1> QED BY <1>3, <1>4, <1>5, <1>6

\* Trap entry, with either set of registers.
LEMMA EnterTrapType ==
  ASSUME TypeOK, NEW cause \in Causes, EnterTrap(cause)
  PROVE  /\ priv' \in {PRIV_S, PRIV_M}
         /\ pc' \in Addr
         /\ csr' \in Csr
         /\ state' = state
<1>1. Polled \in Csr /\ csr \in Csr /\ pc \in Addr /\ priv \in 0 .. 3
  BY PolledType DEF TypeOK
<1>2. WordOf(pc) \in Addr
  BY <1>1, WordOfAddr
<1>3. SavedForS(cause) \in Csr
  BY <1>1, <1>2, StatusTypes, SetSContextType DEF SavedForS
<1>4. SavedForM(cause) \in Csr
  BY <1>1, <1>2, StatusTypes, SetMContextType DEF SavedForM
<1>5. Vector(cause) \in Addr
  BY <1>1 DEF Vector, Csr
<1> QED BY <1>3, <1>4, <1>5 DEF EnterTrap

\* csr_write keeps every register in its range: the masks of the code.
LEMMA CsrWriteType ==
  ASSUME NEW c \in Csr, NEW f, IsInstr(f), f.op = "csrw"
  PROVE  CsrWrite(c, f) \in Csr
<1>1. CASE f.csr \in {"mstatus", "sstatus"}
  <2>1. f.status \in Mstatus /\ c.mstatus \in Mstatus
    BY <1>1 DEF IsInstr, Csr
  <2>2. [c.mstatus EXCEPT !.SIE = f.status.SIE, !.SPIE = f.status.SPIE, !.SPP = f.status.SPP]
           \in Mstatus
    BY <2>1 DEF Mstatus
  <2>3. \E m \in Mstatus : CsrWrite(c, f) = [c EXCEPT !.mstatus = m]
    BY <1>1, <2>1, <2>2 DEF CsrWrite
  <2> QED BY <2>3 DEF Csr
<1>2. CASE f.csr \in {"mtvec", "mepc", "stvec", "sepc"}
  <2>1. WordOf(f.to) \in Addr
    BY <1>2, WordOfAddr DEF IsInstr
  <2> QED BY <1>2, <2>1 DEF CsrWrite, Csr
<1>3. CASE f.csr \in {"mcause", "scause", "medeleg", "mideleg", "mie", "satp"}
  BY <1>3 DEF CsrWrite, IsInstr, Csr
<1>4. CASE f.csr = "mip"
  <2>1. (c.mip /\ f.bit) \in BOOLEAN
    OBVIOUS
  <2> QED BY <1>4, <2>1 DEF CsrWrite, Csr
<1>5. CASE f.csr \notin {"mstatus", "sstatus", "mtvec", "mepc", "stvec", "sepc", "mcause",
                         "scause", "medeleg", "mideleg", "mie", "satp", "mip"}
  BY <1>5 DEF CsrWrite
<1> QED BY <1>1, <1>2, <1>3, <1>4, <1>5

-----------------------------------------------------------------------------
\* Every reachable state of the hart is well typed: the privilege level fits two
\* bits, every address register stays inside the address space, the countdown
\* stays below the largest deadline.
THEOREM TypeCorrect == Spec => []TypeOK
<1>1. Init => TypeOK
  BY EntriesAssumption, MaxLeftAssumption, AddrSpaceAssumption
     DEF Init, TypeOK, Csr, Mstatus, Causes, MCAUSE_IRQ_BIT, ExcCodes, PRIV_M, Addr
<1>2. TypeOK /\ [Next]_vars => TypeOK'
  <2> SUFFICES ASSUME TypeOK, [Next]_vars PROVE TypeOK'
    OBVIOUS
  <2> USE PolledType
  <2>1. CASE TimerInterrupt
    <3>1. MCAUSE_IRQ_TIMER \in Causes
      BY DEF MCAUSE_IRQ_TIMER, Causes, MCAUSE_IRQ_BIT
    <3> QED BY <2>1, <3>1, EnterTrapType DEF TimerInterrupt, TypeOK, PRIV_S, PRIV_M
  <2>2. ASSUME NEW f \in Fetched, Step(f) PROVE TypeOK'
    <3>0. IsInstr(f)
      BY FetchedInstr
    <3>1. CASE Exception(f)
      <4>1. Cause(f) \in Causes
        BY <3>0, <3>1, CauseType DEF Exception, Causes, ExcCodes, MCAUSE_IRQ_BIT
      <4> QED BY <3>1, <4>1, EnterTrapType DEF Exception, TypeOK, PRIV_S, PRIV_M
    <3>2. CASE Unhandled(f)
      BY <3>2 DEF Unhandled, TypeOK
    <3>3. CASE Plain(f)
      BY <3>0, <3>3, FollowingAddr DEF Plain, Retire, AtInstruction, TypeOK, IsInstr
    <3>4. CASE Jump(f)
      BY <3>0, <3>4 DEF Jump, Retire, TypeOK, IsInstr
    <3>5. CASE SetTimer(f)
      BY <3>0, <3>5, FollowingAddr DEF SetTimer, Retire, TypeOK, IsInstr
    <3>6. CASE Mret(f)
      <4>1. csr' \in Csr
        BY <3>6, StatusTypes, SetStatusType DEF Mret
      <4> QED BY <3>6, <4>1 DEF Mret, Retire, TypeOK, Csr, Mstatus
    <3>7. CASE Sret(f)
      <4>1. csr' \in Csr
        BY <3>7, StatusTypes, SetStatusType DEF Sret
      <4> QED BY <3>7, <4>1 DEF Sret, Retire, TypeOK, Csr, PRIV_U, PRIV_S
    <3>8. CASE CsrInstr(f)
      BY <3>0, <3>8, FollowingAddr, CsrWriteType DEF CsrInstr, Retire, TypeOK
    <3>9. CASE HostService(f)
      <4>1. pc' \in Addr
        BY <3>0, <3>9, FollowingAddr DEF HostService, Retire, TypeOK, IsInstr
      <4>2. state' \in {"RUNNING", "HALTED", "EXCEPTION"}
        BY <3>0, <3>9 DEF HostService, IsInstr
      <4> QED BY <3>9, <4>1, <4>2 DEF HostService, TypeOK
    <3> QED BY <2>2, <3>1, <3>2, <3>3, <3>4, <3>5, <3>6, <3>7, <3>8, <3>9 DEF Step
  <2>3. CASE UNCHANGED vars
    BY <2>3 DEF vars, TypeOK
  <2> QED BY <2>1, <2>2, <2>3 DEF Next
<1> QED BY <1>1, <1>2, PTL DEF Spec

\* While M has a handler, and S has one, or nothing is delegated, or the level is one
\* that never delegates, every exception is handled.
LEMMA ExceptionsAreHandled ==
  ASSUME NEW f, IsInstr(f), Cause(f) # NoTrap,
         csr.mtvec # 0, priv > PRIV_S \/ csr.stvec # 0 \/ csr.medeleg = {}, priv \in 0 .. 3
  PROVE  Handled(Cause(f))
<1>1. ~(Cause(f) >= MCAUSE_IRQ_BIT)
  BY CauseType DEF ExcCodes, MCAUSE_IRQ_BIT
<1> QED BY <1>1 DEF Handled, Vector, Delegated, PRIV_S

\* Once M has a handler, ecall and ebreak are exceptions.
LEMMA ServicesTrap ==
  ASSUME NEW f, f.op \in {"ecall", "ebreak"}, csr.mtvec # 0
  PROVE  Cause(f) # NoTrap
<1>1. CASE f.op = "ecall"
  BY <1>1 DEF Cause, HostCall, NoTrap, EXC_ECALL_M, EXC_ECALL_S, EXC_ECALL_U
<1>2. CASE f.op = "ebreak"
  BY <1>2 DEF Cause, NoTrap, EXC_BREAKPOINT
<1> QED BY <1>1, <1>2

\* No instruction, at any level and of any program, stops an emulator whose
\* handlers are installed: trap_raise never returns false to it and the host
\* services of ecall and ebreak are out of reach.
THEOREM HandledHartRuns == Spec => HandlersKeepRunning
<1>1. ASSUME TypeOK, [Next]_vars, csr.mtvec # 0,
             priv > PRIV_S \/ csr.stvec # 0 \/ csr.medeleg = {}
      PROVE  UNCHANGED state
  <2>1. CASE TimerInterrupt
    BY <2>1 DEF TimerInterrupt, EnterTrap
  <2>2. ASSUME NEW f \in Fetched, Step(f) PROVE UNCHANGED state
    <3>1. IsInstr(f)
      BY <1>1, FetchedInstr
    <3>2. ~Unhandled(f)
      BY <1>1, <3>1, ExceptionsAreHandled DEF Unhandled, TypeOK
    <3>3. ~HostService(f)
      BY <1>1, ServicesTrap DEF HostService, Retire
    <3> QED BY <2>2, <3>2, <3>3 DEF Step, Exception, EnterTrap, Plain, Jump,
                                    SetTimer, Mret, Sret, CsrInstr
  <2>3. CASE UNCHANGED vars
    BY <1>1, <2>3 DEF vars
  <2> QED BY <1>1, <2>1, <2>2, <2>3 DEF Next
<1>2. TypeOK /\ [Next]_vars =>
        [csr.mtvec # 0 /\ (priv > PRIV_S \/ csr.stvec # 0 \/ csr.medeleg = {})
           => UNCHANGED state]_vars
  BY <1>1
<1> QED BY <1>2, TypeCorrect, PTL DEF Spec, HandlersKeepRunning

-----------------------------------------------------------------------------
\* The levels of protection.

\* The mapped registers are in the ranges Protection gives them.
LEMMA MappedTypes ==
  ASSUME NEW c \in Csr
  PROVE  /\ MOwnedOf(c) \in MOwnedCsrs /\ SOwnedOf(c) \in SOwnedCsrs
         /\ c.mtvec \in Addr /\ c.stvec \in Addr
         /\ c.mstatus.MPP \in 0 .. 3 /\ c.mstatus.SPP \in 0 .. 1
  BY DEF MOwnedOf, SOwnedOf, MOwnedCsrs, SOwnedCsrs, Csr, Mstatus

\* What M owns is the same in both register files.
SameM(c, d) == /\ d.mtvec = c.mtvec /\ d.mstatus.MPP = c.mstatus.MPP
               /\ MOwnedOf(d) = MOwnedOf(c)
SameS(c, d) == /\ d.stvec = c.stvec /\ d.mstatus.SPP = c.mstatus.SPP
               /\ SOwnedOf(d) = SOwnedOf(c)

\* The timer poll touches nothing that a level owns.
LEMMA PollKeeps == ASSUME TypeOK PROVE SameM(csr, Polled) /\ SameS(csr, Polled)
  BY DEF SameM, SameS, TypeOK, Polled, Csr, MOwnedOf, SOwnedOf

\* An S trap and sret touch nothing M owns, an M trap nothing S owns.
LEMMA TrapKeepsOwned ==
  ASSUME TypeOK, NEW cause
  PROVE  SameM(csr, SavedForS(cause)) /\ SameS(csr, SavedForM(cause))
<1>1. csr \in Csr /\ Polled \in Csr
  BY PolledType DEF TypeOK
<1>2. SameM(csr, SavedForS(cause))
  BY <1>1, PollKeeps DEF SameM, SavedForS, STrapStatus, MOwnedOf, Csr, Mstatus
<1>3. SameS(csr, SavedForM(cause))
  BY <1>1, PollKeeps DEF SameS, SavedForM, MTrapStatus, SOwnedOf, Csr, Mstatus
<1> QED BY <1>2, <1>3

\* A return from S leaves what M owns (trap_sret).
LEMMA SretKeepsOwned ==
  ASSUME TypeOK PROVE SameM(csr, [Polled EXCEPT !.mstatus = SretStatus])
  BY PollKeeps, PolledType DEF SameM, SretStatus, MOwnedOf, TypeOK, Csr, Mstatus

\* The address of a CSR that M owns asks for M, of one that S owns for S: the
\* privilege check lets no lower level write it.
LEMMA CsrGuard ==
  ASSUME TypeOK, NEW f, IsInstr(f), f.op = "csrw", csr_priv_ok(priv, CsrAddr[f.csr])
  PROVE  /\ priv < PRIV_M => SameM(csr, CsrWrite(Polled, f))
         /\ priv < PRIV_S => SameS(csr, CsrWrite(Polled, f))
<1>1. csr \in Csr /\ Polled \in Csr /\ priv \in 0 .. 3
  BY PolledType DEF TypeOK
<1>2. CASE f.csr \in {"mstatus", "medeleg", "mideleg", "mie", "mtvec", "mepc", "mcause",
                      "mip", "mscratch", "mtval"}
  <2>1. (CsrAddr[f.csr] \div 256) % 4 = 3
    BY <1>2 DEF CsrAddr
  <2> QED BY <1>1, <2>1 DEF csr_priv_ok, PRIV_M, PRIV_S
<1>3. CASE f.csr \in {"stvec", "sepc", "scause", "satp", "sie", "sscratch", "stval", "sip"}
  <2>1. (CsrAddr[f.csr] \div 256) % 4 = 1
    BY <1>3 DEF CsrAddr
  <2>2. ~(priv < PRIV_S)
    BY <1>1, <2>1 DEF csr_priv_ok, PRIV_M, PRIV_S
  <2>3. SameM(csr, CsrWrite(Polled, f))
    BY <1>1, <1>3, PollKeeps DEF CsrWrite, SameM, MOwnedOf, Csr
  <2> QED BY <2>2, <2>3
<1>4. CASE f.csr = "sstatus"
  <2>1. (CsrAddr[f.csr] \div 256) % 4 = 1
    BY <1>4 DEF CsrAddr
  <2>2. ~(priv < PRIV_S)
    BY <1>1, <2>1 DEF csr_priv_ok, PRIV_M, PRIV_S
  <2>3. SameM(csr, CsrWrite(Polled, f))
    BY <1>1, <1>4, PollKeeps DEF CsrWrite, SameM, MOwnedOf, Csr, Mstatus
  <2> QED BY <2>2, <2>3
<1>5. CASE f.csr \in {"fflags", "frm", "fcsr"}
  BY <1>1, <1>5, PollKeeps DEF CsrWrite
<1> QED BY <1>2, <1>3, <1>4, <1>5 DEF IsInstr, CsrAddr

\* A step that keeps or lowers the level and respects ownership is a Run.
LEMMA IsRun ==
  ASSUME TypeOK, TypeOK', priv' <= priv,
         priv < PRIV_M => SameM(csr, csr'),
         priv < PRIV_S => SameS(csr, csr')
  PROVE  P!Run
<1>1. priv' \in 0 .. priv /\ pc' \in Addr /\ csr' \in Csr
  BY DEF TypeOK
<1>2. /\ MOwnedOf(csr)' = MOwnedOf(csr') /\ SOwnedOf(csr)' = SOwnedOf(csr')
  BY DEF MOwnedOf, SOwnedOf
<1> QED BY <1>1, <1>2, MappedTypes DEF P!Run, P!M, P!S, PRIV_M, PRIV_S, SameM, SameS

\* Trap entry is one of the two traps of Protection.
LEMMA IsTrap ==
  ASSUME TypeOK, TypeOK', NEW cause, EnterTrap(cause)
  PROVE  P!TrapToS \/ P!TrapToM
<1>1. csr' \in Csr /\ csr \in Csr /\ Polled \in Csr /\ priv \in 0 .. 3
  BY PolledType DEF TypeOK
<1>2. /\ MOwnedOf(csr)' = MOwnedOf(csr') /\ SOwnedOf(csr)' = SOwnedOf(csr')
  BY DEF MOwnedOf, SOwnedOf
<1>3. CASE Delegated(cause)
  <2>1. csr' = SavedForS(cause) /\ priv' = PRIV_S /\ pc' = csr.stvec /\ csr.stvec # 0
    BY <1>3 DEF EnterTrap, Handled, Vector
  <2>2. priv \in {PRIV_U, PRIV_S}
    BY <1>1, <1>3 DEF Delegated, PRIV_U, PRIV_S
  <2>3. csr'.stvec = csr.stvec /\ csr'.mstatus.SPP = priv
    BY <1>1, <2>1, <2>2, PollKeeps
       DEF SavedForS, STrapStatus, SameS, Csr, Mstatus, PRIV_U, PRIV_S
  <2> QED BY <1>1, <1>2, <2>1, <2>2, <2>3, TrapKeepsOwned, MappedTypes
          DEF P!TrapToS, P!S, SameM, PRIV_S, PRIV_U
<1>4. CASE ~Delegated(cause)
  <2>1. csr' = SavedForM(cause) /\ priv' = PRIV_M /\ pc' = csr.mtvec /\ csr.mtvec # 0
    BY <1>4 DEF EnterTrap, Handled, Vector
  <2>2. csr'.mtvec = csr.mtvec /\ csr'.mstatus.MPP = priv
    BY <1>1, <2>1, PollKeeps DEF SavedForM, MTrapStatus, SameM, Csr, Mstatus
  <2> QED BY <1>1, <1>2, <2>1, <2>2, TrapKeepsOwned, MappedTypes
          DEF P!TrapToM, P!M, SameS, PRIV_M
<1> QED BY <1>3, <1>4

\* Every step of the hart maps to a step of Protection.
LEMMA StepSimulates ==
  ASSUME TypeOK, TypeOK', [Next]_vars PROVE [P!Next]_P!vars
<1>1. CASE TimerInterrupt
  BY <1>1, IsTrap DEF TimerInterrupt, P!Next
<1>2. ASSUME NEW f \in Fetched, Step(f) PROVE P!Next
  <2>0. IsInstr(f) /\ priv \in 0 .. 3
    BY FetchedInstr DEF TypeOK
  <2>1. CASE Exception(f)
    BY <2>1, IsTrap DEF Exception, P!Next
  <2>2. CASE Unhandled(f) \/ Plain(f) \/ Jump(f) \/ SetTimer(f) \/ HostService(f)
    <3>1. csr' = Polled /\ priv' = priv
      BY <2>2 DEF Unhandled, Plain, Jump, SetTimer, HostService
    <3> QED BY <2>0, <3>1, PollKeeps, IsRun DEF P!Next
  <2>3. CASE Mret(f)
    <3>1. priv = PRIV_M
      BY <2>3 DEF Mret, Retire, Cause, NoTrap, EXC_ILLEGAL_INST
    <3>2. priv' <= priv
      BY <3>1 DEF TypeOK, PRIV_M
    <3> QED BY <3>1, <3>2, IsRun DEF P!Next, PRIV_M, PRIV_S
  <2>4. CASE Sret(f)
    <3>1. ~(priv < PRIV_S)
      BY <2>3, <2>4 DEF Sret, Retire, Cause, NoTrap, EXC_ILLEGAL_INST
    <3>2. priv' <= priv
      BY <2>0, <2>4, <3>1 DEF Sret, PRIV_U, PRIV_S
    <3> QED BY <2>4, <3>1, <3>2, SretKeepsOwned, IsRun DEF Sret, P!Next
  <2>5. CASE CsrInstr(f)
    <3>1. csr_priv_ok(priv, CsrAddr[f.csr]) /\ f.op = "csrw"
      BY <2>5 DEF CsrInstr, Retire, Cause, NoTrap, EXC_ILLEGAL_INST
    <3>2. csr' = CsrWrite(Polled, f) /\ priv' = priv
      BY <2>5 DEF CsrInstr
    <3> QED BY <2>0, <3>1, <3>2, CsrGuard, IsRun DEF P!Next
  <2> QED BY <1>2, <2>1, <2>2, <2>3, <2>4, <2>5 DEF Step
<1>3. CASE UNCHANGED vars
  BY <1>3 DEF vars, P!vars, MOwnedOf, SOwnedOf
<1> QED BY <1>1, <1>2, <1>3 DEF Next

\* Software below a level never changes what that level owns, and privilege is
\* raised only by a trap to the installed handler (trap_raise, csr_priv_ok and
\* the privilege checks of execute).
THEOREM HartImplementsProtection == Spec => ImplementsProtection
<1>1. Init /\ TypeOK => P!Init
  BY MappedTypes DEF Init, TypeOK, P!Init, P!M, PRIV_M
<1>2. TypeOK /\ TypeOK' /\ [Next]_vars => [P!Next]_P!vars
  BY StepSimulates
<1> QED BY <1>1, <1>2, TypeCorrect, PTL DEF Spec, P!Spec, ImplementsProtection

-----------------------------------------------------------------------------
\* The contexts that traps save.

IInv == TypeOK /\ MContextKept /\ SContextKept

\* Polling the timer leaves every register but mip as it was.
LEMMA PolledFields ==
  ASSUME TypeOK
  PROVE  /\ Polled.mstatus = csr.mstatus
         /\ Polled.mepc = csr.mepc
         /\ Polled.sepc = csr.sepc
  BY DEF TypeOK, Polled, Csr

\* The fields of mstatus that trap entry and return leave to the other level.
LEMMA StatusFields ==
  ASSUME TypeOK
  PROVE  /\ STrapStatus.MIE = csr.mstatus.MIE /\ STrapStatus.MPIE = csr.mstatus.MPIE
         /\ STrapStatus.MPP = csr.mstatus.MPP
         /\ MTrapStatus.SIE = csr.mstatus.SIE /\ MTrapStatus.SPIE = csr.mstatus.SPIE
         /\ MTrapStatus.SPP = csr.mstatus.SPP
         /\ SretStatus.MIE = csr.mstatus.MIE /\ SretStatus.MPIE = csr.mstatus.MPIE
         /\ SretStatus.MPP = csr.mstatus.MPP
         /\ MretStatus.SIE = csr.mstatus.SIE /\ MretStatus.SPIE = csr.mstatus.SPIE
         /\ MretStatus.SPP = csr.mstatus.SPP
  BY DEF TypeOK, Csr, Mstatus, STrapStatus, MTrapStatus, MretStatus, SretStatus

\* What a trap saves, in either set of registers.
LEMMA TrapSaves ==
  ASSUME TypeOK
  PROVE  /\ STrapStatus.SIE = FALSE /\ STrapStatus.SPIE = csr.mstatus.SIE
         /\ STrapStatus.SPP = IF priv = PRIV_S THEN 1 ELSE 0
         /\ MTrapStatus.MIE = FALSE /\ MTrapStatus.MPIE = csr.mstatus.MIE
         /\ MTrapStatus.MPP = priv
  BY DEF TypeOK, Csr, Mstatus, STrapStatus, MTrapStatus

\* A trap replaces the context of its own level and leaves the other alone.
LEMMA TrapKeeps ==
  ASSUME IInv, NEW cause, EnterTrap(cause), Remember(cause)
  PROVE  MContextKept' /\ SContextKept'
<1> USE DEF IInv
<1>1. CASE Delegated(cause)
  <2>1. csr' = SavedForS(cause)
    BY <1>1 DEF EnterTrap
  <2>2. /\ csr'.mepc = csr.mepc /\ csr'.sepc = WordOf(pc)
        /\ csr'.mstatus = STrapStatus
    BY <2>1, PolledType, PolledFields DEF SavedForS, Csr
  <2>3. priv \in {PRIV_U, PRIV_S}
    BY <1>1 DEF Delegated, TypeOK, PRIV_S, PRIV_U
  <2>4. /\ mctx' = mctx
        /\ sctx' = {[pc |-> pc, priv |-> priv, ie |-> csr.mstatus.SIE]}
    BY <1>1 DEF Remember
  <2>5. MContextKept'
    BY <2>2, <2>4, StatusFields DEF MContextKept
  <2>6. SContextKept'
    <3> SUFFICES ASSUME NEW c \in sctx'
                 PROVE  /\ c.priv \in {PRIV_U, PRIV_S}
                        /\ csr'.sepc = WordOf(c.pc)
                        /\ csr'.mstatus.SPP = IF c.priv = PRIV_S THEN 1 ELSE 0
                        /\ csr'.mstatus.SPIE = c.ie
                        /\ ~csr'.mstatus.SIE
      BY DEF SContextKept
    <3>1. c.pc = pc /\ c.priv = priv /\ c.ie = csr.mstatus.SIE
      BY <2>4
    <3> QED BY <2>2, <2>3, <3>1, TrapSaves
  <2> QED BY <2>5, <2>6
<1>2. CASE ~Delegated(cause)
  <2>1. csr' = SavedForM(cause)
    BY <1>2 DEF EnterTrap
  <2>2. /\ csr'.sepc = csr.sepc /\ csr'.mepc = WordOf(pc)
        /\ csr'.mstatus = MTrapStatus
    BY <2>1, PolledType, PolledFields DEF SavedForM, Csr
  <2>3. /\ sctx' = sctx
        /\ mctx' = {[pc |-> pc, priv |-> priv, ie |-> csr.mstatus.MIE]}
    BY <1>2 DEF Remember
  <2>4. MContextKept'
    <3> SUFFICES ASSUME NEW c \in mctx'
                 PROVE  /\ csr'.mepc = WordOf(c.pc)
                        /\ csr'.mstatus.MPP = c.priv
                        /\ csr'.mstatus.MPIE = c.ie
                        /\ ~csr'.mstatus.MIE
      BY DEF MContextKept
    <3>1. c.pc = pc /\ c.priv = priv /\ c.ie = csr.mstatus.MIE
      BY <2>3
    <3> QED BY <2>2, <3>1, TrapSaves
  <2>5. SContextKept'
    BY <2>2, <2>3, StatusFields DEF SContextKept
  <2> QED BY <2>4, <2>5
<1> QED BY <1>1, <1>2

\* A write to any other register leaves the registers of a context alone.
LEMMA CsrWriteKeeps ==
  ASSUME NEW c \in Csr, NEW f
  PROVE  /\ f.csr \notin MContextCsrs =>
              /\ CsrWrite(c, f).mepc = c.mepc
              /\ CsrWrite(c, f).mstatus.MIE = c.mstatus.MIE
              /\ CsrWrite(c, f).mstatus.MPIE = c.mstatus.MPIE
              /\ CsrWrite(c, f).mstatus.MPP = c.mstatus.MPP
         /\ f.csr \notin SContextCsrs =>
              /\ CsrWrite(c, f).sepc = c.sepc
              /\ CsrWrite(c, f).mstatus.SIE = c.mstatus.SIE
              /\ CsrWrite(c, f).mstatus.SPIE = c.mstatus.SPIE
              /\ CsrWrite(c, f).mstatus.SPP = c.mstatus.SPP
<1>1. CASE f.csr = "sstatus"
  BY <1>1 DEF CsrWrite, Csr, Mstatus, SContextCsrs, MContextCsrs
<1>2. CASE f.csr = "mstatus"
  BY <1>2 DEF CsrWrite, Csr, Mstatus, SContextCsrs, MContextCsrs
<1>3. CASE f.csr \notin {"sstatus", "mstatus"}
  BY <1>3 DEF CsrWrite, Csr, SContextCsrs, MContextCsrs
<1> QED BY <1>1, <1>2, <1>3

\* Neither a return nor anything else the code does disturbs a context it does
\* not end.
LEMMA StepKeeps ==
  ASSUME IInv, [HNext]_hvars
  PROVE  MContextKept' /\ SContextKept'
<1> USE DEF IInv
<1>1. CASE TimerInterrupt /\ Remember(MCAUSE_IRQ_TIMER)
  BY <1>1, TrapKeeps DEF TimerInterrupt
<1>2. ASSUME NEW f \in Fetched, Exception(f), Remember(Cause(f))
      PROVE  MContextKept' /\ SContextKept'
  BY <1>2, TrapKeeps DEF Exception
<1>3. ASSUME NEW f \in Fetched, Mret(f), mctx' = {}, UNCHANGED sctx
      PROVE  MContextKept' /\ SContextKept'
  <2>1. csr'.sepc = csr.sepc /\ csr'.mstatus = MretStatus
    BY <1>3, PolledType, PolledFields DEF Mret, Csr
  <2> QED BY <1>3, <2>1, StatusFields DEF MContextKept, SContextKept
<1>4. ASSUME NEW f \in Fetched, Sret(f), sctx' = {}, UNCHANGED mctx
      PROVE  MContextKept' /\ SContextKept'
  <2>1. csr'.mepc = csr.mepc /\ csr'.mstatus = SretStatus
    BY <1>4, PolledType, PolledFields DEF Sret, Csr
  <2> QED BY <1>4, <2>1, StatusFields DEF MContextKept, SContextKept
<1>5. ASSUME NEW f \in Fetched, CsrInstr(f),
             mctx' = IF f.csr \in MContextCsrs THEN {} ELSE mctx,
             sctx' = IF f.csr \in SContextCsrs THEN {} ELSE sctx
      PROVE  MContextKept' /\ SContextKept'
  <2>1. csr' = CsrWrite(Polled, f)
    BY <1>5 DEF CsrInstr
  <2>2. MContextKept'
    BY <1>5, <2>1, PolledType, PolledFields, CsrWriteKeeps DEF MContextKept
  <2>3. SContextKept'
    BY <1>5, <2>1, PolledType, PolledFields, CsrWriteKeeps DEF SContextKept
  <2> QED BY <2>2, <2>3
<1>6. ASSUME NEW f \in Fetched, UNCHANGED <<mctx, sctx>>,
             Plain(f) \/ Jump(f) \/ SetTimer(f) \/ HostService(f) \/ Unhandled(f)
      PROVE  MContextKept' /\ SContextKept'
  <2>1. csr' = Polled
    BY <1>6 DEF Plain, Jump, SetTimer, HostService, Unhandled
  <2> QED BY <1>6, <2>1, PolledFields DEF MContextKept, SContextKept
<1>7. CASE UNCHANGED hvars
  BY <1>7 DEF hvars, MContextKept, SContextKept
<1> QED BY <1>1, <1>2, <1>3, <1>4, <1>5, <1>6, <1>7 DEF HNext

\* A step with history is a step of the hart.
LEMMA HistoryRefines == HSpec => Spec
<1>1. HInit => Init
  BY DEF HInit
<1>2. [HNext]_hvars => [Next]_vars
  BY DEF HNext, hvars, Next, vars, Step
<1> QED BY <1>1, <1>2, PTL DEF HSpec, Spec

\* At most one context of each level is remembered, and it is one the hart had.
THEOREM HistoryTypeCorrect == HSpec => []HTypeOK
<1> DEFINE Remembered == /\ mctx \in {{}} \cup {{c} : c \in Context}
                         /\ sctx \in {{}} \cup {{c} : c \in Context}
<1>1. HInit => Remembered
  BY DEF HInit
<1>2. ASSUME TypeOK, Remembered, [HNext]_hvars PROVE Remembered'
  <2>1. ASSUME NEW cause, Remember(cause) PROVE Remembered'
    <3>1. /\ [pc |-> pc, priv |-> priv, ie |-> csr.mstatus.SIE] \in Context
          /\ [pc |-> pc, priv |-> priv, ie |-> csr.mstatus.MIE] \in Context
      BY <1>2 DEF TypeOK, Csr, Mstatus, Context
    <3> QED BY <1>2, <2>1, <3>1 DEF Remember
  <2>2. CASE (mctx' = {} \/ mctx' = mctx) /\ (sctx' = {} \/ sctx' = sctx)
    BY <1>2, <2>2
  <2> QED BY <1>2, <2>1, <2>2 DEF HNext, hvars
<1>3. HSpec => []TypeOK
  BY HistoryRefines, TypeCorrect, PTL
<1>4. TypeOK /\ Remembered => HTypeOK
  BY DEF HTypeOK
<1> QED BY <1>1, <1>2, <1>3, <1>4, PTL DEF HSpec

-----------------------------------------------------------------------------
\* While a trap into M or S is outstanding, its registers hold the interrupted
\* context and interrupts of that level stay off, whatever the other levels do.
THEOREM ContextsAreKept == HSpec => []ContextsKept
<1>1. HInit => MContextKept /\ SContextKept
  BY DEF HInit, MContextKept, SContextKept
<1>2. (TypeOK /\ MContextKept /\ SContextKept) /\ [HNext]_hvars
        => (MContextKept /\ SContextKept)'
  BY StepKeeps DEF IInv
<1>3. HSpec => []TypeOK
  BY HistoryRefines, TypeCorrect, PTL
<1> QED BY <1>1, <1>2, <1>3, PTL DEF HSpec, ContextsKept

\* The conjunct for M that the runs check.
THEOREM MContextIsKept == HSpec => []MContextKept
  BY ContextsAreKept, PTL DEF ContextsKept

\* The conjunct for S that the runs check.
THEOREM SContextIsKept == HSpec => []SContextKept
  BY ContextsAreKept, PTL DEF ContextsKept

\* mret and sret restore the interrupted context as far as mepc and sepc can
\* hold it: level, interrupt enable, and the word of the interrupted pc.
THEOREM ReturnsRestore == HSpec => ReturnRestores
<1>1. TypeOK /\ ContextsKept /\ [HNext]_hvars =>
        [/\ MretStep => \A c \in mctx :
              pc' = WordOf(c.pc) /\ priv' = c.priv /\ csr'.mstatus.MIE = c.ie
         /\ SretStep => \A c \in sctx :
              pc' = WordOf(c.pc) /\ priv' = c.priv /\ csr'.mstatus.SIE = c.ie
        ]_hvars
  <2> SUFFICES ASSUME TypeOK, MContextKept, SContextKept
               PROVE  /\ MretStep => \A c \in mctx :
                          pc' = WordOf(c.pc) /\ priv' = c.priv /\ csr'.mstatus.MIE = c.ie
                      /\ SretStep => \A c \in sctx :
                          pc' = WordOf(c.pc) /\ priv' = c.priv /\ csr'.mstatus.SIE = c.ie
    BY DEF ContextsKept
  <2>1. ASSUME NEW f \in Fetched, Mret(f), NEW c \in mctx
        PROVE  pc' = WordOf(c.pc) /\ priv' = c.priv /\ csr'.mstatus.MIE = c.ie
    <3>1. csr'.mstatus = MretStatus /\ MretStatus.MIE = csr.mstatus.MPIE
      BY <2>1, PolledType DEF Mret, Csr, Mstatus, MretStatus, TypeOK
    <3> QED BY <2>1, <3>1 DEF Mret, Retire, MContextKept
  <2>2. ASSUME NEW f \in Fetched, Sret(f), NEW c \in sctx
        PROVE  pc' = WordOf(c.pc) /\ priv' = c.priv /\ csr'.mstatus.SIE = c.ie
    <3>1. csr'.mstatus = SretStatus /\ SretStatus.SIE = csr.mstatus.SPIE
      BY <2>2, PolledType DEF Sret, Csr, Mstatus, SretStatus, TypeOK
    <3> QED BY <2>2, <3>1 DEF Sret, Retire, SContextKept, PRIV_U, PRIV_S
  <2> QED BY <2>1, <2>2 DEF MretStep, SretStep
<1>2. HSpec => []TypeOK
  BY HistoryRefines, TypeCorrect, PTL
<1> QED BY <1>1, <1>2, ContextsAreKept, PTL DEF HSpec, ReturnRestores

\* No timer interrupt reaches M while an M trap is being handled.
THEOREM MHandlersUninterrupted == HSpec => MHandlerUninterrupted
<1>1. MContextKept => [mctx # {} /\ priv = PRIV_M => ~TimerInterrupt]_hvars
  BY DEF MContextKept, TimerInterrupt, IrqPending
<1> QED BY <1>1, MContextIsKept, PTL DEF HSpec, MHandlerUninterrupted

=============================================================================
