------------------------------ MODULE MCKernel ------------------------------
(***************************************************************************)
(* A kernel on the hart: boot code that installs both handlers and          *)
(* delegates, an M handler, an S handler, and user code of 16-bit and       *)
(* 32-bit instructions; and, with an entry of its own, a scheduler: an M      *)
(* handler that re-arms the timer and returns, M code that turns interrupts *)
(* on and off around a critical section, and user code that never yields    *)
(* and may itself move the deadline.                                        *)
(* An address may hold any of several instructions, so one model stands for *)
(* every program made by choosing among them.                               *)
(***************************************************************************)
EXTENDS TrapContext, TLC

CONSTANT Period     \* the longest deadline the scheduler sets

\* The handler takes at most two steps after it set the deadline and the next
\* poll comes before the interrupted instruction, so with a deadline of three
\* ticks or less nothing but the handler would ever run.
ASSUME PeriodAssumption == Period >= 4

Plain4  == [op |-> "plain", len |-> 4]
Plain2  == [op |-> "plain", len |-> 2]
Fault(c) == [op |-> "fault", cause |-> c]
Jmp(a)  == [op |-> "jump", target |-> a]
Op(name) == [op |-> name]
Ecall   == [op |-> "ecall", a7 |-> "exit"]
Ebreak2 == [op |-> "ebreak", len |-> 2]
SetPc(name, a)     == [op |-> "csrw", csr |-> name, to |-> a]
SetStatus(name, s) == [op |-> "csrw", csr |-> name, status |-> s]
SetDeleg(name, s)  == [op |-> "csrw", csr |-> name, codes |-> s]
SetBit(name, b)    == [op |-> "csrw", csr |-> name, bit |-> b]
ArmBy(len, n) == [op |-> "set_timer", len |-> len, on |-> TRUE, left |-> n]
Arm(n)  == ArmBy(4, n)
Disarm  == [op |-> "set_timer", len |-> 4, on |-> FALSE, left |-> 0]
Enabling(mie, sie, mpie, mpp) ==
    [SIE |-> sie, MIE |-> mie, SPIE |-> FALSE, MPIE |-> mpie, SPP |-> 0,
     MPP |-> mpp]
Status(sie, mpie, mpp) == Enabling(FALSE, sie, mpie, mpp)

MHandler == 40
SHandler == 48
User     == 56

KernelProgram ==
   ( 4 :> {SetPc("mtvec", MHandler)}
  @@ 8 :> {SetPc("stvec", SHandler)}
  @@ 12 :> {SetDeleg("medeleg", {}), SetDeleg("medeleg", {2, 8, 13})}
  @@ 16 :> {SetDeleg("mideleg", {}), SetDeleg("mideleg", {7})}
  @@ 20 :> {SetBit("mie", TRUE)}
  @@ 24 :> {SetStatus("mstatus", Status(TRUE, TRUE, p)) : p \in {0, 1}}
  @@ 28 :> {SetPc("mepc", User)}
  @@ 32 :> {Arm(2), Plain4}
  @@ 36 :> {Op("mret")}
  @@ MHandler     :> {Arm(2), Disarm, Ecall, SetPc("mepc", User + 2), Plain4}
  @@ MHandler + 4 :> {Op("mret"), Op("sret")}
  @@ SHandler     :> {Plain4, Ecall, SetStatus("sstatus", Status(TRUE, TRUE, 3)), Fault(2),
                     SetBit("satp", TRUE)}
  @@ SHandler + 4 :> {Op("sret"), SetPc("sepc", User + 2)}
  @@ User         :> {Plain2, Ecall, Fault(2), Fault(13), Op("mret"), Op("sfence")}
  @@ User + 2     :> {Jmp(User), Ebreak2}
  @@ User + 4     :> {Jmp(User), Ecall} )

Scheduler == 68
Handler   == 96
Task      == 112

SchedulerProgram ==
   ( Scheduler      :> {SetPc("mtvec", Handler)}
  @@ Scheduler + 4  :> {SetBit("mie", TRUE)}
  @@ Scheduler + 8  :> {Arm(n) : n \in 1 .. Period}
  @@ Scheduler + 12 :> {SetStatus("mstatus", Enabling(TRUE, FALSE, TRUE, 0)), Plain4}
  @@ Scheduler + 16 :> {SetStatus("mstatus", Enabling(FALSE, FALSE, TRUE, 0)),
                        Jmp(Scheduler + 12)}
  @@ Scheduler + 20 :> {SetPc("mepc", Task)}
  @@ Scheduler + 24 :> {Op("mret")}
  @@ Handler     :> {Arm(n) : n \in 4 .. Period}
  @@ Handler + 4 :> {Op("mret"), Plain4}
  @@ Handler + 8 :> {Op("mret")}
  @@ Task        :> {Plain2, Plain4}
  @@ Task + 2    :> {Jmp(Task), Jmp(Task + 4), ArmBy(2, Period)}
  @@ Task + 4    :> {Jmp(Task), Arm(Period)}
  @@ Task + 8    :> {Jmp(Task)} )

MCEntries == {4, Scheduler}
MCProgram == KernelProgram @@ SchedulerProgram @@ [a \in Addr |-> {Fault(2)}]

-----------------------------------------------------------------------------
\* The scheduler's user code makes progress although it is preempted: it retires an
\* instruction again and again, once M has handed over to it (mret of the boot
\* code).
UserRetires == priv = PRIV_U /\ \E f \in Fetched : Step(f) /\ ~Exception(f)

UserProgress ==
    pc = Scheduler /\ <>(priv = PRIV_U) => []<><<UserRetires>>_vars

=============================================================================
