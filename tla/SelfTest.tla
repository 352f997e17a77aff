------------------------------ MODULE SelfTest ------------------------------
(***************************************************************************)
(* Programs that try what the README and the comments say of the machine,     *)
(* one after the other, each on a machine of its own.  A program exits with 0  *)
(* if it found what it expects.                                             *)
(***************************************************************************)
EXTENDS FpFirmware

VARIABLES tried, failed     \* the programs that have run, those of them that failed

\* exit(0) if registers a and b are equal, exit(1) if not.
exit_equal(a, b) ==
    <<li32(A7, 93), li32(A0, 0), beq(a, b, "same"), li32(A0, 1), Label("same"), ecall>>

\* fmax(x, y) is y, for x < y.
try_fmax(x, y) ==
    operands(x, y) \o <<fp(20, 2, 1, 1, 3), fmv_x_w(T1, 3)>> \o exit_equal(T1, T0)

\* fmin(x, y) is x.
try_fmin(x, y) ==
    operands(y, x) \o <<fp(20, 2, 1, 0, 3), fmv_x_w(T1, 3)>> \o exit_equal(T1, T0)

\* FENCE is an instruction of RV32I, and does nothing.
try_fence == <<Word(enc_i(255, 0, 0, 0, OP_FENCE))>> \o exit_equal(0, 0)

\* A write to mcycle can be read back.
try_csr(a) == <<li(T0, 7), csrw(a, T0), csrr(T1, a)>> \o exit_equal(T0, T1)

\* A deadline ahead of mtime withdraws the pending timer interrupt.
try_rearm ==
    <<li32(S0, CLINT_MTIME_LO), li32(S1, CLINT_MTIMECMP_LO),
      li(T1, 1), sw(T1, S1, 0), Label("pending"), csrr(T2, CSR_MIP), beq(T2, 0, "pending"),
      lw(T1, S0, 0), addi(T1, T1, 100), sw(T1, S1, 0), csrr(T2, CSR_MIP)>>
    \o exit_equal(T2, 0)

\* start: the ticks before the program is loaded.
Try(name, items, start) == [Booted(name, <<>>, items, 60) EXCEPT !.mtime = start]

\* Each claim is tried where the program keeps it as well, where there is such a case.
Tries(x, y) ==
    {Try("fmin", try_fmin(x, y), 0), Try("fmax", try_fmax(x, y), 0),
     Try("fence", try_fence, 0),
     Try("mscratch", try_csr(832), 0), Try("mcycle", try_csr(2816), 0),
     Try("rearm", try_rearm, 0), Try("rearm later", try_rearm, Size)}

tvars == <<vars, tried, failed>>

TInit == Init /\ tried = {} /\ failed = {}

Succeeded == state = "HALTED" /\ exit_code = 0

\* The program has ended: the next one is loaded into a new machine.
Another ==
    /\ ~Going /\ boot \notin tried
    /\ tried' = tried \cup {boot}
    /\ failed' = IF Succeeded THEN failed ELSE failed \cup {boot.name}
    /\ \/ tried' = Boots /\ UNCHANGED vars
       \/ /\ tried' # Boots
          /\ boot' = CHOOSE b \in Boots : b \notin tried'
          /\ regs' = [r \in Registers |-> 0]
          /\ fregs' = [r \in Registers |-> 0]
          /\ fflags' = {}
          /\ csr' = [a \in HeldCsrs |-> 0]
          /\ pc' = boot'.entry
          /\ state' = "RUNNING"
          /\ exit_code' = 0
          /\ mem' = [a \in {} |-> 0]
          /\ mtime' = boot'.mtime
          /\ mtimecmp' = 0
          /\ mcycle' = 0
          /\ out' = <<>>

Running == Step /\ UNCHANGED <<tried, failed>>

TNext == Running \/ Another

TSpec == TInit /\ [][TNext]_tvars

\* Every claim that is tried holds: fmin and fmax return the lesser and the greater
\* number (README.md:16), all of RV32I is executed (execute.c:5), mcycle is a CSR
\* (README.md:22), and the pending bit of the timer goes away when mtimecmp is
\* written further into the future (trap.c:103-104).
NoTestFails == tried = Boots => failed = {}

=============================================================================
