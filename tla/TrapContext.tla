----------------------------- MODULE TrapContext -----------------------------
(***************************************************************************)
(* What software relies on when it takes a trap: the interrupted context    *)
(* (resume address, privilege level, interrupt enable) waits untouched in   *)
(* the trap registers until the handler returns, whatever runs in between.  *)
(* Two history variables remember, for M and for S, the context of the      *)
(* last trap that is still outstanding: taken into that level, not yet      *)
(* returned from, and not rewritten by software at that level or above.     *)
(***************************************************************************)
EXTENDS Hart

VARIABLES
    mctx,   \* outstanding M context: {} or {[pc, priv, ie]}
    sctx    \* outstanding S context

hvars == <<priv, pc, csr, timer, state, mctx, sctx>>

Context == [pc : Addr, priv : 0 .. 3, ie : BOOLEAN]

\* The registers a context lives in.
MContextCsrs == {"mepc", "mstatus"}
SContextCsrs == {"sepc", "mstatus", "sstatus"}

HTypeOK ==
    /\ TypeOK
    /\ mctx \in {{}} \cup {{c} : c \in Context}
    /\ sctx \in {{}} \cup {{c} : c \in Context}

HInit == Init /\ mctx = {} /\ sctx = {}

Remember(cause) ==
    IF Delegated(cause)
    THEN /\ sctx' = {[pc |-> pc, priv |-> priv, ie |-> csr.mstatus.SIE]}
         /\ UNCHANGED mctx
    ELSE /\ mctx' = {[pc |-> pc, priv |-> priv, ie |-> csr.mstatus.MIE]}
         /\ UNCHANGED sctx

HNext ==
    \/ TimerInterrupt /\ Remember(MCAUSE_IRQ_TIMER)
    \/ \E f \in Fetched :
         \/ Exception(f) /\ Remember(Cause(f))
         \/ Mret(f) /\ mctx' = {} /\ UNCHANGED sctx
         \/ Sret(f) /\ sctx' = {} /\ UNCHANGED mctx
         \/ /\ CsrInstr(f)
            /\ mctx' = IF f.csr \in MContextCsrs THEN {} ELSE mctx
            /\ sctx' = IF f.csr \in SContextCsrs THEN {} ELSE sctx
         \/ /\ Plain(f) \/ Jump(f) \/ SetTimer(f) \/ HostService(f) \/ Unhandled(f)
            /\ UNCHANGED <<mctx, sctx>>

HSpec == HInit /\ [][HNext]_hvars

\* As FairSpec: emu_run goes on stepping.
HFairSpec == HSpec /\ WF_hvars(HNext)

-----------------------------------------------------------------------------
\* While an M context is outstanding, mepc, MPP and MPIE hold it and M
\* interrupts stay off: no S-level trap, return or CSR write disturbs it
\* (the comment at the delegation branch of trap_raise).
MContextKept ==
    \A c \in mctx :
        /\ csr.mepc = WordOf(c.pc)
        /\ csr.mstatus.MPP = c.priv
        /\ csr.mstatus.MPIE = c.ie
        /\ ~csr.mstatus.MIE

\* The same of the S context, across M traps and returns that interrupt the
\* S handler: the two sets of trap registers are independent.
SContextKept ==
    \A c \in sctx :
        /\ c.priv \in {PRIV_U, PRIV_S}
        /\ csr.sepc = WordOf(c.pc)
        /\ csr.mstatus.SPP = IF c.priv = PRIV_S THEN 1 ELSE 0
        /\ csr.mstatus.SPIE = c.ie
        /\ ~csr.mstatus.SIE

ContextsKept == MContextKept /\ SContextKept

MretStep == \E f \in Fetched : Mret(f)
SretStep == \E f \in Fetched : Sret(f)

\* A return while a context is outstanding restores its privilege level and
\* interrupt enable, and resumes at the word that holds the interrupted
\* instruction (trap_mret, trap_sret).
ReturnRestores ==
    [][/\ MretStep => \A c \in mctx :
             pc' = WordOf(c.pc) /\ priv' = c.priv /\ csr'.mstatus.MIE = c.ie
       /\ SretStep => \A c \in sctx :
             pc' = WordOf(c.pc) /\ priv' = c.priv /\ csr'.mstatus.SIE = c.ie
      ]_hvars

\* An M handler is not interrupted before it returns or re-enables interrupts
\* itself (the comment on MIE <- 0 in trap_raise).
MHandlerUninterrupted ==
    [][mctx # {} /\ priv = PRIV_M => ~TimerInterrupt]_hvars

\* As trap.h states it: mepc is the address of the trapped instruction, for an
\* interrupt the one to run next, so a return resumes exactly there.
ReturnsToTrappedPc ==
    [][MretStep => \A c \in mctx : pc' = c.pc]_hvars

\* SIE is cleared on entry so that the S handler is not nested (csr.h calls SIE
\* the S interrupt enable): a delegated interrupt waits until it is set again.
SHandlerUninterrupted ==
    [][sctx # {} /\ priv = PRIV_S =>
         ~(TimerInterrupt /\ Delegated(MCAUSE_IRQ_TIMER))]_hvars

=============================================================================
