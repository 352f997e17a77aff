--------------------------- MODULE HartProtection ---------------------------
(***************************************************************************)
(* The hart implements Protection.  The refinement mapping sorts the        *)
(* registers by the level that owns them; mip is the timer's and belongs to *)
(* no level.                                                                *)
(***************************************************************************)
EXTENDS Hart

MOwnedCsrs ==
    [mepc : Addr, mcause : Causes, mie : BOOLEAN,
     medeleg : SUBSET ExcCodes, mideleg : SUBSET ExcCodes,
     MIE : BOOLEAN, MPIE : BOOLEAN]

SOwnedCsrs ==
    [sepc : Addr, scause : Causes, satp : BOOLEAN,
     SIE : BOOLEAN, SPIE : BOOLEAN]

MOwnedOf(c) ==
    [mepc |-> c.mepc, mcause |-> c.mcause, mie |-> c.mie,
     medeleg |-> c.medeleg, mideleg |-> c.mideleg,
     MIE |-> c.mstatus.MIE, MPIE |-> c.mstatus.MPIE]

SOwnedOf(c) ==
    [sepc |-> c.sepc, scause |-> c.scause, satp |-> c.satp,
     SIE |-> c.mstatus.SIE, SPIE |-> c.mstatus.SPIE]

P == INSTANCE Protection WITH
        mode <- priv, mvector <- csr.mtvec, svector <- csr.stvec,
        msaved <- csr.mstatus.MPP, ssaved <- csr.mstatus.SPP,
        mowned <- MOwnedOf(csr), sowned <- SOwnedOf(csr),
        MOwned <- MOwnedCsrs, SOwned <- SOwnedCsrs

\* Software below M cannot touch what M owns, software below S cannot touch
\* what S owns, and the privilege level rises only through trap_raise, to the
\* installed handler, with the interrupted level in MPP or SPP.
ImplementsProtection == P!Spec

=============================================================================
