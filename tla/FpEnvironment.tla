---------------------------- MODULE FpEnvironment ----------------------------
(***************************************************************************)
(* The host's floating-point environment (<fenv.h>) around the operations of *)
(* src/fpu.c.  Fpu takes an operation as a function of its operands and of a  *)
(* rounding mode, with flags of its own.  The host has one mode and one set   *)
(* of flags for the whole process: the code sets the mode and clears the      *)
(* flags before an operation, puts the mode back and reads the flags after    *)
(* it, and leaves them set.  Here both are state, and the contract of Fpu is   *)
(* what has to come out.                                                    *)
(***************************************************************************)
EXTENDS Fpu

CONSTANTS
    HostMode,       \* the rounding mode the emulator is started in
    Instructions,   \* what software executes: see Instruction
    FrmWrites,      \* what it writes to frm, and to fflags
    FlagWrites

HostModes == {"TONEAREST", "TOWARDZERO", "DOWNWARD", "UPWARD"}

\* An instruction with its operands: a and b from f registers, x from an
\* integer register.
Instruction == [f7 : 0 .. 127, rs2 : 0 .. 31, f3 : 0 .. 7, a : Words, b : Words, x : Words]
NoInstruction == [f7 |-> 0 - 1]

ASSUME HostModeAssumption     == HostMode \in HostModes
ASSUME InstructionsAssumption == Instructions \subseteq Instruction
ASSUME WritesAssumption       == FrmWrites \subseteq Nat /\ FlagWrites \subseteq SUBSET Flags

VARIABLES
    host,           \* the environment: rounding mode and exception flags
    frm, fflags,    \* the CSRs
    rd,             \* the result of the last operation
    last            \* history: that operation, NoInstruction after a CSR write

vars == <<host, frm, fflags, rd, last>>

Init ==
    /\ host = [round |-> HostMode, flags |-> {}]
    /\ frm = 0 /\ fflags = {} /\ rd = 0
    /\ last = NoInstruction

-----------------------------------------------------------------------------
\* Mutant: the flags of what the host did before are still there.
EnteredUncleared(rm) == [round |-> host_rounding(rm, frm), flags |-> host.flags]

\* feclearexcept and fesetround before the operation.
Entered(rm) == [round |-> host_rounding(rm, frm), flags |-> {}]

\* Mutant: the mode of the operation stays.
NotRestored(h) == h

\* fesetround(old_rm) after it.
Restored(h) == [h EXCEPT !.round = host.round]

\* The operation was done in the environment h and raised those flags there; more
\* is what the code adds to fflags itself (fp_collect_flags).
Finished(h, raised, more, bits) ==
    LET after == [h EXCEPT !.flags = @ \cup raised] IN
    /\ host' = Restored(after)
    /\ fflags' = fflags \cup after.flags \cup more
    /\ rd' = bits

FpArith(w) ==
    /\ w.f7 \in {0, 4, 8, 12, 44}
    /\ w.f7 = 44 => w.rs2 = 0
    /\ LET h == Entered(w.f3) IN
       \E r \in HostArith(w.f7, h.round, w.a, IF w.f7 = 44 THEN 0 ELSE w.b) :
          Finished(h, r.flags, {}, IF bits_is_nan(r.bits) THEN FP_CANON_NAN ELSE r.bits)

\* The conversion by the host: that of Fpu in a static mode.
StaticMode(mode) == CHOOSE rm \in 0 .. 3 : host_rounding(rm, 0) = mode

IntToFloat(w) ==
    /\ w.f7 = 104 /\ w.rs2 <= 1
    /\ LET h == Entered(w.f3)
           r == fp_int_to_float(StaticMode(h.round), 0, w.x, w.rs2 = 1) IN
       Finished(h, r.flags, {}, r.bits)

\* The number is rounded; all others are answered before the environment is touched.
IsRoundedBy(a, is_unsigned) ==
    /\ ~bits_is_nan(a)
    /\ IF is_unsigned THEN Order(a) > 0 /\ a < Power(XLEN)
       ELSE IF sign(a) = 0 THEN a < Power(XLEN - 1)
       ELSE a % Half <= Power(XLEN - 1)

\* nearbyintf raises nothing: NX is found by comparing the results.
FloatToInt(w) ==
    /\ w.f7 = 96 /\ w.rs2 <= 1
    /\ IsRoundedBy(w.a, w.rs2 = 1)
    /\ LET h == Entered(w.f3)
           n == Nearby(h.round, w.a) IN
       Finished(h, {}, Raised(FP_NX, ~IsInteger(w.a)), Wrap(IF sign(w.a) = 1 THEN -n ELSE n))

\* The conversion to double raises the host's invalid flag for a signaling NaN,
\* if the compiler has not found it superfluous; it is not collected.
FloatToIntAtOnce(w) ==
    /\ w.f7 = 96 /\ w.rs2 <= 1
    /\ ~IsRoundedBy(w.a, w.rs2 = 1)
    /\ \E left \in {{}, Raised(FP_NV, bits_is_snan(w.a))} :
         host' = [host EXCEPT !.flags = @ \cup left]
    /\ LET r == fp_float_to_int(w.f3, frm, w.a, w.rs2 = 1) IN
       rd' = r.bits /\ fflags' = fflags \cup r.flags

\* Signs, minimum, comparison, class and moves leave the environment alone.
Exact(w) ==
    /\ w.f7 \in {16, 20, 80, 112, 120}
    /\ \E r \in ToFreg(w, frm, w.a, w.b, w.x) \cup ToReg(w, frm, w.a, w.b) :
         rd' = r.bits /\ fflags' = fflags \cup r.flags
    /\ UNCHANGED host

\* fpu_execute.
Execute(w) ==
    /\ FpArith(w) \/ IntToFloat(w) \/ FloatToInt(w) \/ FloatToIntAtOnce(w) \/ Exact(w)
    /\ last' = w
    /\ UNCHANGED frm

-----------------------------------------------------------------------------
FrmOf(v) == v % 8

\* csr_write to fflags, frm and fcsr.
WriteCsr(new_frm, new_flags) ==
    /\ frm' = new_frm /\ fflags' = new_flags
    /\ last' = NoInstruction
    /\ UNCHANGED <<host, rd>>

Next ==
    \/ \E w \in Instructions : Execute(w)
    \/ \E flags \in FlagWrites : WriteCsr(frm, flags)
    \/ \E v \in FrmWrites : WriteCsr(FrmOf(v), fflags)
    \/ \E v \in FrmWrites, flags \in FlagWrites : WriteCsr(FrmOf(v), flags)

Spec == Init /\ [][Next]_vars

-----------------------------------------------------------------------------
\* Every operation is its own: its result is the one Fpu gives for its operands and
\* its rounding mode, and it adds to fflags the flags it raises when it runs alone,
\* whatever modes were used and whatever flags were left in the host, or cleared in
\* fflags, by the operations before it.  It leaves the process rounding as it did
\* when it was started: no rounding mode of the guest reaches the host's own code.
OperationsAreTheirOwn ==
    [][/\ host'.round = HostMode
       /\ last' # NoInstruction =>
            \E r \in ToFreg(last', frm, last'.a, last'.b, last'.x)
                       \cup ToReg(last', frm, last'.a, last'.b) :
               rd' = r.bits /\ fflags' = fflags \cup r.flags]_vars

=============================================================================
