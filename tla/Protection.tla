----------------------------- MODULE Protection -----------------------------
(***************************************************************************)
(* What the privilege architecture promises, without its registers: every   *)
(* level owns some state; a level changes only what it or a lower level     *)
(* owns, and privilege rises only by a trap, which goes to the address the  *)
(* target level chose and records who was interrupted.                      *)
(***************************************************************************)
EXTENDS Integers

CONSTANTS Addr, MOwned, SOwned

VARIABLES
    mode,       \* the running level: 0 (U) .. 3 (M)
    pc,
    mvector,    \* where M and S want their traps, 0 if nowhere
    svector,
    msaved,     \* the level the last trap to M interrupted
    ssaved,     \* the same of S
    mowned,     \* the rest of what M owns
    sowned      \* the rest of what S owns

S == 1
M == 3

vars == <<mode, pc, mvector, svector, msaved, ssaved, mowned, sowned>>

Init ==
    /\ mode = M
    /\ pc \in Addr
    /\ mvector = 0 /\ svector = 0 /\ msaved = 0 /\ ssaved = 0
    /\ mowned \in MOwned /\ sowned \in SOwned

\* Anything a level does by itself, returns to a lower level included.
Run ==
    /\ mode' \in 0 .. mode
    /\ pc' \in Addr
    /\ mvector' \in Addr /\ svector' \in Addr
    /\ msaved' \in 0 .. 3 /\ ssaved' \in 0 .. 1
    /\ mowned' \in MOwned /\ sowned' \in SOwned
    /\ mode < M => UNCHANGED <<mvector, msaved, mowned>>
    /\ mode < S => UNCHANGED <<svector, ssaved, sowned>>

TrapToS ==
    /\ mode <= S /\ mode' = S
    /\ svector # 0 /\ pc' = svector
    /\ ssaved' = mode
    /\ sowned' \in SOwned
    /\ UNCHANGED <<mvector, svector, msaved, mowned>>

TrapToM ==
    /\ mode' = M
    /\ mvector # 0 /\ pc' = mvector
    /\ msaved' = mode
    /\ mowned' \in MOwned
    /\ UNCHANGED <<mvector, svector, ssaved, sowned>>

Next == Run \/ TrapToS \/ TrapToM

Spec == Init /\ [][Next]_vars

=============================================================================
