---------------------------- MODULE BreakpointSet ----------------------------
(***************************************************************************)
(* What the breakpoint table of the debugger promises: a set of at most      *)
(* MaxBreakpoints addresses, whatever array it is kept in.                   *)
(***************************************************************************)
EXTENDS Integers, FiniteSets

CONSTANTS BreakAddr, MaxBreakpoints

VARIABLE bps

Empty == bps = {}

Add(a) ==
    bps' = IF Cardinality(bps) < MaxBreakpoints THEN bps \cup {a} ELSE bps

Remove(a) == bps' = bps \ {a}

RemoveAll == bps' = {}

BNext == (\E a \in BreakAddr : Add(a) \/ Remove(a)) \/ RemoveAll

BSpec == Empty /\ [][BNext]_bps

=============================================================================
