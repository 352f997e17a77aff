------------------------------- MODULE Session -------------------------------
(***************************************************************************)
(* A session with the emulator, from main: load the file, then run it to the *)
(* end or until --steps, or debug it: breakpoints, step and continue, each   *)
(* of which calls emu_step in a loop and stops it for reasons of its own.    *)
(* The hart is a parameter, Hart models it.                                  *)
(***************************************************************************)
EXTENDS Loader, FiniteSets

CONSTANTS
    BreakAddr,      \* addresses the user sets breakpoints at
    MaxBreakpoints, \* MAX_BREAKPOINTS
    ContinueLimit,  \* CONTINUE_LIMIT
    StepCounts,     \* the arguments of the s command
    StepBudgets,    \* the values of --steps, 0 for none
    Outcomes        \* Outcomes[a]: the pcs and states emu_step may leave from a

Outcome == [pc : 0 .. AddressSpace - 1, state : States]

ASSUME SessionAssumption ==
    /\ 0 \in BreakAddr /\ BreakAddr \subseteq 0 .. AddressSpace - 1
    /\ MaxBreakpoints \in Nat /\ ContinueLimit \in Nat
    /\ StepCounts \subseteq Nat /\ StepBudgets \subseteq Nat
    /\ Outcomes \in [0 .. AddressSpace - 1 -> SUBSET Outcome]

VARIABLES
    debug,          \* the -d option
    breakpoints,    \* the array; what lies from bp_count on is stale
    bp_count,
    mode,           \* which loop of main.c, debug.c and emu.c is active
    steps,          \* emu_step calls of that loop
    limit           \* its bound, 0 in emu_run for none

table  == <<breakpoints, bp_count>>
loop   == <<mode, steps, limit>>
svars  == <<lvars, debug, table, loop>>

Slot  == 0 .. MaxBreakpoints - 1
Loops == {"step", "continue", "run"}

\* The breakpoints bp_find can see.
Breakpoints == {breakpoints[i] : i \in 0 .. bp_count - 1}

\* Every variable has its type, and the table never counts past its array.
STypeOK ==
    /\ LTypeOK
    /\ debug \in BOOLEAN
    /\ breakpoints \in [Slot -> BreakAddr] /\ bp_count \in 0 .. MaxBreakpoints
    /\ mode \in {"loading", "prompt", "exit"} \cup Loops
    /\ steps \in Nat /\ limit \in Nat

SInit ==
    /\ LInit
    /\ debug \in BOOLEAN
    /\ breakpoints = [i \in Slot |-> 0] /\ bp_count = 0
    /\ mode = "loading" /\ steps = 0
    /\ limit \in StepBudgets

-----------------------------------------------------------------------------
\* main

Load == mode = "loading" /\ LNext /\ UNCHANGED <<debug, table, loop>>

LoadFailed ==
    /\ mode = "loading" /\ phase = "failed"
    /\ mode' = "exit"
    /\ UNCHANGED <<lvars, debug, table, steps, limit>>

Launch ==
    /\ mode = "loading" /\ phase = "loaded"
    /\ IF debug THEN mode' = "prompt" /\ limit' = 0
       ELSE mode' = "run" /\ UNCHANGED limit
    /\ UNCHANGED <<lvars, debug, table, steps>>

-----------------------------------------------------------------------------
\* The breakpoint commands of debug_repl

Found(a)  == a \in Breakpoints
IndexOf(a) == CHOOSE i \in 0 .. bp_count - 1 :
    /\ breakpoints[i] = a
    /\ \A j \in 0 .. i - 1 : breakpoints[j] # a

\* Mutant: an address is entered again.
SetBreakTwice(a) ==
    /\ mode = "prompt" /\ bp_count < MaxBreakpoints
    /\ breakpoints' = [breakpoints EXCEPT ![bp_count] = a]
    /\ bp_count' = bp_count + 1
    /\ UNCHANGED <<lvars, debug, loop>>

\* Mutant: the full table is not noticed.
SetBreakUnbounded(a) ==
    /\ mode = "prompt" /\ ~Found(a)
    /\ breakpoints' = [breakpoints EXCEPT ![bp_count] = a]
    /\ bp_count' = bp_count + 1
    /\ UNCHANGED <<lvars, debug, loop>>

\* bp_add
SetBreak(a) ==
    /\ mode = "prompt"
    /\ IF Found(a) \/ bp_count = MaxBreakpoints THEN UNCHANGED table
       ELSE /\ breakpoints' = [breakpoints EXCEPT ![bp_count] = a]
            /\ bp_count' = bp_count + 1
    /\ UNCHANGED <<lvars, debug, loop>>

\* Mutant: the entries behind the deleted one stay where they are.
DeleteBreakNoMove(a) ==
    /\ mode = "prompt"
    /\ IF Found(a) THEN bp_count' = bp_count - 1 ELSE UNCHANGED bp_count
    /\ UNCHANGED <<lvars, debug, breakpoints, loop>>

\* bp_del: the entries behind the deleted one move up.
DeleteBreak(a) ==
    /\ mode = "prompt"
    /\ IF Found(a)
       THEN /\ breakpoints' = [i \in Slot |->
                 IF IndexOf(a) <= i /\ i + 1 < bp_count THEN breakpoints[i + 1]
                 ELSE breakpoints[i]]
            /\ bp_count' = bp_count - 1
       ELSE UNCHANGED table
    /\ UNCHANGED <<lvars, debug, loop>>

ClearBreaks ==
    /\ mode = "prompt" /\ bp_count' = 0
    /\ UNCHANGED <<lvars, debug, breakpoints, loop>>

-----------------------------------------------------------------------------
\* step, continue and emu_run

Enter(m, n) ==
    /\ mode = "prompt"
    /\ mode' = m /\ steps' = 0 /\ limit' = n
    /\ UNCHANGED <<lvars, debug, table>>

StepCommand     == \E n \in StepCounts : Enter("step", n)
ContinueCommand == Enter("continue", ContinueLimit)
Quit            == Enter("exit", 0)

Leave(m) == mode' = m /\ steps' = 0 /\ limit' = 0

\* Mutant: the instructions are not counted.
AgainUncounted == UNCHANGED loop
Again == steps' = steps + 1 /\ UNCHANGED <<mode, limit>>

\* emu_step; it returns false only in a state that is not running.
Execute ==
    /\ \E o \in Outcomes[pc] : pc' = o.pc /\ state' = o.state
    /\ UNCHANGED <<file, phase, done, count, image, debug, table>>

\* Mutant: step does not look at the state of the machine.
StepAnyway ==
    mode = "step" /\ steps < limit /\ Execute /\ Again

StepOnce ==
    /\ mode = "step" /\ steps < limit /\ state = "RUNNING"
    /\ Execute /\ Again

StepEnds ==
    /\ mode = "step" /\ (steps >= limit \/ state # "RUNNING")
    /\ Leave("prompt")
    /\ UNCHANGED <<lvars, debug, table>>

\* Mutant: the breakpoint is looked up for the instruction just executed.
ContinueLate ==
    /\ mode = "continue" /\ state = "RUNNING" /\ steps < limit
    /\ Execute
    /\ IF state' # "RUNNING" \/ pc \in Breakpoints THEN Leave("prompt") ELSE Again

ContinueOnce ==
    /\ mode = "continue" /\ state = "RUNNING" /\ steps < limit
    /\ Execute
    /\ IF state' # "RUNNING" \/ pc' \in Breakpoints THEN Leave("prompt") ELSE Again

ContinueEnds ==
    /\ mode = "continue" /\ (state # "RUNNING" \/ steps >= limit)
    /\ Leave("prompt")
    /\ UNCHANGED <<lvars, debug, table>>

\* Without a bound nothing depends on the count.
RunOnce ==
    /\ mode = "run" /\ state = "RUNNING"
    /\ Execute
    /\ IF limit = 0 THEN UNCHANGED loop ELSE steps < limit /\ Again

\* Mutant: the bound counts from 1.
RunEndsEarly ==
    /\ mode = "run"
    /\ state # "RUNNING" \/ (limit > 0 /\ steps + 1 >= limit)
    /\ Leave("exit")
    /\ UNCHANGED <<lvars, debug, table>>

RunEnds ==
    /\ mode = "run"
    /\ state # "RUNNING" \/ (limit > 0 /\ steps >= limit)
    /\ Leave("exit")
    /\ UNCHANGED <<lvars, debug, table>>

-----------------------------------------------------------------------------
Command ==
    \/ \E a \in BreakAddr : SetBreak(a) \/ DeleteBreak(a)
    \/ ClearBreaks \/ StepCommand \/ ContinueCommand \/ Quit

Proceed ==
    \/ Load \/ LoadFailed \/ Launch
    \/ StepOnce \/ StepEnds \/ ContinueOnce \/ ContinueEnds
    \/ RunOnce \/ RunEnds

SNext == Command \/ Proceed

SSpec == SInit /\ [][SNext]_svars

\* The program goes on by itself; the user need not type anything.
FairSSpec == SSpec /\ WF_svars(Proceed)

-----------------------------------------------------------------------------
B == INSTANCE BreakpointSet WITH bps <- Breakpoints

(***************************************************************************)
(* The table behaves as a set of addresses: an address is in it from b to bd *)
(* or bc, once however often it was set, a delete takes out that address and *)
(* no other, and only a full table refuses one (bp_add, bp_del).             *)
(***************************************************************************)
TableIsASet ==
    /\ B!BSpec
    /\ [][\A a \in BreakAddr :
            /\ SetBreak(a) => B!Add(a)
            /\ DeleteBreak(a) => B!Remove(a)]_svars

(***************************************************************************)
(* continue is never about to execute an instruction that has a breakpoint,  *)
(* except as its first: it does not run through one (cmd_continue).          *)
(***************************************************************************)
BreakpointsStop ==
    (mode = "continue" /\ steps > 0) => pc \notin Breakpoints

(***************************************************************************)
(* Once the program has ended, no sequence of commands makes it execute      *)
(* again (cmd_step, cmd_continue, emu_run).                                  *)
(***************************************************************************)
EndIsFinal ==
    [][(phase = "loaded" /\ state # "RUNNING") => UNCHANGED <<pc, state>>]_svars

(***************************************************************************)
(* A loop is left for one of its reasons and no other: the program ended,    *)
(* exactly the instructions asked for were executed, or continue came to a   *)
(* breakpoint (cmd_step, cmd_continue, emu_run).                             *)
(***************************************************************************)
EndsForAReason ==
    [][(mode \in Loops /\ mode' # mode) =>
        (\/ state' # "RUNNING"
         \/ steps = limit /\ (mode = "run" => limit > 0)
         \/ mode = "continue" /\ pc' \in Breakpoints)]_svars

(***************************************************************************)
(* step and continue come back to the prompt, and a run with --steps ends,   *)
(* even if the program loops for ever.                                       *)
(***************************************************************************)
LoopsEnd ==
    /\ mode \in {"step", "continue"} ~> mode = "prompt"
    /\ (mode = "run" /\ limit > 0) ~> mode = "exit"

=============================================================================
