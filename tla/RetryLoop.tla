------------------------------ MODULE RetryLoop ------------------------------
(***************************************************************************)
(* What tasks build on the reservation: a shared counter that some update    *)
(* with a loop of lr.w, a store to their own data, and sc.w, and some with   *)
(* amoadd.w, while the kernel switches between them at any instruction.      *)
(***************************************************************************)
EXTENDS Reservation

CONSTANTS
    Counter,    \* the address of the shared word
    Scratch     \* the address of a word the tasks store to inside the loop

ASSUME RetryLoopAssumption ==
    Counter \in LinkWords /\ Scratch \in WordAddr /\ Scratch # Counter

VARIABLES
    at,         \* at[t]: the next instruction of task t: "lr", "sw" or "sc"
    val,        \* val[t]: the register that lr.w loaded
    total       \* increments completed so far, modulo the size of a word

loop  == <<at, val, total>>
rvars == <<vars, loop>>

-----------------------------------------------------------------------------
\* memory_read32 and memory_write32: little endian.
WordSize    == ByteValues * ByteValues * ByteValues * ByteValues
NumberOf(w) == w[0] + ByteValues * (w[1] + ByteValues * (w[2] + ByteValues * w[3]))
\* n without its last k bytes.
Shifted(n, k) ==
    IF k = 0 THEN n
    ELSE IF k = 1 THEN n \div ByteValues
    ELSE IF k = 2 THEN (n \div ByteValues) \div ByteValues
    ELSE ((n \div ByteValues) \div ByteValues) \div ByteValues
\* Mutant: the bytes are not cut to their width.
WordForUncut(n) == [i \in 0 .. 3 |-> Shifted(n, i)]
WordFor(n)  == [i \in 0 .. 3 |-> Shifted(n, i) % ByteValues]

Plus1(n) == (n + 1) % WordSize

RTypeOK ==
    /\ TypeOK
    /\ at \in [Task -> {"lr", "sw", "sc"}]
    /\ val \in [Task -> 0 .. WordSize - 1]
    /\ total \in 0 .. WordSize - 1

RInit ==
    /\ Init
    /\ mem = [i \in ByteAddr |-> 0]
    /\ at = [t \in Task |-> "lr"]
    /\ val = [t \in Task |-> 0]
    /\ total = 0

LoadCounter ==
    /\ at[task] = "lr"
    /\ LR(Counter)
    /\ val' = [val EXCEPT ![task] = NumberOf(WordAt(Counter))]
    /\ at' = [at EXCEPT ![task] = "sw"]
    /\ UNCHANGED total

StoreScratch ==
    /\ at[task] = "sw"
    /\ Store(Scratch, 4, WordFor(1))
    /\ at' = [at EXCEPT ![task] = "sc"]
    /\ UNCHANGED <<val, total>>

TryIncrement ==
    /\ at[task] = "sc"
    /\ SC(Counter, WordFor(Plus1(val[task])))
    /\ total' = IF Reserved(Counter) THEN Plus1(total) ELSE total
    /\ at' = [at EXCEPT ![task] = "lr"]
    /\ UNCHANGED val

AmoAdd ==
    /\ at[task] = "lr"
    /\ AMO(Counter, WordFor(Plus1(NumberOf(WordAt(Counter)))))
    /\ total' = Plus1(total)
    /\ UNCHANGED <<at, val>>

Run == LoadCounter \/ StoreScratch \/ TryIncrement \/ AmoAdd

Preempt == (\E t \in Task : Switch(t)) /\ UNCHANGED loop

RNext == Run \/ Preempt

RSpec == RInit /\ [][RNext]_rvars

\* emu_run executes one instruction after the other; nothing is assumed about
\* how often the kernel switches.
RFairSpec == RSpec /\ WF_rvars(Run)

-----------------------------------------------------------------------------
\* No increment is lost: the word in memory counts the successful sc.w and the
\* amoadd.w of all tasks ("a write in between makes the SC fail", execute.c).
NoLostUpdate == NumberOf(WordAt(Counter)) = total

\* A task that is left alone gets its increment through: an sc.w fails only if
\* another task ran since its lr.w, never because of the task's own stores.
UndisturbedProgress ==
    <>[][~Preempt]_rvars => []<><<total' # total>>_rvars

=============================================================================
