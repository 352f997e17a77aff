----------------------------- MODULE Reservation -----------------------------
(***************************************************************************)
(* RV32A on one hart that several tasks share: physical memory, the         *)
(* reservation that lr.w makes and sc.w needs, and everything that writes   *)
(* memory or moves the hart to another task in between.  One action is one  *)
(* completed memory instruction of src/execute.c; an access that raises an  *)
(* exception changes none of these variables.  Addresses are physical, and  *)
(* inside memory: the UART and the CLINT hold no reservation.               *)
(***************************************************************************)
EXTENDS Integers

CONSTANTS
    MemSize,        \* bytes of memory, 2^20 in the program
    ByteValues,     \* number of values of a byte, 256 in the program
    Task,           \* the tasks the kernel multiplexes on the hart
    LinkAddrs,      \* where software uses lr.w
    NarrowAddrs,    \* where software uses sb and sh
    PteWords,       \* the words that the page walker may update
    KernelClears    \* the kernel executes an sc.w of its own at every switch

ASSUME MemSizeAssumption      == MemSize \in Nat /\ MemSize >= 4 /\ MemSize % 4 = 0
ASSUME ByteValuesAssumption   == ByteValues \in Nat \ {0}

Byte     == 0 .. ByteValues - 1
ByteAddr == 0 .. MemSize - 1
Word     == [0 .. 3 -> Byte]
\* Mutant: the alignment check of the atomics is missing.
AnyWordAddr == {a \in ByteAddr : a + 3 \in ByteAddr}
\* Where a word access raises no exception.
WordAddr == {a \in ByteAddr : a % 4 = 0}

\* The words that are ever reserved.
LinkWords == LinkAddrs \cap WordAddr

ASSUME AddrsAssumption ==
    LinkAddrs \subseteq ByteAddr /\ NarrowAddrs \subseteq ByteAddr /\ PteWords \subseteq WordAddr
ASSUME KernelClearsAssumption == KernelClears \in BOOLEAN

VARIABLES
    mem,                \* the bytes of memory
    reservation_valid,
    reservation_addr,
    task,               \* the task that runs
    linked              \* history: the word of each task's last lr.w, for as
                        \* long as nobody writes any part of it

machine == <<mem, reservation_valid, reservation_addr>>
vars    == <<machine, task, linked>>

TypeOK ==
    /\ mem \in [ByteAddr -> Byte]
    /\ reservation_valid \in BOOLEAN
    /\ reservation_addr \in ByteAddr
    /\ reservation_addr % 4 = 0
    /\ task \in Task
    /\ linked \in [Task -> SUBSET LinkWords]

\* emu_init; the ELF file has put any contents in memory.
MachineInit ==
    /\ mem \in [ByteAddr -> Byte]
    /\ reservation_valid = FALSE
    /\ reservation_addr = 0

Init ==
    /\ MachineInit
    /\ task \in Task
    /\ linked = [t \in Task |-> {}]

-----------------------------------------------------------------------------
\* The machine: what each instruction does to memory and reservation.

WordAt(a)        == [i \in 0 .. 3 |-> mem[a + i]]
Written(a, n, w) == [i \in ByteAddr |-> IF i \in a .. a + n - 1 THEN w[i - a] ELSE mem[i]]
\* Mutant: sc.w compares the address only.
ReservedAnyway(a) == reservation_addr = a
\* Mutant: any store takes the reservation away.
StillValidNever(a) == FALSE
Reserved(a)      == reservation_valid /\ reservation_addr = a

\* Mutant: a store does not look at the reservation.
StillValidAlways(a) == reservation_valid
\* What is left of the reservation after a store that starts at byte a.
StillValid(a) == reservation_valid /\ reservation_addr # a

LoadReserved(a) ==                          \* lr.w
    /\ reservation_valid' = TRUE
    /\ reservation_addr' = a
    /\ UNCHANGED mem

Write(a, n, w) ==                           \* sb, sh, sw, fsw, amo*.w
    /\ mem' = Written(a, n, w)
    /\ reservation_valid' = StillValid(a)
    /\ UNCHANGED reservation_addr

StoreConditional(a, w) ==                   \* sc.w
    /\ mem' = IF Reserved(a) THEN Written(a, 4, w) ELSE mem
    /\ reservation_valid' = FALSE
    /\ UNCHANGED reservation_addr

\* pte_update_ad of src/mmu.c writes memory below the reservation logic.
WalkerWrite(a, w) ==
    /\ mem' = Written(a, 4, w)
    /\ UNCHANGED <<reservation_valid, reservation_addr>>

-----------------------------------------------------------------------------
\* The tasks.

\* The links that survive a write to byte a.
LinkedExcept(a) == [t \in Task |-> linked[t] \ {a - (a % 4)}]

LR(a) ==
    /\ LoadReserved(a)
    /\ linked' = [linked EXCEPT ![task] = {a}]
    /\ UNCHANGED task

SC(a, w) ==
    /\ StoreConditional(a, w)
    /\ linked' = IF Reserved(a) THEN LinkedExcept(a) ELSE linked
    /\ UNCHANGED task

Store(a, n, w) ==
    /\ n < 4 => a \in NarrowAddrs
    /\ a % n = 0 /\ a + n <= MemSize
    /\ Write(a, n, w)
    /\ linked' = LinkedExcept(a)
    /\ UNCHANGED task

AMO(a, w) ==
    /\ Write(a, 4, w)
    /\ linked' = LinkedExcept(a)
    /\ UNCHANGED task

WalkerUpdate(a, w) ==
    /\ WalkerWrite(a, w)
    /\ linked' = LinkedExcept(a)
    /\ UNCHANGED task

\* The timer interrupt, the kernel and its mret.  trap_raise and trap_mret do
\* not touch the reservation: it is gone only if the kernel makes it so.
Switch(t) ==
    /\ t # task
    /\ task' = t
    /\ reservation_valid' = (reservation_valid /\ ~KernelClears)
    /\ UNCHANGED <<mem, reservation_addr, linked>>

Next ==
    \/ \E a \in LinkWords : LR(a)
    \/ \E a \in WordAddr, w \in Word : SC(a, w)
    \/ \E a \in ByteAddr, n \in {1, 2, 4}, w \in Word : Store(a, n, w)
    \/ \E a \in WordAddr, w \in Word : AMO(a, w)
    \/ \E a \in PteWords, w \in Word : WalkerUpdate(a, w)
    \/ \E t \in Task : Switch(t)

Spec == Init /\ [][Next]_vars

-----------------------------------------------------------------------------
\* An sc.w can only succeed for the task that made the reservation, and only if
\* nobody has written any part of the word since ("a write in between makes the
\* SC fail", the comment on RV32A in execute.c).
ReservationFresh == reservation_valid => reservation_addr \in linked[task]

=============================================================================
