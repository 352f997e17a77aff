-------------------------------- MODULE Sv32 --------------------------------
(***************************************************************************)
(* Address translation: the two-level page walk of src/mmu.c, with its       *)
(* permission checks and the accessed and dirty bits it writes, and the     *)
(* fetches, loads and stores of three privilege levels that go through it.  *)
(* Page tables are ordinary memory, so every word is a page table entry and *)
(* software can write any word it can reach, the tables in use included.    *)
(*                                                                         *)
(* Accesses are aligned (src/execute.c refuses the others first), so memory *)
(* is addressed by the word.  A page and a table have Fanout words.  The    *)
(* UART, the CLINT and the last word below 2^32, whose bounds check wraps,   *)
(* lie outside memory and are not modelled.  An emu_step is a Fetch and then *)
(* at most one Load or Store, or a trap; the handlers are installed, so that *)
(* the emulator does not stop.                                              *)
(***************************************************************************)
EXTENDS Integers

CONSTANTS
    Fanout,     \* entries of a table and words of a page, 1024 in the program
    MemPages,   \* pages of physical memory, 256 in the program
    Ppn,        \* the page numbers in use, 22 bits in the program
    Roots,      \* the page numbers software writes to satp
    Images,     \* what emu_load_elf may leave in memory
    StoreWords  \* StoreWords[a]: what software may store to physical word a

PRIV_U == 0
PRIV_S == 1
PRIV_M == 3

EXC_INST_ACCESS      == 1
EXC_LOAD_ACCESS      == 5
EXC_STORE_ACCESS     == 7
EXC_INST_PAGE_FAULT  == 12
EXC_LOAD_PAGE_FAULT  == 13
EXC_STORE_PAGE_FAULT == 15
NoFault              == -1

\* Mutant: the code of a page fault is computed from the kind of access.
fault_cause_counted(acc) == CASE acc = "fetch" -> EXC_INST_PAGE_FAULT
                              [] acc = "load"  -> EXC_INST_PAGE_FAULT + 1
                              [] acc = "store" -> EXC_INST_PAGE_FAULT + 2
fault_cause(acc) == CASE acc = "fetch" -> EXC_INST_PAGE_FAULT
                      [] acc = "load"  -> EXC_LOAD_PAGE_FAULT
                      [] acc = "store" -> EXC_STORE_PAGE_FAULT

Access == {"fetch", "load", "store"}

Index     == 0 .. Fanout - 1
VirtAddr  == [vpn1 : Index, vpn0 : Index, off : Index]
PageSpace == Fanout * Fanout            \* pages of the 32-bit address space
PhysAddr  == 0 .. MemPages * Fanout - 1

Pte == [V : BOOLEAN, R : BOOLEAN, W : BOOLEAN, X : BOOLEAN, U : BOOLEAN,
        A : BOOLEAN, D : BOOLEAN, ppn : Ppn]

ASSUME FanoutAssumption   == Fanout \in Nat \ {0}
ASSUME MemPagesAssumption == MemPages \in 1 .. PageSpace
ASSUME PpnAssumption      == Ppn \subseteq Nat /\ 0 \in Ppn /\ Roots \subseteq Ppn
ASSUME ImagesAssumption   == Images \subseteq [PhysAddr -> Pte]
ASSUME StoreWordsAssumption == \A a \in PhysAddr : StoreWords[a] \subseteq Pte

VARIABLES
    mem,        \* physical memory, one entry a word
    satp,       \* MODE and PPN
    priv,
    sum,        \* mstatus.SUM
    cause,      \* the exception the last access raised
    granted,    \* history: what U could write when it was last entered, and
    kept,       \*   the rest of memory then, without A and D; {} outside U
    used, dirty \* history: entries that translated an access, or a store,
                \*   since software last wrote them

hart    == <<satp, priv, sum, cause>>
history == <<granted, kept, used, dirty>>
vars    == <<mem, hart, history>>

-----------------------------------------------------------------------------
\* The walk.

InMemory(a) == a \in PhysAddr

\* PTE_PA and satp.PPN << 12: page numbers are shifted into 32 bits.
Frame(ppn)        == ppn % PageSpace
TableWord(ppn, i) == Frame(ppn) * Fanout + i

IsLeaf(p)         == p.R \/ p.X
Valid(m, a)       == InMemory(a) /\ m[a].V
FlatAddr(va)      == (va.vpn1 * Fanout + va.vpn0) * Fanout + va.off
RootWord(va)      == TableWord(satp.ppn, va.vpn1)

\* Word a is the leaf of va: in the root table, mapping an aligned large page,
LargeLeaf(m, va, a) ==
    /\ a = RootWord(va)
    /\ Valid(m, a) /\ IsLeaf(m[a])
    /\ m[a].ppn % Fanout = 0

\* or in the table that a root entry points to.
SmallLeaf(m, va, a) ==
    LET root == RootWord(va) IN
    /\ Valid(m, root) /\ ~IsLeaf(m[root])
    /\ a = TableWord(m[root].ppn, va.vpn0)
    /\ Valid(m, a) /\ IsLeaf(m[a])

Leaves(m, va) == {a \in PhysAddr : LargeLeaf(m, va, a) \/ SmallLeaf(m, va, a)}

\* Mutant: the U bit is not looked at.
pte_allows_any(p, acc, level) ==
    /\ p.W => p.R
    /\ CASE acc = "fetch" -> p.X [] acc = "load" -> p.R [] acc = "store" -> p.W
pte_allows(p, acc, level) ==
    /\ p.W => p.R
    /\ level = PRIV_U => p.U
    /\ level = PRIV_S /\ p.U => acc # "fetch" /\ sum
    /\ CASE acc = "fetch" -> p.X [] acc = "load" -> p.R [] acc = "store" -> p.W

\* Mutant: an entry that has A is not written again.
MarkedOnce(m, a, acc) ==
    IF m[a].A THEN m ELSE [m EXCEPT ![a].A = TRUE, ![a].D = @ \/ acc = "store"]
\* pte_update_ad.
Marked(m, a, acc) == [m EXCEPT ![a].A = TRUE, ![a].D = @ \/ acc = "store"]

Target(m, va, a) ==
    LET frame == Frame(m[a].ppn) * Fanout
    IN  IF LargeLeaf(m, va, a) THEN frame + va.vpn0 * Fanout + va.off
                               ELSE frame + va.off

\* mmu_translate: the physical address and the memory it leaves behind, and no
\* result if it reports a page fault.
Translate(m, va, acc) ==
    IF priv = PRIV_M \/ ~satp.mode THEN {[pa |-> FlatAddr(va), mem |-> m, leaf |-> {}]}
    ELSE {[pa |-> Target(m, va, a), mem |-> Marked(m, a, acc), leaf |-> {a}] :
            a \in {b \in Leaves(m, va) : pte_allows(m[b], acc, priv)}}

-----------------------------------------------------------------------------
\* Who may write what.

\* The words that the tables as they are grant to U for writing: those of the
\* pages whose entries have U and W.
Grants(p) == p.U /\ p.R /\ p.W
GrantedAt(va) == {Target(mem, va, a) : a \in {b \in Leaves(mem, va) : Grants(mem[b])}}
UserWritable ==
    IF satp.mode THEN PhysAddr \cap UNION {GrantedAt(va) : va \in VirtAddr} ELSE PhysAddr

\* The words that a walk may read.
RootTable == {TableWord(satp.ppn, i) : i \in Index} \cap PhysAddr
Tables ==
    RootTable \cup
    ({TableWord(mem[r].ppn, i) : r \in {t \in RootTable : mem[t].V /\ ~IsLeaf(mem[t])},
                                 i \in Index} \cap PhysAddr)

Plain(p) == [p EXCEPT !.A = FALSE, !.D = FALSE]

\* What is remembered when the hart enters U: nothing if the kernel has mapped
\* its tables writable, for then U may do anything.
Entered ==
    IF Tables \cap UserWritable = {}
    THEN /\ granted' = {UserWritable}
         /\ kept' = {[a \in PhysAddr \ UserWritable |-> Plain(mem[a])]}
    ELSE granted' = {} /\ kept' = {}

-----------------------------------------------------------------------------
\* The accesses.

Init ==
    /\ mem \in Images
    /\ satp = [mode |-> FALSE, ppn |-> 0]
    /\ priv = PRIV_M
    /\ sum = FALSE
    /\ cause = NoFault
    /\ granted = {} /\ kept = {} /\ used = {} /\ dirty = {}

\* trap_raise, into M or, if it is delegated, into S.
Raise(code) ==
    /\ cause' = code
    /\ priv' \in IF priv <= PRIV_S THEN {PRIV_S, PRIV_M} ELSE {PRIV_M}
    /\ granted' = {} /\ kept' = {}
    /\ UNCHANGED <<satp, sum>>

\* The instruction completes.
Complete == cause' = NoFault /\ UNCHANGED <<satp, priv, sum, granted, kept>>

Load(va) ==
    \E t \in Translate(mem, va, "load") :
        /\ mem' = t.mem
        /\ used' = used \cup t.leaf
        /\ UNCHANGED dirty
        /\ IF InMemory(t.pa) THEN Complete ELSE Raise(EXC_LOAD_ACCESS)

Store(va) ==
    \E t \in Translate(mem, va, "store") :
        IF InMemory(t.pa)
        THEN /\ \E w \in StoreWords[t.pa] : mem' = [t.mem EXCEPT ![t.pa] = w]
             /\ used' = (used \cup t.leaf) \ {t.pa}
             /\ dirty' = (dirty \cup t.leaf) \ {t.pa}
             /\ Complete
        ELSE /\ mem' = t.mem
             /\ used' = used \cup t.leaf
             /\ dirty' = dirty \cup t.leaf
             /\ Raise(EXC_STORE_ACCESS)

\* What is translated without being accessed: an sc.w that has no reservation,
\* which completes, and loads, stores and atomics of an encoding that does not
\* exist, which are illegal instructions (a trap as any other, see Trap).
NoAccess(va) ==
    \E acc \in {"load", "store"} : \E t \in Translate(mem, va, acc) :
        /\ mem' = t.mem
        /\ used' = used \cup t.leaf
        /\ dirty' = IF acc = "store" THEN dirty \cup t.leaf ELSE dirty
        /\ Raise(NoFault) \/ (acc = "store" /\ Complete)

\* An instruction that lies in one page.
Fetch(va) ==
    \E t \in Translate(mem, va, "fetch") :
        /\ mem' = t.mem
        /\ used' = used \cup t.leaf
        /\ UNCHANGED dirty
        /\ IF InMemory(t.pa) THEN Complete ELSE Raise(EXC_INST_ACCESS)

NextPage(va) ==
    [vpn1 |-> IF va.vpn0 = Fanout - 1 THEN (va.vpn1 + 1) % Fanout ELSE va.vpn1,
     vpn0 |-> (va.vpn0 + 1) % Fanout, off |-> 0]

\* A 32-bit instruction whose second half is in the next page: translated again,
\* in the memory that the first translation has left.
FetchAcross(va) ==
    /\ va.off = Fanout - 1
    /\ \E t \in Translate(mem, va, "fetch") :
        LET second == Translate(t.mem, NextPage(va), "fetch") IN
        /\ InMemory(t.pa)
        /\ \/ /\ second = {}
              /\ mem' = t.mem
              /\ used' = used \cup t.leaf
              /\ Raise(EXC_INST_ACCESS)
           \/ \E u \in second :
              /\ mem' = u.mem
              /\ used' = used \cup t.leaf \cup u.leaf
              /\ IF InMemory(u.pa) THEN Complete ELSE Raise(EXC_INST_ACCESS)
    /\ UNCHANGED dirty

PageFault(va, acc) ==
    /\ Translate(mem, va, acc) = {}
    /\ Raise(fault_cause(acc))
    /\ UNCHANGED <<mem, used, dirty>>

-----------------------------------------------------------------------------
\* What else moves the hart.

\* Any other trap: an ecall, an illegal instruction, the timer.
Trap == Raise(NoFault) /\ UNCHANGED <<mem, used, dirty>>

\* mret, to whatever level mstatus.MPP holds (2 is a level that is neither U nor S
\* nor M to the walk), and sret.
Return(level) ==
    /\ priv = PRIV_M \/ (priv >= PRIV_S /\ level \in {PRIV_U, PRIV_S})
    /\ priv' = level
    /\ cause' = NoFault
    /\ IF level = PRIV_U THEN Entered ELSE UNCHANGED <<granted, kept>>
    /\ UNCHANGED <<mem, satp, sum, used, dirty>>

\* csr_write to satp: MODE 0 clears the rest.
WriteSatp(mode, ppn) ==
    /\ priv >= PRIV_S
    /\ satp' = [mode |-> mode, ppn |-> IF mode THEN ppn ELSE 0]
    /\ cause' = NoFault
    /\ UNCHANGED <<mem, priv, sum, history>>

\* csr_write to mstatus or sstatus.
WriteSum(b) ==
    /\ priv >= PRIV_S
    /\ sum' = b
    /\ cause' = NoFault
    /\ UNCHANGED <<mem, satp, priv, history>>

Next ==
    \/ \E va \in VirtAddr :
         Load(va) \/ Store(va) \/ NoAccess(va) \/ Fetch(va) \/ FetchAcross(va)
    \/ \E va \in VirtAddr, acc \in Access : PageFault(va, acc)
    \/ Trap
    \/ \E level \in 0 .. 3 : Return(level)
    \/ \E mode \in BOOLEAN, ppn \in Roots : WriteSatp(mode, ppn)
    \/ \E b \in BOOLEAN : WriteSum(b)

Spec == Init /\ [][Next]_vars

-----------------------------------------------------------------------------
TypeOK ==
    /\ mem \in [PhysAddr -> Pte]
    /\ satp \in [mode : BOOLEAN, ppn : Ppn]
    /\ priv \in 0 .. 3
    /\ sum \in BOOLEAN
    /\ cause \in {NoFault, EXC_INST_ACCESS, EXC_LOAD_ACCESS, EXC_STORE_ACCESS,
                  EXC_INST_PAGE_FAULT, EXC_LOAD_PAGE_FAULT, EXC_STORE_PAGE_FAULT}
    /\ used \subseteq PhysAddr /\ dirty \subseteq PhysAddr

\* Once a kernel has entered U with tables that U cannot write, U gains no right
\* and leaves no trace outside what it was granted, however long it runs, except
\* for accessed and dirty bits.
Isolation ==
    priv = PRIV_U /\ granted # {} =>
        /\ granted = {UserWritable}
        /\ \A k \in kept : \A a \in DOMAIN k : Plain(mem[a]) = k[a]

\* A kernel that cleared the bits can trust them: an entry that translated an
\* access since has A, one that translated a store has D, whatever else is
\* stored through the tables, the entry itself included.
BitsRecordUse ==
    /\ \A a \in used  : mem[a].A
    /\ \A a \in dirty : mem[a].D

=============================================================================
