------------------------------ MODULE Sv32Proofs ------------------------------
(***************************************************************************)
(* Type correctness of the paging model, and isolation: what a kernel        *)
(* grants to U when it enters U bounds what U can do, for every layout of    *)
(* the page tables and every size of page and memory.                       *)
(***************************************************************************)
EXTENDS Sv32, TLAPS

\* A translation that succeeds only sets A and D of the leaf it used.
LEMMA MarkedType ==
  ASSUME NEW m \in [PhysAddr -> Pte], NEW a \in PhysAddr, NEW acc \in Access
  PROVE  /\ Marked(m, a, acc) \in [PhysAddr -> Pte]
         /\ \A b \in PhysAddr : Plain(Marked(m, a, acc)[b]) = Plain(m[b])
<1>1. m[a] \in Pte
  OBVIOUS
<1>2. Marked(m, a, acc) =
        [m EXCEPT ![a] = [m[a] EXCEPT !.A = TRUE, !.D = m[a].D \/ acc = "store"]]
  BY DEF Marked
<1>3. [m[a] EXCEPT !.A = TRUE, !.D = m[a].D \/ acc = "store"] \in Pte
  BY <1>1 DEF Pte
<1>4. Plain([m[a] EXCEPT !.A = TRUE, !.D = m[a].D \/ acc = "store"]) = Plain(m[a])
  BY <1>1 DEF Pte, Plain
<1> QED BY <1>2, <1>3, <1>4

\* A translation leaves a memory of entries that differ in A and D only (mmu_translate).
LEMMA TranslateType ==
  ASSUME NEW m \in [PhysAddr -> Pte], NEW va, NEW acc \in Access,
         NEW t \in Translate(m, va, acc)
  PROVE  /\ t.mem \in [PhysAddr -> Pte]
         /\ t.leaf \subseteq PhysAddr
         /\ \A b \in PhysAddr : Plain(t.mem[b]) = Plain(m[b])
<1>1. CASE priv = PRIV_M \/ ~satp.mode
  BY <1>1 DEF Translate
<1>2. CASE ~(priv = PRIV_M \/ ~satp.mode)
  <2>1. PICK a \in Leaves(m, va) :
          t = [pa |-> Target(m, va, a), mem |-> Marked(m, a, acc), leaf |-> {a}]
    BY <1>2 DEF Translate
  <2>2. a \in PhysAddr
    BY DEF Leaves
  <2> QED BY <2>1, <2>2, MarkedType
<1> QED BY <1>1, <1>2

-----------------------------------------------------------------------------
\* The exception causes and levels of a trap.
LEMMA RaiseType ==
  ASSUME TypeOK, NEW code, Raise(code),
         code \in {NoFault, EXC_INST_ACCESS, EXC_LOAD_ACCESS, EXC_STORE_ACCESS,
                   EXC_INST_PAGE_FAULT, EXC_LOAD_PAGE_FAULT, EXC_STORE_PAGE_FAULT}
  PROVE  cause' = code /\ priv' \in 0 .. 3
         /\ satp' = satp /\ sum' = sum /\ granted' = {}
  BY DEF Raise, TypeOK, PRIV_S, PRIV_M

\* An access that completes changes no privilege and no translation.
LEMMA CompleteType ==
  ASSUME TypeOK, Complete
  PROVE  cause' = NoFault /\ priv' = priv /\ satp' = satp /\ sum' = sum
         /\ granted' = granted /\ kept' = kept
  BY DEF Complete

\* One lemma a memory access: the memory it leaves is well typed.
LEMMA LoadType == ASSUME TypeOK, NEW va, Load(va) PROVE TypeOK'
<1>1. PICK t \in Translate(mem, va, "load") :
        /\ mem' = t.mem
        /\ used' = used \cup t.leaf
        /\ UNCHANGED dirty
        /\ IF InMemory(t.pa) THEN Complete ELSE Raise(EXC_LOAD_ACCESS)
  BY DEF Load
<1>2. t.mem \in [PhysAddr -> Pte] /\ t.leaf \subseteq PhysAddr
  BY TranslateType DEF TypeOK, Access
<1>3. CASE Complete
  BY <1>1, <1>2, <1>3, CompleteType DEF TypeOK
<1>4. CASE Raise(EXC_LOAD_ACCESS)
  BY <1>1, <1>2, <1>4, RaiseType DEF TypeOK
<1> QED BY <1>1, <1>3, <1>4

\* Stores keep the types,
LEMMA StoreType == ASSUME TypeOK, NEW va, Store(va) PROVE TypeOK'
<1>1. PICK t \in Translate(mem, va, "store") :
        IF InMemory(t.pa)
        THEN /\ \E w \in StoreWords[t.pa] : mem' = [t.mem EXCEPT ![t.pa] = w]
             /\ used' = (used \cup t.leaf) \ {t.pa}
             /\ dirty' = (dirty \cup t.leaf) \ {t.pa}
             /\ Complete
        ELSE /\ mem' = t.mem
             /\ used' = used \cup t.leaf
             /\ dirty' = dirty \cup t.leaf
             /\ Raise(EXC_STORE_ACCESS)
  BY DEF Store
<1>2. t.mem \in [PhysAddr -> Pte] /\ t.leaf \subseteq PhysAddr
  BY TranslateType DEF TypeOK, Access
<1>3. CASE InMemory(t.pa)
  <2>1. StoreWords[t.pa] \subseteq Pte
    BY <1>3, StoreWordsAssumption DEF InMemory
  <2>2. mem' \in [PhysAddr -> Pte]
    BY <1>1, <1>2, <1>3, <2>1
  <2> QED BY <1>1, <1>2, <1>3, <2>2, CompleteType DEF TypeOK
<1>4. CASE ~InMemory(t.pa)
  BY <1>1, <1>2, <1>4, RaiseType DEF TypeOK
<1> QED BY <1>3, <1>4

\* and accesses that are translated only,
LEMMA NoAccessType == ASSUME TypeOK, NEW va, NoAccess(va) PROVE TypeOK'
<1>1. PICK acc \in {"load", "store"} : \E t \in Translate(mem, va, acc) :
        /\ mem' = t.mem
        /\ used' = used \cup t.leaf
        /\ dirty' = IF acc = "store" THEN dirty \cup t.leaf ELSE dirty
        /\ Raise(NoFault) \/ (acc = "store" /\ Complete)
  BY DEF NoAccess
<1>2. PICK t \in Translate(mem, va, acc) :
        /\ mem' = t.mem
        /\ used' = used \cup t.leaf
        /\ dirty' = dirty \/ dirty' = dirty \cup t.leaf
        /\ Raise(NoFault) \/ Complete
  BY <1>1
<1>3. t.mem \in [PhysAddr -> Pte] /\ t.leaf \subseteq PhysAddr
  BY TranslateType DEF TypeOK, Access
<1>4. CASE Complete
  BY <1>2, <1>3, <1>4, CompleteType DEF TypeOK
<1>5. CASE Raise(NoFault)
  BY <1>2, <1>3, <1>5, RaiseType DEF TypeOK
<1> QED BY <1>2, <1>4, <1>5

\* and fetches,
LEMMA FetchType == ASSUME TypeOK, NEW va, Fetch(va) PROVE TypeOK'
<1>1. PICK t \in Translate(mem, va, "fetch") :
        /\ mem' = t.mem
        /\ used' = used \cup t.leaf
        /\ UNCHANGED dirty
        /\ IF InMemory(t.pa) THEN Complete ELSE Raise(EXC_INST_ACCESS)
  BY DEF Fetch
<1>2. t.mem \in [PhysAddr -> Pte] /\ t.leaf \subseteq PhysAddr
  BY TranslateType DEF TypeOK, Access
<1>3. CASE Complete
  BY <1>1, <1>2, <1>3, CompleteType DEF TypeOK
<1>4. CASE Raise(EXC_INST_ACCESS)
  BY <1>1, <1>2, <1>4, RaiseType DEF TypeOK
<1> QED BY <1>1, <1>3, <1>4

\* A fetch across two pages changes A bits only, of one leaf or of two.
LEMMA FetchAcrossMemory ==
  ASSUME TypeOK, NEW va, FetchAcross(va)
  PROVE  /\ mem' \in [PhysAddr -> Pte]
         /\ used' \subseteq PhysAddr
         /\ \A b \in PhysAddr : Plain(mem'[b]) = Plain(mem[b])
         /\ Complete \/ Raise(EXC_INST_ACCESS)
<1>1. PICK t \in Translate(mem, va, "fetch") :
        \/ /\ mem' = t.mem
           /\ used' = used \cup t.leaf
           /\ Raise(EXC_INST_ACCESS)
        \/ \E u \in Translate(t.mem, NextPage(va), "fetch") :
           /\ mem' = u.mem
           /\ used' = used \cup t.leaf \cup u.leaf
           /\ IF InMemory(u.pa) THEN Complete ELSE Raise(EXC_INST_ACCESS)
  BY DEF FetchAcross
<1>2. /\ t.mem \in [PhysAddr -> Pte] /\ t.leaf \subseteq PhysAddr
      /\ \A b \in PhysAddr : Plain(t.mem[b]) = Plain(mem[b])
  BY TranslateType DEF TypeOK, Access
<1>3. CASE mem' = t.mem /\ used' = used \cup t.leaf /\ Raise(EXC_INST_ACCESS)
  BY <1>2, <1>3 DEF TypeOK
<1>4. ASSUME NEW u \in Translate(t.mem, NextPage(va), "fetch"),
             mem' = u.mem, used' = used \cup t.leaf \cup u.leaf,
             IF InMemory(u.pa) THEN Complete ELSE Raise(EXC_INST_ACCESS)
      PROVE  /\ mem' \in [PhysAddr -> Pte]
             /\ used' \subseteq PhysAddr
             /\ \A b \in PhysAddr : Plain(mem'[b]) = Plain(mem[b])
             /\ Complete \/ Raise(EXC_INST_ACCESS)
  <2>1. /\ u.mem \in [PhysAddr -> Pte] /\ u.leaf \subseteq PhysAddr
        /\ \A b \in PhysAddr : Plain(u.mem[b]) = Plain(t.mem[b])
    BY <1>2, TranslateType DEF Access
  <2> QED BY <1>2, <1>4, <2>1 DEF TypeOK
<1> QED BY <1>1, <1>3, <1>4

\* and fetches over the end of a page,
LEMMA FetchAcrossType == ASSUME TypeOK, NEW va, FetchAcross(va) PROVE TypeOK'
<1>1. dirty' = dirty
  BY DEF FetchAcross
<1>2. CASE Complete
  BY <1>1, <1>2, FetchAcrossMemory, CompleteType DEF TypeOK
<1>3. CASE Raise(EXC_INST_ACCESS)
  BY <1>1, <1>3, FetchAcrossMemory, RaiseType DEF TypeOK
<1> QED BY <1>2, <1>3, FetchAcrossMemory

\* and page faults,
LEMMA PageFaultType ==
  ASSUME TypeOK, NEW va, NEW acc \in Access, PageFault(va, acc) PROVE TypeOK'
<1>1. fault_cause(acc) \in {EXC_INST_PAGE_FAULT, EXC_LOAD_PAGE_FAULT, EXC_STORE_PAGE_FAULT}
  BY DEF fault_cause, Access
<1> QED BY <1>1, RaiseType DEF PageFault, TypeOK

\* and returns:
LEMMA ReturnType ==
  ASSUME TypeOK, NEW level \in 0 .. 3, Return(level) PROVE TypeOK'
  BY DEF Return, TypeOK

\* every step does.
LEMMA NextType == ASSUME TypeOK, [Next]_vars PROVE TypeOK'
<1>1. ASSUME NEW va \in VirtAddr,
             Load(va) \/ Store(va) \/ NoAccess(va) \/ Fetch(va) \/ FetchAcross(va)
      PROVE  TypeOK'
  BY <1>1, LoadType, StoreType, NoAccessType, FetchType, FetchAcrossType
<1>2. ASSUME NEW va \in VirtAddr, NEW acc \in Access, PageFault(va, acc) PROVE TypeOK'
  BY <1>2, PageFaultType
<1>3. CASE Trap
  BY <1>3, RaiseType DEF Trap, TypeOK
<1>4. ASSUME NEW level \in 0 .. 3, Return(level) PROVE TypeOK'
  BY <1>4, ReturnType
<1>5. ASSUME NEW mode \in BOOLEAN, NEW ppn \in Roots, WriteSatp(mode, ppn) PROVE TypeOK'
  BY <1>5, PpnAssumption DEF WriteSatp, history, TypeOK
<1>6. ASSUME NEW b \in BOOLEAN, WriteSum(b) PROVE TypeOK'
  BY <1>6 DEF WriteSum, history, TypeOK
<1>7. CASE UNCHANGED vars
  BY <1>7 DEF vars, hart, history, TypeOK
<1> QED BY <1>1, <1>2, <1>3, <1>4, <1>5, <1>6, <1>7 DEF Next

\* They hold at the start.
LEMMA PagingTypeInit == ASSUME Init PROVE TypeOK
<1>1. mem \in [PhysAddr -> Pte]
  BY ImagesAssumption DEF Init
<1>2. satp \in [mode : BOOLEAN, ppn : Ppn]
  BY PpnAssumption DEF Init
<1>3. sum \in BOOLEAN
  BY DEF Init
<1> QED BY <1>1, <1>2, <1>3 DEF Init, TypeOK, PRIV_M

\* Every reachable state is well typed: no access, whatever it stores and where,
\* puts anything but entries into memory or names a word outside it.
THEOREM PagingTypeCorrect == Spec => []TypeOK
<1>1. Init => TypeOK
  BY PagingTypeInit
<1> QED BY <1>1, NextType, PTL DEF Spec

-----------------------------------------------------------------------------
\* Isolation.  The inductive invariant says more than Isolation: the tables that
\* U runs on stay out of what U can write, and the memory remembered at entry is
\* exactly what lies outside the grant now.
UserRuns ==
    /\ priv = PRIV_U
    /\ Tables \cap UserWritable = {}
    /\ granted = {UserWritable}
    /\ kept = {[a \in PhysAddr \ UserWritable |-> Plain(mem[a])]}

IInv == TypeOK /\ (granted # {} => UserRuns)

\* Entries that differ in A and D only have the other fields in common.
LEMMA PlainFields ==
  ASSUME NEW p \in Pte, NEW q \in Pte, Plain(p) = Plain(q)
  PROVE  /\ p.V = q.V /\ p.R = q.R /\ p.W = q.W /\ p.X = q.X /\ p.U = q.U
         /\ p.ppn = q.ppn
BY DEF Plain, Pte

\* Memory m holds the tables in use, A and D bits aside.
SameTables(m) == \A r \in Tables : Plain(m[r]) = Plain(mem[r])

\* The walk from a root reads entries of Tables only.
LEMMA WalkInTables ==
  ASSUME NEW va \in VirtAddr, NEW a
  PROVE  /\ LargeLeaf(mem, va, a) => a \in Tables
         /\ RootWord(va) \in PhysAddr => RootWord(va) \in RootTable
         /\ Valid(mem, RootWord(va)) /\ ~IsLeaf(mem[RootWord(va)])
              /\ a = TableWord(mem[RootWord(va)].ppn, va.vpn0) /\ a \in PhysAddr
            => a \in Tables
<1>1. va.vpn1 \in Index /\ va.vpn0 \in Index
  BY DEF VirtAddr
<1>2. RootWord(va) \in PhysAddr => RootWord(va) \in RootTable
  BY <1>1 DEF RootWord, RootTable
<1>3. RootTable \subseteq Tables
  BY DEF Tables
<1>4. LargeLeaf(mem, va, a) => a \in Tables
  BY <1>2, <1>3 DEF LargeLeaf, Valid, InMemory
<1>5. ASSUME Valid(mem, RootWord(va)), ~IsLeaf(mem[RootWord(va)]),
             a = TableWord(mem[RootWord(va)].ppn, va.vpn0), a \in PhysAddr
      PROVE  a \in Tables
  <2>1. RootWord(va) \in {t \in RootTable : mem[t].V /\ ~IsLeaf(mem[t])}
    BY <1>2, <1>5 DEF Valid, InMemory
  <2> QED BY <1>1, <1>5, <2>1 DEF Tables
<1> QED BY <1>2, <1>4, <1>5

\* The tables of two memories agree in what the walk reads.
LEMMA SameFields ==
  ASSUME mem \in [PhysAddr -> Pte], NEW m \in [PhysAddr -> Pte], SameTables(m),
         NEW r \in Tables
  PROVE  /\ r \in PhysAddr
         /\ m[r].V = mem[r].V /\ m[r].R = mem[r].R /\ m[r].W = mem[r].W
         /\ m[r].X = mem[r].X /\ m[r].U = mem[r].U /\ m[r].ppn = mem[r].ppn
<1>1. r \in PhysAddr
  BY DEF Tables, RootTable
<1>2. m[r] \in Pte /\ mem[r] \in Pte /\ Plain(m[r]) = Plain(mem[r])
  BY <1>1 DEF SameTables
<1> QED BY <1>1, <1>2, PlainFields

\* A walk finds the same leaves, which grant the same and lead to the same words.
LEMMA SameWalk ==
  ASSUME mem \in [PhysAddr -> Pte], NEW m \in [PhysAddr -> Pte], SameTables(m),
         NEW va \in VirtAddr, NEW a \in PhysAddr
  PROVE  /\ LargeLeaf(m, va, a) <=> LargeLeaf(mem, va, a)
         /\ SmallLeaf(m, va, a) <=> SmallLeaf(mem, va, a)
         /\ a \in Leaves(mem, va) =>
              Target(m, va, a) = Target(mem, va, a) /\ Grants(m[a]) = Grants(mem[a])
<1> DEFINE root == RootWord(va)
<1>1. root \in PhysAddr => root \in Tables
  BY WalkInTables DEF Tables
<1>2. root \in PhysAddr =>
        /\ Valid(m, root) <=> Valid(mem, root)
        /\ IsLeaf(m[root]) <=> IsLeaf(mem[root])
        /\ m[root].ppn = mem[root].ppn
  BY <1>1, SameFields DEF Valid, IsLeaf
<1>3. LargeLeaf(m, va, a) <=> LargeLeaf(mem, va, a)
  BY <1>2 DEF LargeLeaf
<1>4. SmallLeaf(m, va, a) <=> SmallLeaf(mem, va, a)
  <2>1. CASE /\ root \in PhysAddr /\ Valid(mem, root) /\ ~IsLeaf(mem[root])
             /\ a = TableWord(mem[root].ppn, va.vpn0)
    <3>1. a \in Tables
      BY <2>1, WalkInTables
    <3>2. /\ Valid(m, a) <=> Valid(mem, a)
          /\ IsLeaf(m[a]) <=> IsLeaf(mem[a])
      BY <3>1, SameFields DEF Valid, IsLeaf
    <3> QED BY <1>2, <2>1, <3>2 DEF SmallLeaf
  <2>2. CASE ~(/\ root \in PhysAddr /\ Valid(mem, root) /\ ~IsLeaf(mem[root])
               /\ a = TableWord(mem[root].ppn, va.vpn0))
    BY <1>2, <2>2 DEF SmallLeaf, Valid, InMemory
  <2> QED BY <2>1, <2>2
<1>5. ASSUME a \in Leaves(mem, va)
      PROVE  Target(m, va, a) = Target(mem, va, a) /\ Grants(m[a]) = Grants(mem[a])
  <2>1. LargeLeaf(mem, va, a) \/ SmallLeaf(mem, va, a)
    BY <1>5 DEF Leaves
  <2>2. a \in Tables
    BY <2>1, WalkInTables DEF SmallLeaf, Valid, InMemory
  <2>3. m[a].ppn = mem[a].ppn /\ m[a].U = mem[a].U /\ m[a].R = mem[a].R /\ m[a].W = mem[a].W
    BY <2>2, SameFields
  <2> QED BY <1>3, <2>3 DEF Target, Grants
<1> QED BY <1>3, <1>4, <1>5

\* Steps that leave alone what U cannot write, A and D aside, change neither the
\* tables nor the grant.
LEMMA GrantStable ==
  ASSUME TypeOK, TypeOK', satp' = satp, Tables \cap UserWritable = {},
         \A b \in PhysAddr \ UserWritable : Plain(mem'[b]) = Plain(mem[b])
  PROVE  /\ Tables' = Tables
         /\ UserWritable' = UserWritable
         /\ [a \in PhysAddr \ UserWritable |-> Plain(mem[a])]' =
            [a \in PhysAddr \ UserWritable |-> Plain(mem[a])]
<1>1. mem \in [PhysAddr -> Pte] /\ mem' \in [PhysAddr -> Pte]
  BY DEF TypeOK
<1>2. Tables \subseteq PhysAddr
  BY DEF Tables, RootTable
<1>3. SameTables(mem')
  BY <1>2 DEF SameTables
<1>4. Tables' = Tables
  <2>1. RootTable' = RootTable
    BY DEF RootTable
  <2>2. \A r \in RootTable : /\ mem'[r].V = mem[r].V
                             /\ IsLeaf(mem'[r]) = IsLeaf(mem[r])
                             /\ mem'[r].ppn = mem[r].ppn
    BY <1>1, <1>3, SameFields DEF Tables, IsLeaf
  <2>3. {t \in RootTable : mem'[t].V /\ ~IsLeaf(mem'[t])} =
        {t \in RootTable : mem[t].V /\ ~IsLeaf(mem[t])}
    BY <2>2
  <2> QED BY <2>1, <2>2, <2>3 DEF Tables
<1>5. UserWritable' = UserWritable
  <2>1. \A va \in VirtAddr : Leaves(mem, va)' = Leaves(mem, va)
    <3> SUFFICES ASSUME NEW va \in VirtAddr PROVE Leaves(mem, va)' = Leaves(mem, va)
      OBVIOUS
    <3>1. \A a \in PhysAddr : /\ LargeLeaf(mem, va, a)' <=> LargeLeaf(mem', va, a)
                              /\ SmallLeaf(mem, va, a)' <=> SmallLeaf(mem', va, a)
      BY DEF LargeLeaf, SmallLeaf, RootWord
    <3> QED BY <1>1, <1>3, <3>1, SameWalk DEF Leaves
  <2>2. \A va \in VirtAddr : \A a \in Leaves(mem, va) :
          Target(mem, va, a)' = Target(mem, va, a) /\ Grants(mem'[a]) = Grants(mem[a])
    <3> SUFFICES ASSUME NEW va \in VirtAddr, NEW a \in Leaves(mem, va)
                 PROVE  /\ Target(mem, va, a)' = Target(mem, va, a)
                        /\ Grants(mem'[a]) = Grants(mem[a])
      OBVIOUS
    <3>1. Target(mem, va, a)' = Target(mem', va, a)
      BY DEF Target, LargeLeaf, RootWord
    <3>2. a \in PhysAddr
      BY DEF Leaves
    <3> QED BY <1>1, <1>3, <3>1, <3>2, SameWalk
  <2>3. \A va \in VirtAddr : GrantedAt(va)' = GrantedAt(va)
    BY <2>1, <2>2 DEF GrantedAt
  <2> QED BY <2>3 DEF UserWritable
<1>6. [a \in PhysAddr \ UserWritable |-> Plain(mem[a])]' =
      [a \in PhysAddr \ UserWritable |-> Plain(mem[a])]
  BY <1>5
<1> QED BY <1>4, <1>5, <1>6

\* A store at U goes to a word that the tables grant.
LEMMA UserStoreGranted ==
  ASSUME priv = PRIV_U, NEW va \in VirtAddr, NEW t \in Translate(mem, va, "store"),
         t.pa \in PhysAddr
  PROVE  t.pa \in UserWritable
<1>1. CASE ~satp.mode
  BY <1>1 DEF UserWritable
<1>2. CASE satp.mode
  <2>1. PICK a \in Leaves(mem, va) :
          /\ pte_allows(mem[a], "store", priv)
          /\ t = [pa |-> Target(mem, va, a), mem |-> Marked(mem, a, "store"), leaf |-> {a}]
    BY <1>2 DEF Translate, PRIV_U, PRIV_M
  <2>2. Grants(mem[a])
    BY <2>1 DEF pte_allows, Grants, PRIV_U, PRIV_S
  <2>3. t.pa \in GrantedAt(va)
    BY <2>1, <2>2 DEF GrantedAt
  <2> QED BY <1>2, <2>3 DEF UserWritable
<1> QED BY <1>1, <1>2

\* An instruction that completes at U and leaves what it cannot write alone.
LEMMA UserStep ==
  ASSUME IInv, TypeOK', Complete,
         granted # {} => \A b \in PhysAddr \ UserWritable : Plain(mem'[b]) = Plain(mem[b])
  PROVE  IInv'
<1>1. priv' = priv /\ satp' = satp /\ granted' = granted /\ kept' = kept
  BY DEF Complete
<1>2. CASE granted = {}
  BY <1>1, <1>2 DEF IInv
<1>3. CASE granted # {}
  <2>1. UserRuns
    BY <1>3 DEF IInv
  <2> QED BY <1>1, <1>3, <2>1, GrantStable DEF IInv, UserRuns
<1> QED BY <1>2, <1>3

\* For every program, every set of tables and every sequence of steps: what U
\* may write does not change while U runs, and nothing else changes but A and D.
THEOREM UserIsolated == Spec => []Isolation
<1>1. Init => IInv
  <2>1. Init => TypeOK /\ granted = {}
    BY PagingTypeInit DEF Init
  <2> QED BY <2>1 DEF IInv
<1>2. ASSUME IInv, [Next]_vars PROVE IInv'
  <2>1. TypeOK /\ TypeOK'
    BY <1>2, NextType DEF IInv
  <2>2. ASSUME granted' = {} PROVE IInv'
    BY <2>1, <2>2 DEF IInv
  <2>3. ASSUME NEW code, Raise(code) PROVE IInv'
    BY <2>2, <2>3 DEF Raise
  <2>4. ASSUME NEW va \in VirtAddr, Load(va) PROVE IInv'
    <3>1. PICK t \in Translate(mem, va, "load") :
            mem' = t.mem /\ (Complete \/ Raise(EXC_LOAD_ACCESS))
      BY <2>4 DEF Load
    <3>2. \A b \in PhysAddr : Plain(mem'[b]) = Plain(mem[b])
      BY <2>1, <3>1, TranslateType DEF TypeOK, Access
    <3> QED BY <1>2, <2>1, <2>3, <3>1, <3>2, UserStep
  <2>5. ASSUME NEW va \in VirtAddr, Store(va) PROVE IInv'
    <3>1. PICK t \in Translate(mem, va, "store") :
            \/ /\ t.pa \in PhysAddr
               /\ \E w \in StoreWords[t.pa] : mem' = [t.mem EXCEPT ![t.pa] = w]
               /\ Complete
            \/ Raise(EXC_STORE_ACCESS)
      BY <2>5 DEF Store, InMemory
    <3>2. /\ t.mem \in [PhysAddr -> Pte]
          /\ \A b \in PhysAddr : Plain(t.mem[b]) = Plain(mem[b])
      BY <2>1, TranslateType DEF TypeOK, Access
    <3>3. CASE Raise(EXC_STORE_ACCESS)
      BY <2>3, <3>3
    <3>4. ASSUME t.pa \in PhysAddr, Complete, NEW w \in StoreWords[t.pa],
                 mem' = [t.mem EXCEPT ![t.pa] = w]
          PROVE  IInv'
      <4>1. granted # {} => t.pa \in UserWritable
        BY <1>2, <3>4, UserStoreGranted DEF IInv, UserRuns
      <4>2. granted # {} => \A b \in PhysAddr \ UserWritable : Plain(mem'[b]) = Plain(mem[b])
        BY <3>2, <3>4, <4>1
      <4> QED BY <1>2, <2>1, <3>4, <4>2, UserStep
    <3> QED BY <3>1, <3>3, <3>4
  <2>6. ASSUME NEW va \in VirtAddr, Fetch(va) PROVE IInv'
    <3>1. PICK t \in Translate(mem, va, "fetch") :
            mem' = t.mem /\ (Complete \/ Raise(EXC_INST_ACCESS))
      BY <2>6 DEF Fetch
    <3>2. \A b \in PhysAddr : Plain(mem'[b]) = Plain(mem[b])
      BY <2>1, <3>1, TranslateType DEF TypeOK, Access
    <3> QED BY <1>2, <2>1, <2>3, <3>1, <3>2, UserStep
  <2>7. ASSUME NEW va \in VirtAddr, FetchAcross(va) PROVE IInv'
    BY <1>2, <2>1, <2>3, <2>7, FetchAcrossMemory, UserStep
  <2>8. ASSUME NEW va \in VirtAddr, NEW acc \in Access, PageFault(va, acc) PROVE IInv'
    BY <2>3, <2>8 DEF PageFault
  <2>9. CASE Trap
    BY <2>3, <2>9 DEF Trap
  <2>10. ASSUME NEW level \in 0 .. 3, Return(level) PROVE IInv'
    <3>1. mem' = mem /\ satp' = satp /\ priv' = level /\ priv # PRIV_U
      BY <2>10 DEF Return, PRIV_M, PRIV_S, PRIV_U
    <3>2. CASE level = PRIV_U /\ granted' # {}
      <4>1. /\ Tables \cap UserWritable = {}
            /\ granted' = {UserWritable}
            /\ kept' = {[a \in PhysAddr \ UserWritable |-> Plain(mem[a])]}
        BY <2>10, <3>2 DEF Return, Entered
      <4>2. Tables' = Tables /\ UserWritable' = UserWritable
        BY <2>1, <3>1, <4>1, GrantStable
      <4> QED BY <2>1, <3>1, <3>2, <4>1, <4>2 DEF IInv, UserRuns
    <3>3. CASE level # PRIV_U
      <4>1. granted = {}
        BY <1>2, <3>1 DEF IInv, UserRuns
      <4> QED BY <2>2, <2>10, <3>3, <4>1 DEF Return
    <3> QED BY <2>2, <3>2, <3>3
  <2>11. ASSUME priv >= PRIV_S, granted' = granted PROVE IInv'
    BY <1>2, <2>2, <2>11 DEF IInv, UserRuns, PRIV_U, PRIV_S
  <2>12. ASSUME NEW mode \in BOOLEAN, NEW ppn \in Roots, WriteSatp(mode, ppn) PROVE IInv'
    BY <2>11, <2>12 DEF WriteSatp, history
  <2>13. ASSUME NEW b \in BOOLEAN, WriteSum(b) PROVE IInv'
    BY <2>11, <2>13 DEF WriteSum, history
  <2>14. ASSUME NEW va \in VirtAddr, NoAccess(va) PROVE IInv'
    <3>1. PICK acc \in {"load", "store"} : \E t \in Translate(mem, va, acc) :
            mem' = t.mem /\ (Complete \/ Raise(NoFault))
      BY <2>14 DEF NoAccess
    <3>2. \A b \in PhysAddr : Plain(mem'[b]) = Plain(mem[b])
      BY <2>1, <3>1, TranslateType DEF TypeOK, Access
    <3> QED BY <1>2, <2>1, <2>3, <3>1, <3>2, UserStep
  <2>15. CASE UNCHANGED vars
    <3>1. mem' = mem /\ satp' = satp /\ priv' = priv /\ granted' = granted /\ kept' = kept
      BY <2>15 DEF vars, hart, history
    <3>2. CASE granted = {}
      BY <2>2, <3>1, <3>2
    <3>3. CASE granted # {}
      <4>1. UserRuns
        BY <1>2, <3>3 DEF IInv
      <4> QED BY <2>1, <3>1, <4>1, GrantStable DEF IInv, UserRuns
    <3> QED BY <3>2, <3>3
  <2> QED BY <1>2, <2>4, <2>5, <2>6, <2>7, <2>8, <2>9, <2>10, <2>12, <2>13,
            <2>14, <2>15 DEF Next
<1>3. IInv => Isolation
  BY DEF IInv, UserRuns, Isolation
<1> QED BY <1>1, <1>2, <1>3, PTL DEF Spec

-----------------------------------------------------------------------------
\* A translation clears no bit, and sets A and, for a store, D of its leaf.
LEMMA TranslateMarks ==
  ASSUME NEW m \in [PhysAddr -> Pte], NEW va, NEW acc \in Access,
         NEW t \in Translate(m, va, acc), NEW b \in PhysAddr
  PROVE  /\ m[b].A \/ b \in t.leaf => t.mem[b].A
         /\ m[b].D \/ (acc = "store" /\ b \in t.leaf) => t.mem[b].D
<1>1. CASE priv = PRIV_M \/ ~satp.mode
  BY <1>1 DEF Translate
<1>2. CASE ~(priv = PRIV_M \/ ~satp.mode)
  <2>1. PICK a \in Leaves(m, va) :
          t = [pa |-> Target(m, va, a), mem |-> Marked(m, a, acc), leaf |-> {a}]
    BY <1>2 DEF Translate
  <2>2. a \in PhysAddr /\ m[a] \in Pte /\ m[b] \in Pte
    BY DEF Leaves
  <2>3. t.mem = [m EXCEPT ![a] = [m[a] EXCEPT !.A = TRUE, !.D = m[a].D \/ acc = "store"]]
    BY <2>1 DEF Marked
  <2>4. CASE b = a
    <3>1. t.mem[b] = [m[a] EXCEPT !.A = TRUE, !.D = m[a].D \/ acc = "store"]
      BY <2>2, <2>3, <2>4
    <3>2. t.mem[b].A = TRUE /\ t.mem[b].D = (m[a].D \/ acc = "store")
      BY <2>2, <3>1 DEF Pte
    <3> QED BY <2>4, <3>2
  <2>5. CASE b # a
    BY <2>1, <2>2, <2>3, <2>5
  <2> QED BY <2>4, <2>5
<1> QED BY <1>1, <1>2

\* A load or a fetch through one translation.
LEMMA MarksRecorded ==
  ASSUME TypeOK, BitsRecordUse, NEW va, NEW acc \in Access,
         NEW t \in Translate(mem, va, acc), mem' = t.mem,
         used' = used \cup t.leaf,
         dirty' = dirty
  PROVE  BitsRecordUse'
<1>1. used \subseteq PhysAddr /\ dirty \subseteq PhysAddr /\ t.leaf \subseteq PhysAddr
      /\ mem \in [PhysAddr -> Pte]
  BY TranslateType DEF TypeOK
<1>2. \A a \in used' : mem'[a].A
  BY <1>1, TranslateMarks DEF BitsRecordUse
<1>3. \A a \in dirty' : mem'[a].D
  BY <1>1, TranslateMarks DEF BitsRecordUse
<1> QED BY <1>2, <1>3 DEF BitsRecordUse

\* For every program: an entry that translated an access since software last
\* wrote it has A, one that translated a store has D.
THEOREM UseRecorded == Spec => []BitsRecordUse
<1>1. Init => BitsRecordUse
  BY DEF Init, BitsRecordUse
<1>2. ASSUME TypeOK, BitsRecordUse, [Next]_vars PROVE BitsRecordUse'
  <2>0. used \subseteq PhysAddr /\ dirty \subseteq PhysAddr /\ mem \in [PhysAddr -> Pte]
    BY <1>2 DEF TypeOK
  <2>1. ASSUME NEW va \in VirtAddr, Load(va) PROVE BitsRecordUse'
    BY <1>2, <2>1, MarksRecorded DEF Load, Access
  <2>2. ASSUME NEW va \in VirtAddr, Fetch(va) PROVE BitsRecordUse'
    BY <1>2, <2>2, MarksRecorded DEF Fetch, Access
  <2>3. ASSUME NEW va \in VirtAddr, Store(va) PROVE BitsRecordUse'
    <3>1. PICK t \in Translate(mem, va, "store") :
            \/ /\ t.pa \in PhysAddr
               /\ \E w \in StoreWords[t.pa] : mem' = [t.mem EXCEPT ![t.pa] = w]
               /\ used' = (used \cup t.leaf) \ {t.pa}
               /\ dirty' = (dirty \cup t.leaf) \ {t.pa}
            \/ /\ mem' = t.mem
               /\ used' = used \cup t.leaf
               /\ dirty' = dirty \cup t.leaf
      BY <2>3 DEF Store, InMemory
    <3>2. t.mem \in [PhysAddr -> Pte] /\ t.leaf \subseteq PhysAddr
      BY <2>0, TranslateType DEF Access
    <3>3. /\ \A b \in used \cup t.leaf : t.mem[b].A
          /\ \A b \in dirty \cup t.leaf : t.mem[b].D
      BY <1>2, <2>0, <3>2, TranslateMarks DEF BitsRecordUse, Access
    <3>4. ASSUME NEW w \in StoreWords[t.pa], mem' = [t.mem EXCEPT ![t.pa] = w],
                 used' = (used \cup t.leaf) \ {t.pa}, dirty' = (dirty \cup t.leaf) \ {t.pa}
          PROVE  BitsRecordUse'
      BY <2>0, <3>2, <3>3, <3>4 DEF BitsRecordUse
    <3>5. CASE mem' = t.mem /\ used' = used \cup t.leaf /\ dirty' = dirty \cup t.leaf
      BY <3>3, <3>5 DEF BitsRecordUse
    <3> QED BY <3>1, <3>4, <3>5
  <2>4. ASSUME NEW va \in VirtAddr, FetchAcross(va) PROVE BitsRecordUse'
    <3>1. PICK t \in Translate(mem, va, "fetch") :
            \/ mem' = t.mem /\ used' = used \cup t.leaf
            \/ \E u \in Translate(t.mem, NextPage(va), "fetch") :
                 mem' = u.mem /\ used' = used \cup t.leaf \cup u.leaf
      BY <2>4 DEF FetchAcross
    <3>2. dirty' = dirty
      BY <2>4 DEF FetchAcross
    <3>3. CASE mem' = t.mem /\ used' = used \cup t.leaf
      BY <1>2, <3>2, <3>3, MarksRecorded DEF Access
    <3>4. ASSUME NEW u \in Translate(t.mem, NextPage(va), "fetch"),
                 mem' = u.mem, used' = used \cup t.leaf \cup u.leaf
          PROVE  BitsRecordUse'
      <4>1. t.mem \in [PhysAddr -> Pte] /\ t.leaf \subseteq PhysAddr
        BY <2>0, TranslateType DEF Access
      <4>2. u.leaf \subseteq PhysAddr
        BY <4>1, TranslateType DEF Access
      <4>3. /\ \A b \in used \cup t.leaf : t.mem[b].A
            /\ \A b \in dirty : t.mem[b].D
        BY <1>2, <2>0, <4>1, TranslateMarks DEF BitsRecordUse, Access
      <4>4. /\ \A b \in used \cup t.leaf \cup u.leaf : u.mem[b].A
            /\ \A b \in dirty : u.mem[b].D
        BY <2>0, <4>1, <4>2, <4>3, TranslateMarks DEF Access
      <4> QED BY <3>2, <3>4, <4>4 DEF BitsRecordUse
    <3> QED BY <3>1, <3>3, <3>4
  <2>5. ASSUME mem' = mem, used' = used, dirty' = dirty PROVE BitsRecordUse'
    BY <1>2, <2>5 DEF BitsRecordUse
  <2>6. ASSUME NEW va \in VirtAddr, NEW acc \in Access, PageFault(va, acc) PROVE BitsRecordUse'
    BY <2>5, <2>6 DEF PageFault
  <2>7. CASE Trap
    BY <2>5, <2>7 DEF Trap
  <2>8. ASSUME NEW level \in 0 .. 3, Return(level) PROVE BitsRecordUse'
    BY <2>5, <2>8 DEF Return
  <2>9. ASSUME NEW mode \in BOOLEAN, NEW ppn \in Roots, WriteSatp(mode, ppn)
        PROVE  BitsRecordUse'
    BY <2>5, <2>9 DEF WriteSatp, history
  <2>10. ASSUME NEW b \in BOOLEAN, WriteSum(b) PROVE BitsRecordUse'
    BY <2>5, <2>10 DEF WriteSum, history
  <2>11. ASSUME NEW va \in VirtAddr, NoAccess(va) PROVE BitsRecordUse'
    <3>1. PICK acc \in {"load", "store"} : \E t \in Translate(mem, va, acc) :
            /\ mem' = t.mem
            /\ used' = used \cup t.leaf
            /\ dirty' = IF acc = "store" THEN dirty \cup t.leaf ELSE dirty
      BY <2>11 DEF NoAccess
    <3>2. CASE acc = "load"
      BY <1>2, <3>1, <3>2, MarksRecorded DEF Access
    <3>3. CASE acc = "store"
      <4>1. PICK t \in Translate(mem, va, "store") :
              mem' = t.mem /\ used' = used \cup t.leaf /\ dirty' = dirty \cup t.leaf
        BY <3>1, <3>3
      <4>2. t.leaf \subseteq PhysAddr
        BY <2>0, <3>3, TranslateType DEF Access
      <4>3. /\ \A b \in used \cup t.leaf : t.mem[b].A
            /\ \A b \in dirty \cup t.leaf : t.mem[b].D
        BY <1>2, <2>0, <3>3, <4>2, TranslateMarks DEF BitsRecordUse, Access
      <4> QED BY <4>1, <4>3 DEF BitsRecordUse
    <3> QED BY <3>2, <3>3
  <2>12. CASE UNCHANGED vars
    BY <2>5, <2>12 DEF vars, history
  <2> QED BY <1>2, <2>1, <2>2, <2>3, <2>4, <2>6, <2>7, <2>8, <2>9, <2>10, <2>11,
            <2>12 DEF Next
<1> QED BY <1>1, <1>2, PagingTypeCorrect, PTL DEF Spec

=============================================================================
