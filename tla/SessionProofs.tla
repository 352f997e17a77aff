---------------------------- MODULE SessionProofs ----------------------------
(***************************************************************************)
(* Theorems about Session, for every file, memory, program, table size and   *)
(* limit. The invariant has three parts: the memory is the image of the      *)
(* headers handled so far (LoaderInv), the table has no address twice        *)
(* (NoDuplicates), and a loop has not outrun its bound (LoopInv).            *)
(***************************************************************************)
EXTENDS Session, FiniteSetTheorems, TLAPS

LoaderInv ==
    /\ phase = "opening" =>
        done = 0 /\ count = 0 /\ image = [a \in MemAddr |-> 0]
    /\ phase \in {"segments", "loaded"} =>
        /\ image = ImageOf(file, done)
        /\ count > 0 => \E i \in 1 .. done : Loadable(file, file.phdrs[i])
    /\ phase = "loaded" => done = Len(file.phdrs) /\ count > 0
    /\ phase # "loaded" => state = "HALTED" /\ pc = 0

NoDuplicates ==
    \A i, j \in 0 .. bp_count - 1 : breakpoints[i] = breakpoints[j] => i = j

LoopInv ==
    /\ mode \notin {"loading", "exit"} => phase = "loaded"
    /\ mode \in {"step", "continue"} => steps <= limit
    /\ mode = "run" /\ limit > 0 => steps <= limit
    /\ mode = "loading" => steps = 0

SInv == STypeOK /\ LoaderInv /\ NoDuplicates /\ LoopInv /\ BreakpointsStop

-----------------------------------------------------------------------------
\* The memory a file describes

\* elf_load on one header: a segment that is loaded claims exactly the bytes the
\* copy and the clearing write.
LEMMA ClaimedIsWritten ==
    ASSUME NEW s \in Segment, NEW a \in MemAddr
    PROVE  /\ a \in Bss(s) <=> Cleared(s, a)
           /\ a \in Data(s) <=> FromFile(s, a)
<1>1. /\ s.vaddr \in Nat /\ s.filesz \in Nat /\ s.memsz \in Nat
      /\ MemSize \in Nat /\ a \in Nat /\ a < MemSize
  BY LoaderAssumption DEF Segment, MemAddr
<1>2. a \in Bss(s) <=> Cleared(s, a)
  <2>1. CASE s.memsz > s.filesz /\ s.vaddr + s.memsz <= MemSize
    <3>1. Bss(s) = s.vaddr + s.filesz .. s.vaddr + s.memsz - 1
      BY <2>1 DEF Bss
    <3> QED BY <3>1, <2>1, <1>1 DEF Cleared
  <2>2. CASE ~(s.memsz > s.filesz /\ s.vaddr + s.memsz <= MemSize)
    <3>1. Bss(s) = {}
      BY <2>2 DEF Bss
    <3> QED BY <3>1, <2>2, <1>1 DEF Cleared
  <2> QED BY <2>1, <2>2
<1>3. a \in Data(s) <=> s.vaddr <= a /\ a < s.vaddr + s.filesz
  BY <1>1 DEF Data
<1>4. CASE s.vaddr + s.filesz <= MemSize
  <2>1. Clipped(s.vaddr, s.filesz) = s.filesz
    BY <1>4 DEF Clipped
  <2> QED BY <2>1, <1>2, <1>3 DEF FromFile
<1>5. CASE ~(s.vaddr + s.filesz <= MemSize) /\ s.vaddr < MemSize
  <2>1. Clipped(s.vaddr, s.filesz) = MemSize - s.vaddr
    BY <1>5 DEF Clipped
  <2>2. FromFile(s, a) <=> s.vaddr <= a /\ a < s.vaddr + (MemSize - s.vaddr)
    BY <2>1 DEF FromFile
  <2> QED BY <2>2, <1>1, <1>2, <1>3, <1>5
<1>6. CASE ~(s.vaddr + s.filesz <= MemSize) /\ ~(s.vaddr < MemSize)
  <2>1. ~(s.vaddr <= a)
    BY <1>1, <1>6
  <2> QED BY <2>1, <1>2, <1>3 DEF FromFile
<1> QED BY <1>4, <1>5, <1>6

\* A file's headers are segments.
LEMMA HeadersAreSegments ==
    ASSUME NEW f \in Files
    PROVE  /\ Len(f.phdrs) \in Nat
           /\ \A i \in 1 .. Len(f.phdrs) : f.phdrs[i] \in Segment
BY LoaderAssumption

\* elf_load, before the loop.
LEMMA NothingClaimed ==
    ASSUME NEW f \in Files
    PROVE  ImageOf(f, 0) = [a \in MemAddr |-> 0]
<1>1. \A a \in MemAddr : Claimants(f, 0, a) = {}
  BY DEF Claimants
<1> QED BY <1>1 DEF ImageOf

\* elf_load, one round of the loop for a segment that is skipped.
LEMMA SkippedClaimsNothing ==
    ASSUME NEW f \in Files, NEW n \in 0 .. Len(f.phdrs) - 1,
           ~Loadable(f, f.phdrs[n + 1])
    PROVE  ImageOf(f, n + 1) = ImageOf(f, n)
<1>1. Len(f.phdrs) \in Nat
  BY LoaderAssumption
<1>2. \A a \in MemAddr : Claimants(f, n + 1, a) = Claimants(f, n, a)
  BY <1>1 DEF Claimants, Loadable
<1> QED BY <1>2 DEF ImageOf

\* elf_load, one round of the loop for a segment that is loaded.
LEMMA LoadedTakesOver ==
    ASSUME NEW f \in Files, NEW n \in 0 .. Len(f.phdrs) - 1,
           Loadable(f, f.phdrs[n + 1]), image = ImageOf(f, n)
    PROVE  ImageOf(f, n + 1)
             = [a \in MemAddr |-> ContentAfter(f, f.phdrs[n + 1], a)]
<1> DEFINE s == f.phdrs[n + 1]
<1>1. Len(f.phdrs) \in Nat /\ n \in Nat /\ n + 1 \in 1 .. Len(f.phdrs)
  BY LoaderAssumption
<1> SUFFICES ASSUME NEW a \in MemAddr
             PROVE  ImageOf(f, n + 1)[a] = ContentAfter(f, s, a)
  BY DEF ImageOf
<1>2. /\ a \in Bss(s) <=> Cleared(s, a)
      /\ a \in Data(s) <=> FromFile(s, a)
  BY <1>1, ClaimedIsWritten, HeadersAreSegments
<1>3. CASE a \in Data(s) \cup Bss(s)
  <2>1. n + 1 \in Claimants(f, n + 1, a)
    BY <1>1, <1>3 DEF Claimants, Loadable
  <2>2. \A j \in Claimants(f, n + 1, a) : j \in Nat /\ j <= n + 1
    BY <1>1 DEF Claimants
  <2>3. Greatest(Claimants(f, n + 1, a)) = n + 1
    BY <1>1, <2>1, <2>2 DEF Greatest
  <2>4. ImageOf(f, n + 1)[a]
          = IF a \in Bss(s) THEN 0 ELSE f.bytes[s.offset + (a - s.vaddr)]
    BY <2>1, <2>3 DEF ImageOf
  <2> QED BY <2>4, <1>2, <1>3 DEF ContentAfter
<1>4. CASE a \notin Data(s) \cup Bss(s)
  <2>1. Claimants(f, n + 1, a) = Claimants(f, n, a)
    BY <1>1, <1>4 DEF Claimants
  <2>2. ImageOf(f, n + 1)[a] = image[a]
    BY <2>1 DEF ImageOf
  <2> QED BY <2>2, <1>2, <1>4 DEF ContentAfter
<1> QED BY <1>3, <1>4

\* The loop of elf_load writes bytes.
LEMMA ContentIsByte ==
    ASSUME NEW f \in Files, NEW i \in 1 .. Len(f.phdrs), NEW a \in MemAddr,
           Loadable(f, f.phdrs[i]), image \in [MemAddr -> Byte]
    PROVE  ContentAfter(f, f.phdrs[i], a) \in Byte
<1> DEFINE s == f.phdrs[i]
<1>1. /\ f.bytes \in [0 .. f.size - 1 -> Byte] /\ 0 \in Byte /\ f.size \in Nat
      /\ MemAddr \subseteq Nat
  BY LoaderAssumption DEF MemAddr
<1>2. s \in Segment /\ (a \in Data(s) <=> FromFile(s, a))
  BY ClaimedIsWritten, HeadersAreSegments
<1>3. /\ s.vaddr \in Nat /\ s.filesz \in Nat /\ s.offset \in Nat
      /\ s.offset + s.filesz <= f.size
  BY <1>2 DEF Segment, Loadable
<1>4. FromFile(s, a) => s.offset + (a - s.vaddr) \in 0 .. f.size - 1
  <2> SUFFICES ASSUME FromFile(s, a)
               PROVE  s.offset + (a - s.vaddr) \in 0 .. f.size - 1
    OBVIOUS
  <2>1. s.vaddr <= a /\ a < s.vaddr + s.filesz /\ a \in Nat
    <3>1. a \in Data(s) /\ a \in Nat
      BY <1>1, <1>2
    <3> QED BY <1>3, <3>1 DEF Data
  <2>2. \A o, v, n, z, b \in Nat : v <= b /\ b < v + n /\ o + n <= z
                                    => o + (b - v) \in 0 .. z - 1
    OBVIOUS
  <2> QED BY <2>1, <2>2, <1>1, <1>3
<1> QED BY <1>1, <1>4 DEF ContentAfter

-----------------------------------------------------------------------------
\* Types and the loader's part of the invariant

\* emu_init gives a machine that is stopped, with zeroed memory.
LEMMA LoaderInitial == LInit => LTypeOK /\ LoaderInv
<1> SUFFICES ASSUME LInit PROVE LTypeOK /\ LoaderInv
  OBVIOUS
<1>1. file \in Files /\ Len(file.phdrs) \in Nat /\ 0 \in Byte
      /\ 0 \in 0 .. AddressSpace - 1
  BY LoaderAssumption DEF LInit
<1>2. LTypeOK
  BY <1>1 DEF LInit, LTypeOK, States
<1> QED BY <1>2 DEF LInit, LoaderInv

\* One step of elf_load.
LEMMA LoaderStep ==
    ASSUME LTypeOK, LoaderInv, LNext
    PROVE  LTypeOK' /\ LoaderInv' /\ phase # "loaded"
<1>1. /\ file \in Files /\ Len(file.phdrs) \in Nat /\ file.phnum \in Nat
      /\ Len(file.phdrs) <= file.phnum /\ file.entry \in 0 .. AddressSpace - 1
      /\ done \in 0 .. Len(file.phdrs) /\ count \in 0 .. done
  BY LoaderAssumption DEF LTypeOK
<1>2. CASE Reject
  BY <1>2 DEF Reject, LTypeOK, LoaderInv
<1>3. CASE Accept
  <2>1. image = ImageOf(file, done)
    BY <1>1, <1>3, NothingClaimed DEF Accept, LoaderInv
  <2> QED BY <1>3, <2>1 DEF Accept, LTypeOK, LoaderInv
<1>4. CASE LoadSegment
  <2>1. done \in 0 .. Len(file.phdrs) - 1 /\ Loadable(file, file.phdrs[done + 1])
        /\ phase = "segments" /\ image = ImageOf(file, done)
    BY <1>1, <1>4 DEF LoadSegment, MoreHeaders, LoaderInv
  <2>2. image' = ImageOf(file, done + 1)
    BY <1>1, <2>1, <1>4, LoadedTakesOver DEF LoadSegment
  <2>3. image' \in [MemAddr -> Byte]
    <3>1. \A a \in MemAddr : ContentAfter(file, file.phdrs[done + 1], a) \in Byte
      BY <1>1, <2>1, ContentIsByte DEF LTypeOK
    <3> QED BY <3>1, <1>4 DEF LoadSegment
  <2>4. LTypeOK'
    BY <1>1, <2>1, <2>3, <1>4 DEF LoadSegment, LTypeOK
  <2>5. \E i \in 1 .. done' : Loadable(file, file.phdrs[i])'
    <3>1. done + 1 \in 1 .. done' /\ file' = file
      BY <1>1, <1>4 DEF LoadSegment
    <3> QED BY <2>1, <3>1 DEF Loadable
  <2>6. image' = ImageOf(file, done)'
    BY <2>2, <1>4 DEF LoadSegment
  <2> QED BY <2>1, <2>4, <2>5, <2>6, <1>4 DEF LoadSegment, LoaderInv
<1>5. CASE SkipSegment
  <2>1. done \in 0 .. Len(file.phdrs) - 1 /\ phase = "segments"
        /\ ~Loadable(file, file.phdrs[done + 1]) /\ image = ImageOf(file, done)
    BY <1>1, <1>5 DEF SkipSegment, MoreHeaders, LoaderInv
  <2>2. image' = ImageOf(file, done)'
    <3>1. image = ImageOf(file, done + 1)
      BY <1>1, <2>1, SkippedClaimsNothing
    <3> QED BY <3>1, <1>5 DEF SkipSegment
  <2>3. count' > 0 => \E i \in 1 .. done' : Loadable(file, file.phdrs[i])'
    BY <1>1, <2>1, <1>5 DEF SkipSegment, LoaderInv, Loadable
  <2>4. LTypeOK'
    BY <1>1, <2>1, <1>5 DEF SkipSegment, LTypeOK
  <2> QED BY <2>1, <2>2, <2>3, <2>4, <1>5 DEF SkipSegment, LoaderInv
<1>6. CASE Finish
  <2>1. done = Len(file.phdrs) /\ phase = "segments"
    BY <1>1, <1>6 DEF Finish, MoreHeaders
  <2>2. LTypeOK'
    BY <1>1, <1>6 DEF Finish, LTypeOK, States
  <2>3. LoaderInv'
    BY <2>1, <1>6 DEF Finish, Loaded, LoaderInv
  <2> QED BY <2>1, <2>2, <2>3
<1> QED BY <1>2, <1>3, <1>4, <1>5, <1>6 DEF LNext, Reject, Accept

-----------------------------------------------------------------------------
\* The table

\* Sessions start with an empty table, no loop and the loader's initial state.
LEMMA SessionInitial == SInit => SInv
<1> SUFFICES ASSUME SInit PROVE SInv
  OBVIOUS
<1>1. LTypeOK /\ LoaderInv
  BY LoaderInitial DEF SInit
<1>2. STypeOK
  BY <1>1, SessionAssumption DEF SInit, STypeOK
<1>3. NoDuplicates
  BY DEF SInit, NoDuplicates
<1> QED BY <1>1, <1>2, <1>3 DEF SInit, SInv, LoopInv, BreakpointsStop, Loops

\* bp_find returns the place of the address.
LEMMA FoundAtIndex ==
    ASSUME STypeOK, NoDuplicates, NEW a, Found(a)
    PROVE  IndexOf(a) \in 0 .. bp_count - 1 /\ breakpoints[IndexOf(a)] = a
<1>1. PICK k \in 0 .. bp_count - 1 : breakpoints[k] = a
  BY DEF Found, Breakpoints
<1>2. \A j \in 0 .. k - 1 : breakpoints[j] # a
  BY <1>1 DEF NoDuplicates, STypeOK
<1> QED BY <1>1, <1>2 DEF IndexOf

\* A table without duplicates holds as many addresses as it counts.
LEMMA CountIsCardinality ==
    ASSUME STypeOK, NoDuplicates
    PROVE  IsFiniteSet(Breakpoints) /\ Cardinality(Breakpoints) = bp_count
<1> DEFINE S == 0 .. bp_count - 1
           f == [i \in S |-> breakpoints[i]]
<1>1. bp_count \in Nat
  BY SessionAssumption DEF STypeOK
<1>2. IsFiniteSet(S) /\ Cardinality(S) = bp_count
  BY <1>1, FS_Interval
<1>3. f \in Surjection(S, Breakpoints)
  BY DEF Surjection, Breakpoints
<1>4. f \in Injection(S, Breakpoints)
  BY DEF NoDuplicates, Injection, IsInjective, Breakpoints
<1> QED BY <1>2, <1>3, <1>4, FS_Surjection

\* The instance counts as this module does.
LEMMA SameCardinality == \A S : B!Cardinality(S) = Cardinality(S)
BY Zenon DEF B!Cardinality, Cardinality

\* bp_add on the table: the address is added, unless the table is full.
LEMMA SetBreakAdds ==
    ASSUME STypeOK, NoDuplicates, NEW a \in BreakAddr, SetBreak(a)
    PROVE  STypeOK' /\ NoDuplicates' /\ B!Add(a)
<1>1. bp_count \in 0 .. MaxBreakpoints /\ MaxBreakpoints \in Nat
  BY SessionAssumption DEF STypeOK
<1>2. Cardinality(Breakpoints) = bp_count
  BY CountIsCardinality
<1>3. CASE Found(a) \/ bp_count = MaxBreakpoints
  <2>1. UNCHANGED table
    BY <1>3 DEF SetBreak
  <2>2. STypeOK' /\ NoDuplicates' /\ Breakpoints' = Breakpoints
    BY <2>1 DEF SetBreak, STypeOK, LTypeOK, NoDuplicates, Breakpoints, table, loop, lvars
  <2>3. Breakpoints = IF Cardinality(Breakpoints) < MaxBreakpoints
                      THEN Breakpoints \cup {a} ELSE Breakpoints
    BY <1>1, <1>2, <1>3 DEF Found
  <2> QED BY <2>2, <2>3, SameCardinality DEF B!Add
<1>4. CASE ~(Found(a) \/ bp_count = MaxBreakpoints)
  <2>1. /\ breakpoints' = [breakpoints EXCEPT ![bp_count] = a]
        /\ bp_count' = bp_count + 1
        /\ bp_count \in Slot /\ breakpoints \in [Slot -> BreakAddr]
    BY <1>1, <1>4 DEF SetBreak, Slot, STypeOK
  <2>2. /\ breakpoints'[bp_count] = a
        /\ \A i \in 0 .. bp_count - 1 : breakpoints'[i] = breakpoints[i]
    BY <1>1, <2>1 DEF Slot
  <2>3. STypeOK'
    BY <1>1, <2>1 DEF SetBreak, STypeOK, LTypeOK, Slot, lvars, loop
  <2>4. \A i \in 0 .. bp_count - 1 : breakpoints[i] # a
    BY <1>4 DEF Found, Breakpoints
  <2>5. NoDuplicates'
    BY <1>1, <2>1, <2>2, <2>4 DEF NoDuplicates
  <2>6. Breakpoints' = Breakpoints \cup {a}
    BY <1>1, <2>1, <2>2 DEF Breakpoints
  <2>7. Cardinality(Breakpoints) < MaxBreakpoints
    BY <1>1, <1>2, <1>4
  <2> QED BY <2>3, <2>5, <2>6, <2>7, SameCardinality DEF B!Add
<1> QED BY <1>3, <1>4

\* bp_del on the table: the address is taken out and no other.
LEMMA DeleteBreakRemoves ==
    ASSUME STypeOK, NoDuplicates, NEW a \in BreakAddr, DeleteBreak(a)
    PROVE  STypeOK' /\ NoDuplicates' /\ B!Remove(a)
<1>1. /\ bp_count \in 0 .. MaxBreakpoints /\ MaxBreakpoints \in Nat
      /\ breakpoints \in [Slot -> BreakAddr]
  BY SessionAssumption DEF STypeOK
<1>2. CASE ~Found(a)
  <2>1. UNCHANGED table
    BY <1>2 DEF DeleteBreak
  <2>2. STypeOK' /\ NoDuplicates' /\ Breakpoints' = Breakpoints
    BY <2>1 DEF DeleteBreak, STypeOK, LTypeOK, NoDuplicates, Breakpoints, table, loop, lvars
  <2> QED BY <1>2, <2>2 DEF B!Remove, Found
<1>3. CASE Found(a)
  <2> DEFINE k == IndexOf(a)
  <2>1. k \in 0 .. bp_count - 1 /\ breakpoints[k] = a
    BY <1>3, FoundAtIndex
  <2>2. /\ breakpoints' = [i \in Slot |->
                 IF k <= i /\ i + 1 < bp_count THEN breakpoints[i + 1]
                 ELSE breakpoints[i]]
        /\ bp_count' = bp_count - 1
    BY <1>3 DEF DeleteBreak
  <2> HIDE DEF k
  <2>3. \A i \in 0 .. bp_count - 2 :
          breakpoints'[i] = breakpoints[IF k <= i THEN i + 1 ELSE i]
    BY <1>1, <2>1, <2>2 DEF Slot
  <2>4. STypeOK'
    <3>1. breakpoints' \in [Slot -> BreakAddr]
      BY <1>1, <2>1, <2>2 DEF Slot
    <3>2. bp_count' \in 0 .. MaxBreakpoints
      BY <1>1, <2>1, <2>2
    <3> QED BY <3>1, <3>2 DEF DeleteBreak, STypeOK, LTypeOK, lvars, loop
  <2>5. NoDuplicates'
    BY <1>1, <2>1, <2>2, <2>3 DEF NoDuplicates
  <2>6. Breakpoints' \subseteq Breakpoints \ {a}
    <3>0. 0 .. bp_count' - 1 = 0 .. bp_count - 2
      BY <1>1, <2>2
    <3> SUFFICES ASSUME NEW i \in 0 .. bp_count - 2
                 PROVE  breakpoints'[i] \in Breakpoints \ {a}
      BY <3>0 DEF Breakpoints
    <3> DEFINE j == IF k <= i THEN i + 1 ELSE i
    <3>1. j \in 0 .. bp_count - 1 /\ j # k
      BY <1>1, <2>1
    <3>2. breakpoints'[i] = breakpoints[j]
      BY <2>3
    <3> QED BY <3>1, <3>2, <2>1 DEF Breakpoints, NoDuplicates
  <2>7. Breakpoints \ {a} \subseteq Breakpoints'
    <3> SUFFICES ASSUME NEW j \in 0 .. bp_count - 1, breakpoints[j] # a
                 PROVE  breakpoints[j] \in Breakpoints'
      BY DEF Breakpoints
    <3> DEFINE i == IF k < j THEN j - 1 ELSE j
    <3>1. i \in 0 .. bp_count - 2 /\ (IF k <= i THEN i + 1 ELSE i) = j
      BY <1>1, <2>1
    <3>2. breakpoints'[i] = breakpoints[j]
      BY <2>3, <3>1
    <3>3. i \in 0 .. bp_count' - 1
      BY <1>1, <2>1, <2>2, <3>1
    <3> QED BY <3>2, <3>3 DEF Breakpoints
  <2> QED BY <2>4, <2>5, <2>6, <2>7 DEF B!Remove
<1> QED BY <1>2, <1>3

\* Everything but the breakpoint commands leaves the table alone.
LEMMA TableKept ==
    ASSUME NoDuplicates, UNCHANGED table
    PROVE  NoDuplicates' /\ Breakpoints' = Breakpoints
BY DEF NoDuplicates, Breakpoints, table

-----------------------------------------------------------------------------
\* Every step of a session keeps the invariant.

\* emu_step leaves a machine of the right type and no breakpoint moved.
LEMMA ExecuteKeeps ==
    ASSUME STypeOK, LoaderInv, NoDuplicates, Execute, phase = "loaded"
    PROVE  LTypeOK' /\ LoaderInv' /\ NoDuplicates' /\ Breakpoints' = Breakpoints
<1>1. PICK o \in Outcomes[pc] : pc' = o.pc /\ state' = o.state
  BY DEF Execute
<1>2. pc \in 0 .. AddressSpace - 1
  BY DEF STypeOK, LTypeOK
<1>3. o \in Outcome
  BY <1>1, <1>2, SessionAssumption
<1>4. pc' \in 0 .. AddressSpace - 1 /\ state' \in States
  BY <1>1, <1>3 DEF Outcome
<1>5. UNCHANGED <<file, phase, done, count, image, debug, table>>
  BY DEF Execute
<1>6. LTypeOK'
  BY <1>4, <1>5 DEF STypeOK, LTypeOK
<1>7. LoaderInv'
  BY <1>5 DEF LoaderInv
<1> QED BY <1>5, <1>6, <1>7, TableKept

\* Every command and every round of a loop keeps the invariant of the session.
LEMMA SessionStep ==
    ASSUME SInv, [SNext]_svars
    PROVE  SInv'
<1> USE DEF SInv
<1>0. MaxBreakpoints \in Nat /\ StepCounts \subseteq Nat /\ ContinueLimit \in Nat
      /\ bp_count \in Nat /\ steps \in Nat /\ limit \in Nat
  BY SessionAssumption DEF STypeOK
<1>1. CASE Load
  <2>1. LTypeOK' /\ LoaderInv' /\ phase # "loaded"
    BY <1>1, LoaderStep DEF Load, STypeOK
  <2>2. mode = "loading" /\ UNCHANGED <<debug, table, loop>>
    BY <1>1 DEF Load
  <2>3. NoDuplicates'
    BY <2>2, TableKept
  <2> QED BY <2>1, <2>2, <2>3 DEF STypeOK, LoopInv, BreakpointsStop, table, loop
<1>2. CASE LoadFailed
  <2>1. LTypeOK' /\ LoaderInv' /\ NoDuplicates'
    BY <1>2, TableKept DEF LoadFailed, STypeOK, LTypeOK, LoaderInv, lvars
  <2> QED BY <1>2, <2>1 DEF LoadFailed, STypeOK, LoopInv, BreakpointsStop, table
<1>3. CASE Launch
  <2>1. LTypeOK' /\ LoaderInv' /\ NoDuplicates'
    BY <1>3, TableKept DEF Launch, STypeOK, LTypeOK, LoaderInv, lvars
  <2>2. /\ mode' = "prompt" \/ mode' = "run"
        /\ steps' = steps /\ steps = 0 /\ limit' \in Nat /\ phase' = "loaded"
    BY <1>0, <1>3 DEF Launch, LoopInv, lvars
  <2> QED BY <1>0, <1>3, <2>1, <2>2
          DEF Launch, STypeOK, LoopInv, BreakpointsStop, Loops, table
<1>4. CASE \E a \in BreakAddr : SetBreak(a) \/ DeleteBreak(a)
  <2>1. STypeOK' /\ NoDuplicates'
    BY <1>4, SetBreakAdds, DeleteBreakRemoves
  <2>2. mode = "prompt" /\ UNCHANGED <<lvars, debug, loop>>
    BY <1>4 DEF SetBreak, DeleteBreak
  <2> QED BY <2>1, <2>2 DEF LoaderInv, LoopInv, BreakpointsStop, lvars, loop
<1>5. CASE ClearBreaks
  <2>1. mode = "prompt" /\ bp_count' = 0 /\ UNCHANGED <<lvars, debug, breakpoints, loop>>
    BY <1>5 DEF ClearBreaks
  <2>2. STypeOK' /\ NoDuplicates'
    BY <1>0, <2>1 DEF STypeOK, LTypeOK, NoDuplicates, lvars, loop
  <2> QED BY <2>1, <2>2 DEF LoaderInv, LoopInv, BreakpointsStop, lvars, loop
<1>6. CASE StepCommand \/ ContinueCommand \/ Quit
  <2>1. /\ mode = "prompt" /\ mode' \in {"step", "continue", "exit"}
        /\ steps' = 0 /\ limit' \in Nat
        /\ UNCHANGED <<lvars, debug, table>>
    BY <1>0, <1>6 DEF StepCommand, ContinueCommand, Quit, Enter
  <2>2. LTypeOK' /\ LoaderInv' /\ NoDuplicates'
    BY <2>1, TableKept DEF STypeOK, LTypeOK, LoaderInv, lvars
  <2> QED BY <2>1, <2>2 DEF STypeOK, LoopInv, BreakpointsStop, Loops, table, lvars
<1>7. CASE StepOnce \/ ContinueOnce \/ RunOnce
  <2>1. Execute /\ phase = "loaded" /\ mode \in Loops
    BY <1>7 DEF StepOnce, ContinueOnce, RunOnce, LoopInv, Loops
  <2>2. LTypeOK' /\ LoaderInv' /\ NoDuplicates' /\ Breakpoints' = Breakpoints
        /\ phase' = "loaded" /\ UNCHANGED <<debug, table>>
    BY <2>1, ExecuteKeeps DEF Execute
  <2>3. CASE Leave("prompt")
    BY <2>2, <2>3 DEF Leave, STypeOK, LoopInv, BreakpointsStop, table
  <2>4. CASE Again /\ steps < limit /\ (mode = "continue" => pc' \notin Breakpoints)
    BY <1>0, <2>1, <2>2, <2>4
       DEF Again, STypeOK, LoopInv, BreakpointsStop, Loops, table
  <2>5. CASE mode = "run" /\ UNCHANGED loop
    BY <2>2, <2>5 DEF STypeOK, LoopInv, BreakpointsStop, loop, table
  <2> QED BY <1>7, <2>3, <2>4, <2>5 DEF StepOnce, ContinueOnce, RunOnce
<1>8. CASE StepEnds \/ ContinueEnds \/ RunEnds
  <2>1. /\ Leave("prompt") \/ Leave("exit")
        /\ phase = "loaded" /\ UNCHANGED <<lvars, debug, table>>
    BY <1>8 DEF StepEnds, ContinueEnds, RunEnds, LoopInv
  <2>2. LTypeOK' /\ LoaderInv' /\ NoDuplicates'
    BY <2>1, TableKept DEF STypeOK, LTypeOK, LoaderInv, lvars
  <2> QED BY <2>1, <2>2 DEF Leave, STypeOK, LoopInv, BreakpointsStop, table, lvars
<1>9. CASE UNCHANGED svars
  <2>1. LTypeOK' /\ LoaderInv' /\ NoDuplicates' /\ Breakpoints' = Breakpoints
    BY <1>9, TableKept DEF svars, STypeOK, LTypeOK, LoaderInv, lvars
  <2> QED BY <1>9, <2>1
          DEF svars, lvars, table, loop, STypeOK, LoopInv, BreakpointsStop
<1> QED BY <1>1, <1>2, <1>3, <1>4, <1>5, <1>6, <1>7, <1>8, <1>9
        DEF SNext, Command, Proceed

\* The invariant holds throughout a session (main.c, elf.c, debug.c).
THEOREM SessionInvariant == SSpec => []SInv
<1> QED BY SessionInitial, SessionStep, PTL DEF SSpec

\* Every variable keeps its type and the table its bound (bp_add, bp_del).
THEOREM SessionTypeCorrect == SSpec => []STypeOK
<1>1. SInv => STypeOK
  BY DEF SInv
<1> QED BY <1>1, SessionInvariant, PTL

\* A program starts on the memory its file describes (elf_load).
THEOREM ProgramStartsOnItsImage == SSpec => []StartsOnItsImage
<1>1. SInv => StartsOnItsImage
  BY DEF SInv, LoaderInv, StartsOnItsImage
<1> QED BY <1>1, SessionInvariant, PTL

\* continue does not run through a breakpoint (cmd_continue).
THEOREM ContinueStopsAtBreakpoints == SSpec => []BreakpointsStop
<1>1. SInv => BreakpointsStop
  BY DEF SInv
<1> QED BY <1>1, SessionInvariant, PTL

\* A program that ended does not execute again (cmd_step, cmd_continue, emu_run).
THEOREM EndedProgramStaysEnded == SSpec => EndIsFinal
<1>1. SInv /\ [SNext]_svars /\ phase = "loaded" /\ state # "RUNNING"
        => UNCHANGED <<pc, state>>
  <2> SUFFICES ASSUME SInv, [SNext]_svars, phase = "loaded", state # "RUNNING"
               PROVE  UNCHANGED <<pc, state>>
    OBVIOUS
  <2>1. ~Load
    BY LoaderStep DEF Load, SInv, STypeOK
  <2>2. ~(StepOnce \/ ContinueOnce \/ RunOnce)
    BY DEF StepOnce, ContinueOnce, RunOnce
  <2> QED BY <2>1, <2>2 DEF SNext, Command, Proceed, LoadFailed, Launch, StepEnds,
          ContinueEnds, RunEnds, SetBreak, DeleteBreak, ClearBreaks, StepCommand,
          ContinueCommand, Quit, Enter, svars, lvars
<1> QED BY <1>1, SessionInvariant, PTL DEF SSpec, EndIsFinal

\* A loop ends for one of its reasons (cmd_step, cmd_continue, emu_run).
THEOREM LoopsEndForAReason == SSpec => EndsForAReason
<1> DEFINE Reason ==
        \/ state' # "RUNNING"
        \/ steps = limit /\ (mode = "run" => limit > 0)
        \/ mode = "continue" /\ pc' \in Breakpoints
<1>1. SInv /\ [SNext]_svars /\ mode \in Loops /\ mode' # mode => Reason
  <2> SUFFICES ASSUME SInv, [SNext]_svars, mode \in Loops, mode' # mode
               PROVE  Reason
    OBVIOUS
  <2>1. steps \in Nat /\ limit \in Nat
    BY DEF SInv, STypeOK
  <2>2. ~(Load \/ LoadFailed \/ Launch \/ Command) /\ ~UNCHANGED svars
    BY DEF Load, LoadFailed, Launch, Command, SetBreak, DeleteBreak, ClearBreaks,
           StepCommand, ContinueCommand, Quit, Enter, Loops, svars, loop
  <2>3. CASE StepOnce \/ RunOnce
    BY <2>3 DEF StepOnce, RunOnce, Again, loop
  <2>4. CASE ContinueOnce
    BY <2>4 DEF ContinueOnce, Again
  <2>5. CASE StepEnds \/ ContinueEnds
    BY <2>1, <2>5 DEF StepEnds, ContinueEnds, lvars, SInv, LoopInv
  <2>6. CASE RunEnds
    BY <2>1, <2>6 DEF RunEnds, lvars, SInv, LoopInv
  <2> QED BY <2>2, <2>3, <2>4, <2>5, <2>6 DEF SNext, Proceed
<1> QED BY <1>1, SessionInvariant, PTL DEF SSpec, EndsForAReason

\* The table is a set of addresses, whatever commands come (bp_add, bp_del).
THEOREM BreakpointTableIsASet == SSpec => TableIsASet
<1>1. SInit => B!Empty
  BY DEF SInit, B!Empty, Breakpoints
<1>2. SInv /\ [SNext]_svars => [B!BNext]_Breakpoints
  <2> SUFFICES ASSUME SInv, SNext \/ UNCHANGED svars
               PROVE  B!BNext \/ UNCHANGED Breakpoints
    BY DEF svars
  <2>1. CASE \E a \in BreakAddr : SetBreak(a) \/ DeleteBreak(a)
    BY <2>1, SetBreakAdds, DeleteBreakRemoves DEF SInv, B!BNext
  <2>2. CASE ClearBreaks
    BY <2>2 DEF ClearBreaks, Breakpoints, B!BNext, B!RemoveAll
  <2>3. CASE UNCHANGED table
    BY <2>3, TableKept DEF SInv
  <2> QED BY <2>1, <2>2, <2>3 DEF SNext, Command, Proceed, Load, LoadFailed, Launch,
          StepOnce, ContinueOnce, RunOnce, Execute, StepEnds, ContinueEnds, RunEnds,
          StepCommand, ContinueCommand, Quit, Enter, svars
<1>3. SInv => \A a \in BreakAddr : /\ SetBreak(a) => B!Add(a)
                                   /\ DeleteBreak(a) => B!Remove(a)
  BY SetBreakAdds, DeleteBreakRemoves DEF SInv
<1> QED BY <1>1, <1>2, <1>3, SessionInvariant, PTL DEF SSpec, TableIsASet, B!BSpec

=============================================================================
