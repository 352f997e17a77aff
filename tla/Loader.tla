------------------------------- MODULE Loader -------------------------------
(***************************************************************************)
(* emu_load_elf: an ELF file becomes the memory and the pc a program starts  *)
(* with. One action handles one program header, as the loop of elf_load      *)
(* does. `image` is the memory as the load leaves it; what the program does  *)
(* to memory afterwards is not part of it.                                   *)
(***************************************************************************)
EXTENDS Integers, Sequences

CONSTANTS
    MemSize,        \* bytes of memory (MEM_SIZE)
    Byte,           \* values of a byte
    AddressSpace,   \* 2^32: one past the largest address
    Files           \* the files that may be given to the program

(***************************************************************************)
(* A file is the verdict on its header, its entry point, its bytes, the      *)
(* number of program headers it announces and those of them it contains.     *)
(* A segment does not extend past the address space, which every linker      *)
(* ensures; so no sum in the loader wraps.                                   *)
(***************************************************************************)
Headers == {"unreadable", "not_elf", "not_exec", "not_riscv", "good"}
Segment == [load : BOOLEAN, offset : Nat, vaddr : Nat, filesz : Nat, memsz : Nat]

ASSUME LoaderAssumption ==
    /\ MemSize \in Nat /\ AddressSpace \in Nat /\ MemSize < AddressSpace
    /\ 0 \in Byte
    /\ \A f \in Files :
        /\ f.header \in Headers /\ f.entry \in 0 .. AddressSpace - 1
        /\ f.size \in Nat /\ f.bytes \in [0 .. f.size - 1 -> Byte]
        /\ f.phdrs \in Seq(Segment)
        /\ f.phnum \in Nat /\ Len(f.phdrs) <= f.phnum
        /\ \A i \in 1 .. Len(f.phdrs) :
            LET s == f.phdrs[i] IN
            /\ s.offset + s.filesz < AddressSpace
            /\ s.vaddr + s.filesz < AddressSpace
            /\ s.vaddr + s.memsz < AddressSpace

VARIABLES
    file,       \* the file on the command line
    phase,      \* "opening", "segments", "loaded" or "failed"
    done,       \* program headers handled (i of the loop)
    count,      \* PT_LOAD segments loaded (info->phdr_count)
    image,      \* memory
    pc,         \* emu->rf.pc
    state       \* emu->state

lvars == <<file, phase, done, count, image, pc, state>>

MemAddr == 0 .. MemSize - 1
States  == {"RUNNING", "HALTED", "EXCEPTION"}

LTypeOK ==
    /\ file \in Files
    /\ phase \in {"opening", "segments", "loaded", "failed"}
    /\ done \in 0 .. Len(file.phdrs) /\ count \in 0 .. done
    /\ image \in [MemAddr -> Byte]
    /\ pc \in 0 .. AddressSpace - 1
    /\ state \in States

\* memory_init gives zeroed memory.
LInit ==
    /\ file \in Files
    /\ phase = "opening" /\ done = 0 /\ count = 0
    /\ image = [a \in MemAddr |-> 0]
    /\ pc = 0 /\ state = "HALTED"

-----------------------------------------------------------------------------
\* memory_load: what does not fit is left out.
Clipped(vaddr, len) ==
    IF vaddr + len <= MemSize THEN len
    ELSE IF vaddr < MemSize THEN MemSize - vaddr ELSE 0

Loadable(f, s) == s.load /\ s.offset + s.filesz <= f.size

FromFile(s, a) == s.vaddr <= a /\ a < s.vaddr + Clipped(s.vaddr, s.filesz)

\* Mutant: calloc is trusted to have cleared .bss.
NeverCleared(s, a) == FALSE

\* .bss is cleared as a whole or, if it does not fit into memory, not at all.
Cleared(s, a) ==
    /\ s.vaddr + s.memsz <= MemSize
    /\ s.vaddr + s.filesz <= a /\ a < s.vaddr + s.memsz

ContentAfter(f, s, a) ==
    IF Cleared(s, a) THEN 0
    ELSE IF FromFile(s, a) THEN f.bytes[s.offset + (a - s.vaddr)]
    ELSE image[a]

-----------------------------------------------------------------------------
Reject ==
    /\ phase = "opening" /\ file.header # "good"
    /\ phase' = "failed"
    /\ UNCHANGED <<file, done, count, image, pc, state>>

Accept ==
    /\ phase = "opening" /\ file.header = "good"
    /\ phase' = "segments"
    /\ UNCHANGED <<file, done, count, image, pc, state>>

\* The loop ends at the last header announced or the last one in the file.
MoreHeaders == done < file.phnum /\ done < Len(file.phdrs)

LoadSegment ==
    LET s == file.phdrs[done + 1] IN
    /\ phase = "segments" /\ MoreHeaders /\ Loadable(file, s)
    /\ image' = [a \in MemAddr |-> ContentAfter(file, s, a)]
    /\ done' = done + 1 /\ count' = count + 1
    /\ UNCHANGED <<file, phase, pc, state>>

SkipSegment ==
    /\ phase = "segments" /\ MoreHeaders
    /\ ~Loadable(file, file.phdrs[done + 1])
    /\ done' = done + 1
    /\ UNCHANGED <<file, phase, count, image, pc, state>>

\* Mutant: a file without segments is accepted.
LoadedAny == file.entry # 0
\* elf_load returns 0 for a failure, so an entry point of 0 is one.
Loaded == count > 0 /\ file.entry # 0

Finish ==
    /\ phase = "segments" /\ ~MoreHeaders
    /\ IF Loaded
       THEN phase' = "loaded" /\ pc' = file.entry /\ state' = "RUNNING"
       ELSE phase' = "failed" /\ UNCHANGED <<pc, state>>
    /\ UNCHANGED <<file, done, count, image>>

LNext == Reject \/ Accept \/ LoadSegment \/ SkipSegment \/ Finish

-----------------------------------------------------------------------------
(***************************************************************************)
(* What the file says memory should hold, byte by byte: the last segment     *)
(* that claims a byte decides, and a byte nobody claims is 0.                *)
(***************************************************************************)
Bss(s)  == IF s.memsz > s.filesz /\ s.vaddr + s.memsz <= MemSize
           THEN s.vaddr + s.filesz .. s.vaddr + s.memsz - 1 ELSE {}
Data(s) == s.vaddr .. s.vaddr + s.filesz - 1

Claimants(f, n, a) ==
    {i \in 1 .. n : /\ f.phdrs[i].load
                    /\ f.phdrs[i].offset + f.phdrs[i].filesz <= f.size
                    /\ a \in Data(f.phdrs[i]) \cup Bss(f.phdrs[i])}

Greatest(S) == CHOOSE i \in S : \A j \in S : j <= i

ImageOf(f, n) ==
    [a \in MemAddr |->
        IF Claimants(f, n, a) = {} THEN 0
        ELSE LET s == f.phdrs[Greatest(Claimants(f, n, a))] IN
             IF a \in Bss(s) THEN 0 ELSE f.bytes[s.offset + (a - s.vaddr)]]

(***************************************************************************)
(* A program starts only on the memory its file describes, whatever segments *)
(* were skipped, clipped or laid over each other on the way, and never       *)
(* before the load ended or after it failed (elf_load, emu_load_elf).        *)
(***************************************************************************)
StartsOnItsImage ==
    /\ phase = "loaded" =>
        /\ \E i \in 1 .. Len(file.phdrs) : Loadable(file, file.phdrs[i])
        /\ image = ImageOf(file, Len(file.phdrs))
    /\ phase # "loaded" => state # "RUNNING" /\ pc = 0

=============================================================================
