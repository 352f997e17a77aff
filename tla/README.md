# Verification of the RV32IMAFC emulator

TLA+ models of `rv32i-emu`, a RISC-V RV32IMAFC emulator in C, with the TLC
configurations that check them and TLAPS proofs of the main results. Paths are
relative to the repository (`src/trap.c`, `include/csr.h`).

## 1. The system

One process, one hart, no threads. `main` loads an ELF file, then runs
`emu_run` or the debugger; both call `emu_step` again and again. What makes
this program hard to test is not host concurrency but the software that runs
*on* it: three privilege levels interrupt one another between any two
instructions, through registers they partly share.

| component | state | operations | talks to |
|---|---|---|---|
| trap unit, `trap.c` | `priv`, `mtime`, `mtimecmp`, trap CSRs | `trap_raise`, `trap_check_interrupt`, `trap_mret`, `trap_sret` | called by `emu_step` and `execute`, writes pc and CSRs |
| CSRs, `csr.c` | `csr_t` | `csr_read`, `csr_write`, `csr_priv_ok`, `csr_writable` | called by `execute`; read by the trap unit, the MMU and the FPU |
| main loop, `emu.c` | `state`, `entry` | `emu_init`, `emu_load_elf`, `emu_run`, `emu_step` | calls everything below |
| execution engine, `execute.c` | registers, pc, reservation | one case per opcode | MMU, memory, CSRs, trap unit, FPU |
| CLINT, in `trap.c` and `execute.c` | `mtime`, `mtimecmp` | tick at every step, word store, word load | trap unit |
| Sv32, `mmu.c` | page tables in memory, A and D bits | `mmu_translate` | memory; called for every fetch, load and store below M |
| memory, `memory.c` | 1 MiB of bytes, UART | read and write of 8, 16, 32 bits | |
| decoder, `decode.c` | none | `decode`, `expand_compressed`, disassembler | |
| FPU, `fpu.c` | f registers, `fflags`, `frm` | `fpu_execute` | host fenv |
| ELF loader, `elf.c` | none | `elf_load` | memory |
| debugger, `debug.c` | breakpoint table | set, delete, step, continue, show | `emu_step` |
| command line, `main.c` | options | load, run or debug | everything |

### What is hard here, and what should hold

* **Trap entry, delegation and return.** A timer interrupt or an exception can
  arrive at any instruction of any level, also inside a handler. M and S keep
  their contexts in different registers but in one `mstatus` word. A context
  must survive everything other levels do until its owner returns or rewrites it.
* **Protection.** No sequence of CSR writes, traps and returns may let a level
  change what a higher level owns, or raise its level except through a trap.
* **Stopping.** The emulator gives up when `trap_raise` returns false, and serves
  `ecall` itself when no handler is installed; both decisions read registers
  that software changes while it runs.
* **The timer** is polled, pending is a level, and software must be able to rely
  on delivery and on progress of what it preempts.
* **LR/SC.** The reservation outlives traps and is cleared by address comparison.
* **Paging.** Translation reads memory that software writes, and itself writes A
  and D bits; a fetch may need two translations.
* **Loading and debugging.** What memory holds at the start is decided by several
  program headers together; a breakpoint table, a step count and a limit decide
  when the loops around `emu_step` stop.
* **Widths.** Addresses, PPNs and the timer wrap or are truncated at 32 bits;
  division has operands for which C defines no result; immediates are scattered over
  the instruction word, differently in nearly every 16-bit instruction.
* **Floating point.** The accrued flags and the rounding mode live in registers that
  several instructions change, and conversions round by hand at the edge of the integers.

`PROJECT.json` lists each of these as a hazard at the line where it bites.

## 2. Modules

| module | models | builds on |
|---|---|---|
| `Hart` | one `emu_step` of the hart: timer poll, trap entry, returns, CSR writes, ecall/ebreak, stopping | |
| `TrapContext` | `Hart` with two history variables: the M and the S context that is outstanding | `Hart` |
| `Protection` | abstract specification: what each privilege level owns and may do | |
| `HartProtection` | the refinement mapping from `Hart` to `Protection` | `Hart`, instance of `Protection` |
| `Reservation` | RV32A on a memory that several tasks, sub-word stores and the page walker write | |
| `RetryLoop` | a shared counter built from `lr.w`/`sc.w` loops and `amoadd.w` | `Reservation` |
| `Sv32` | translation, A and D bits, permissions, fetch, load, store at every level | |
| `Loader` | `elf_load` and `emu_load_elf`: from a file to memory, pc and a running machine | |
| `BreakpointSet` | abstract specification: a bounded set of addresses | |
| `Session` | `main`: load, then `emu_run` or the debugger with its table and loops | `Loader`, instance of `BreakpointSet` |
| `Encoding` | instruction words: fields, immediates, encoders, `expand_compressed` | |
| `Alu` | integer arithmetic, RV32M, branch conditions, at a parametric width | |
| `Fpu` | `fpu_execute` on bit patterns, with flags and rounding modes | `Alu` |
| `FpEnvironment` | the host's floating-point environment (`<fenv.h>`) that `fpu.c` sets, restores and reads | `Fpu` |
| `Core` | `emu_run`, `emu_step` and `execute` on the values of registers, memory and CSRs | `Encoding`, `Fpu` |
| `Assembler` | the two-pass assembler of the demo generators | `Encoding` |
| `Firmware`, `FpFirmware`, `Compressed` | programs for `Core` and what each promises; the RV32C table | `Core`, `Assembler` |
| `SelfTest` | programs that try what the documentation claims | `FpFirmware` |
| `HartProofs` | theorems on the hart, its contexts and its refinement | `HartProtection`, `TrapContext` |
| `RetryLoopProofs` | theorems on reservations and on the loops over them | `RetryLoop` |
| `Sv32Proofs`, `SessionProofs` | theorems | the module they are named after |
| `CoreProofs` | theorems, and a small program logic: what the assembler puts where, and what each instruction does once it is at pc | `Core`, `Assembler` |
| `FirmwareProofs` | the promises of the programs, for every argument | `Firmware`, `CoreProofs` |
| `OutputProofs` | the promises of the programs that write to the console: the demo, the printer and the one that calls | `FirmwareProofs` |
| `FpFirmwareProofs` | the promises of the floating-point programs, for every operand | `FpFirmware`, `FirmwareProofs` |
| `MCHost` | C's bit operations and the host's floating point, for 16-bit words | `Fpu` |
| `MCKernel`, `MCAnyProgram`, `MCReservation`, `MCRetryLoop`, `MCSv32`, `MCSession`, `MCCore`, `MCFpEnvironment`, `MCSelfTest` | instances for TLC | |

### Hart

One action is one way through `emu_step`. `emu_step` polls the timer first
(`trap_check_interrupt`), so every action applies `Tick` and `Polled`; then it
either enters the interrupt handler (`TimerInterrupt`) or fetches and executes
(`Step(f)`), and every path of `execute` is a disjunct: a completed instruction
(`Plain`, `Jump`, `SetTimer`, `Mret`, `Sret`, `CsrInstr`, `HostService`), an
exception with a handler (`Exception`) and one without (`Unhandled`).

The software is a parameter. `Program[a]` is the *set* of things that may come
out of a fetch at `a`: an instruction, or the exception that the bytes at `a` or
the data access cause. The hart picks one each time, so a model with a set at
every address covers all programs made from it, self-modifying ones included.
A page fault is possible only while translation is on (`Fetched`). A store to
`mtimecmp` (`SetTimer`) may be a 16-bit instruction, `c.sw`, as any other may.

State: `priv`, `pc` and `state` are the fields of `emulator_t`; `csr` has the
registers that decide something, `mstatus` with its six trap fields, `mie` and
`mip` reduced to the timer bit (the only one the code tests), `satp` to its MODE
bit. `timer` abstracts `mtime` and `mtimecmp` to their distance: `on` is
`mtimecmp != 0`, `left` the ticks until `mtime >= mtimecmp`.

Abstracted: register values; `mtval`, `stval`, the scratch registers, the FP
CSRs, `sie`, `sip`, `mcycle` (nothing reads them to decide; `Core` has them); the interrupt bit of
the cause, scaled from bit 31 to bit 4. CSRs from 0x800 on are missing because
the decoder sign-extends the address and the instruction becomes illegal.

### Protection

Levels own state: M owns `mtvec`, `MPP`, `mepc`, `mcause`, `mie`, delegation, `MIE`,
`MPIE`; S owns `stvec`, `SPP`, `sepc`, `scause`, `satp`, `SIE`, `SPIE`. A level changes
only what it or a lower level owns (`Run`), and the level rises only by
`TrapToS` and `TrapToM`, which go where the target level said and record who
was interrupted. `HartProtection!ImplementsProtection` is this specification
under the mapping.

### Reservation and RetryLoop

`mem`, `reservation_valid`, `reservation_addr` are the code's. The comparison is
the code's too: a store drops the reservation only if its *first byte* is the
reserved address (`StillValid`). `task` is the task on the hart and `linked` a
history variable: for each task the word of its last `lr.w`, for as long as
nobody writes any byte of it. Memory instructions run to completion in the
program, so each is one action; `Switch` is a timer interrupt, the kernel and
its `mret`, which leave the reservation alone unless the kernel executes an
`sc.w` of its own (`KernelClears`). Only words inside memory appear: an access that
faults changes none of these variables.

`RetryLoop` restricts the tasks to a program: load the counter with `lr.w`, store
to data of one's own, `sc.w` the incremented value and start over, or `amoadd.w`.

### Sv32

`mmu_translate` is `Translate`, a set of results that is empty for a page fault.
Leaf selection (`LargeLeaf`, `SmallLeaf`), `pte_allows` and `pte_update_ad`
(`Marked`) follow the code; `Frame` is the truncation of the 22-bit page number to
the 32-bit address space. Memory holds one entry a word, so a store may hit data or
a table, also the very entry that translates it. A fetch of a 32-bit instruction
at the end of a page is `FetchAcross`: its second translation runs in the memory
the first one left. `granted` and `kept` remember, at every entry to U, what the
tables then allow U to write and the rest of memory; `used` and `dirty` remember
which entries translated an access or a store since they were last written.

An `emu_step` is one fetch and then at most one data access; here they are two
steps. Other traps, returns and writes to `satp` and `SUM` may come in between, which
adds behaviours and removes none. `NoAccess` is what the code translates, marking
the entry, and then does not access: an `sc.w` without a reservation, and loads, stores and
atomics of encodings that do not exist. `Return` goes to any level, also to the one that
MPP = 2 leads to, which is neither U nor S to `pte_allows`. `Raise` goes to M or, from below, to S: which of
the two is `Hart`'s question.

### Loader and Session

`Loader` takes a file as what `elf_load` reads from it: a verdict on the ELF header,
the program headers the file really contains (the loop breaks at the first that does
not fit), and bytes. One action is one round of the loop (`LoadSegment`, `SkipSegment`);
`ContentAfter` is `memory_load` followed by the clearing of `.bss`, which happens only
if all of it fits. `Finish` is `emu_load_elf`: an entry point of 0 is a failure,
because 0 is how `elf_load` reports one, although memory is already written. `image`
is memory as the load leaves it. `ImageOf` says independently what a file describes.
Segments end inside the address space (`LoaderAssumption`), as linkers make them, so
no sum of the loader wraps.

`Session` is `main` around it. `mode` tells which loop is active: the prompt of
`debug_repl`, `cmd_step`, `cmd_continue` or `emu_run`; `steps` and `limit` are that
loop's. Each round of a loop is an action, and so is the test that ends it. The hart is a
parameter, `Outcomes`: which pc and state `emu_step` may leave. `breakpoints` keeps its
stale entries behind `bp_count`, as the array does. Commands that only print are left out.

### FpEnvironment

`Fpu` takes an operation as a function of its operands and a rounding mode, with flags of
its own. The host has one mode and one set of flags for the whole process, `host`, and
the code makes its functions out of them: it clears the flags and sets the mode before an
operation (`Entered`), puts the mode back and collects the flags after it (`Restored`,
`Finished`), and leaves them set. `FpArith`, `IntToFloat` and `FloatToInt` are the
three functions that do so, `FloatToIntAtOnce` the early returns of the last, which
may leave the host an invalid flag nobody collects, `Exact` the operations that do not
touch the environment. The contract they must meet is `Fpu`'s
(`OperationsAreTheirOwn`). `fpu.c` has no `#pragma STDC FENV_ACCESS`; that the
compiler keeps each operation between the two calls of `fesetround`, which the
`volatile` operands are there for, is assumed.

### Core and its programs

`Core` is the same loop as `Hart`, seen from the other side: what instructions compute.
`Step` is one `emu_step`: the timer poll, `Parcel` and `Instruction` for the fetch, the
expansion and `decode`, then one action for each class of instruction in `execute`
(`Compute`, `Branch`, `Jump`, `Load`, `Store`, `FpLoad`, `FpStore`, `FpOp`, `System`
with the host services, `CsrInstr`) and `Fault` for everything refused. The refusals
are those of the code: each is a condition of its own, not "none of the above".

It is the machine of software that installs no handler and stays in M. `mtvec` and
`stvec` are 0, so an exception ends the run, no interrupt is taken and nothing is
translated; `mip` still shows the pending timer. A program that touches the trap CSRs
or executes `mret` or `sret` has no step here, it is `Hart`'s.

* A program is a parameter: `Boots` is the set of machines that may be started, each with
  text, entry point, step bound and `mtime`, the ticks that have passed with the timer off.
  Text and data lie apart, so no program writes its text.
* A 32-bit instruction word is the record of its six fields, because TLC's integers are
  32 bits wide and signed; half words are numbers, and `Halves` and `Joined` go between
  the two.
* The width of a register, `XLEN`, is a parameter. The program has 32. A byte has `XLEN / 4`
  bits, so a word is four bytes at every width and all of the alignment, bounds and
  byte-order logic is the program's. `BitAnd`, `BitOr`, `BitXor` are C's.
* Floating-point numbers have `ExpCount` exponents and `FracBits` bits of fraction (256
  and 23 in the program). `HostArith` is what the host's `+ - * /` and `sqrtf` return,
  with the flags they raise; selection, sign injection, comparison, classification, both
  directions of conversion and the accrual of flags are the code's own and modelled.
* `csr` holds the registers that keep data; `fflags` is a set of flags; `fcsr`, `mip` and
  `mcycle` are views. CSRs from 0x800 on are not found, see `conformance`.
* The branch of `execute` for FENCE has no action: `decode` refuses the word before
  (`get_fmt` has no such opcode), so it is a `Fault`. `expand_compressed` has no case
  for C.FLW and its kin, so they are refused too.
* Where the code differs from IEEE 754 the model follows the code: two NaNs of which one
  signals raise no NV in `fmin` and `fmax`; `fcvt.wu.s` of -0.5 raises NV; rounding mode 4
  is nearest-even.
* An access in the last word of the address space has no step: there `addr + n` wraps in
  `u32`, the bounds check passes and the read behind it is undefined in C.

`Firmware`, `FpFirmware` and `Compressed` put all this to the use software makes of it. A
program is assembled by `Assembler`, runs on `Core`, and has a promise about its end
that is stated in terms of what it was given, not of how the machine got there: the
factorial demo prints the decimal expansion of the factorial, a loop around `write` gets
everything out, quotient and remainder recombine, a byte patched by shifts equals the byte
stored, calls between 16-bit and 32-bit code return, a delay lasts what it was asked
to. `Compressed` boots one program for *every* 16-bit value and compares its expansion
with the table of the RV32C chapter, written down independently (`Meaning`).

`SelfTest` runs a handful of small programs one after the other, each of which exits with
0 if it finds what the README or a comment claims.

## 3. What is checked

Twelve runs. The first eight pass; the last four state what a document or comment
says and show that the code does something else.

| run | instance | shows |
|---|---|---|
| `contexts` | `MCKernel`, `Kernel.cfg` | a saved context is kept until its owner returns or rewrites it, returns restore it, M handlers are not nested; the timer is delivered, preempted user code progresses |
| `protection` | `MCAnyProgram`, `AnyProgram.cfg` | `Hart` implements `Protection`, timer interrupts included; with handlers installed nothing stops the emulator, and M's own instructions do not even while S has none |
| `reservation` | `MCReservation`, `Reservation.cfg` | `sc.w` succeeds only for the task that reserved the word, with no write since |
| `retry_loop` | `MCRetryLoop`, `RetryLoop.cfg` | no increment is lost; an undisturbed task gets its increment through |
| `paging` | `MCSv32`, `Sv32.cfg` | user isolation; A and D record every use |
| `session` | `MCSession`, `Session.cfg` | a program starts on the memory its file describes; the breakpoint table is a set; the loops stop where they should and always come back |
| `core` | `MCCore`, `Core.cfg` | some 3000 programs and every 16-bit instruction: what software computes, prints, stores, waits for and reads back is what it relies on |
| `fp_environment` | `MCFpEnvironment`, `FpEnvironment.cfg` | no operation sees the flags or the mode that another left in the host; the host's mode is put back |
| `rvc_return` | `MCKernel` | a trap at a 16-bit instruction at 4k+2 returns to 4k: `mepc` is rounded down although RV32C is on |
| `delegated_timer` | `MCKernel` | a delegated timer interrupt ignores SIE and re-enters the S handler |
| `sub_word_store` | `MCReservation` | `sb`/`sh` into the reserved word, not at its first byte, leaves the reservation |
| `conformance` | `MCSelfTest` | `fmax` returns the minimum, FENCE is illegal, `mcycle` does not exist, and a deadline cannot be moved ahead of an `mtime` that has outgrown 32 bits |

Each property of a passing run has a mutant: an operator that a plausible slip in
the code would give, next to the definition it replaces (`\* Mutant:`). With the
mutant in place TLC refutes the property.

Two situations are outside the passing `reservation` and `retry_loop` runs because the
code does not protect against them, and the theorem below names them as
assumptions; the passing runs are about software that stays clear of them. The walker's write of A or D into a reserved entry leaves the
reservation (set `LinkAddrs` and `PteWords` to `{4}` in `ReservationSubWord.cfg`), and a
kernel that does not clear the reservation at a switch lets the `sc.w` of one task
succeed on the `lr.w` of another (`KernelClears = FALSE` in `RetryLoop.cfg`).

### Bounds

* `MCKernel`: 128 bytes of code, half of them for each entry. In the kernel a deadline is at
  most two ticks away. Contexts
  nest at most two deep (M inside S), so two handlers and one user loop with
  16-bit and 32-bit instructions meet every nesting; two ticks let the interrupt
  fall on every instruction of each handler. In the scheduler `Period` is at least four
  ticks, since with less the handler alone would fill the time between two interrupts and
  no user code could run; `MaxLeft` is the greatest of these deadlines.
* `MCAnyProgram`: eight addresses at the end of the address space (two of them odd halfwords,
  and the wrap), every instruction of the repertoire at every address and level; what
  falls off the end jumps back. Eight more, with an entry of their own, for software that
  deals with the timer: all at once would be ten times the states. `MaxLeft` is 0, so an
  armed timer is pending at once; deadlines that lie ahead are left to the `contexts` run.
  CSR values are two or three per register.
* `MCReservation`, `MCRetryLoop`: two words of one-bit bytes and two tasks. A reservation is
  one address; one word that is reserved and one that is not, and one task that reserves
  and one that disturbs it, are all it can tell apart.
* `MCSv32`: tables and pages of two words, three pages: a root, a second table and
  data, a page number beyond memory and one beyond the address space, under which U may
  write as under any other. Large pages
  cover two pages, one of which can lie outside memory.
* `MCCore`, `MCSelfTest`: words of 16 bits, numbers with 6 bits of exponent and 9 of
  fraction. As in the program, every integer of a word is in the range of the
  numbers but not every one is exact; signed products of two words still
  fit TLC's integers, and `MULHU` goes by the halves of one operand. Operands are the corners and their neighbours (0, 1, -1,
  the least and greatest integers, powers of two and one beside them; zeros, infinities,
  both kinds of NaN, the least normal and subnormal patterns, halves, values around the
  integer range and one far below a quarter), crossed with each other; 16-bit instructions are all 49,152. `MaxWrite`
  is 6 so that outputs of 7 and 12 bytes need two calls; `MemSize` is 1024 with accesses
  from 0 to 8 bytes before its end. Delays start at 0, 7 and 60000, the last so that
  time and deadline are beyond the greatest signed word. Each program has a step bound (`max_steps`)
  well above what it needs; `ProgramsEnd` shows that none reaches it.
* `MCFpEnvironment`: the same words and numbers; operations that raise each flag the small
  IEEE 754 has and none, exact and inexact, in three static modes and the dynamic one, with
  `frm` at 0, 2 and the reserved 5 and 3 (11 written). A flag or a mode left behind
  shows in the next operation, so any order of two operations and a CSR write is enough.
* `MCSession`: a memory of four bytes, three-byte files with up to three headers chosen from
  seven: overlapping, sticking out of file or memory, `.bss` only, not loadable. Every
  pair overlaps in one way or another, and three headers are a pair after one that set
  the scene. Two slots and three addresses give a full table, a delete in front of
  another entry and stale slots; the theorem is about any size. Limits of two and three
  steps are reached with the program still running and after it ended.

### Fairness

`emu_run` calls `emu_step` in a loop while the state is running (with `max_steps` 0
for ever), and one step always ends. So the `contexts` run assumes weak fairness of
`HNext` (the steps of `Next` with two history variables), nothing about which instruction the program chooses, and `RetryLoop` weak
fairness of the running task's instructions (`Run`), nothing about how often the kernel
switches. `TimerDelivered` excuses software that moves the deadline for ever,
`UserProgress` is about the scheduler (in the kernel the S handler may fault for ever),
`UndisturbedProgress` about a task that is at last left alone. `Session` has weak
fairness of `Proceed`, what the program does by itself, and none of `Command`: the user
need not type. Nothing fair is assumed of `Core`: its programs are bounded by `--steps`.

Deadlock is checked except in the runs on `Hart`, where the emulator may stop
(`HALTED`, `EXCEPTION`) and then does nothing more, in `session`, which ends when
`main` returns, and in `conformance`, which ends when every program was tried. In `core`
it is checked: `Returned` is the machine after its run, and a state without any other step
would be an instruction that the model neither executes nor refuses.

## 4. What is proved

For every value of the constants: any program, address space, memory size, number
of tasks, table layout. The assumptions are the `ASSUME`s of the modules, which only
type the constants (`AddrSpaceAssumption`, `ProgramAssumption`, `FanoutAssumption`, ...).

| theorem | statement | argument |
|---|---|---|
| `HartProofs!TypeCorrect` | `Spec => []TypeOK` | `TypeOK` is inductive; lemmas on `WordOf`, `Following`, saved registers |
| `HartProofs!HandledHartRuns` | `Spec => HandlersKeepRunning` | with handlers there is a vector for every cause, a level above S delegates nothing, and no host service applies |
| `HartProofs!MContextIsKept`, `SContextIsKept` | `HSpec => []MContextKept`, `[]SContextKept` | `IInv` is `TypeOK` with both: neither is inductive alone, because a trap of one level rewrites the shared `mstatus` word |
| `HartProofs!ReturnsRestore`, `MHandlersUninterrupted` | action properties | from `IInv` |
| `HartProofs!HartImplementsProtection` | `Spec => ImplementsProtection` | every step maps to `Run`, `TrapToS`, `TrapToM` or a stutter; `CsrGuard` connects the address bits to the owner of each register |
| `HartProofs!HistoryTypeCorrect` | `HSpec => []HTypeOK` | inductive with `TypeOK` |
| `RetryLoopProofs!ReservationTypeCorrect` | `Spec => []TypeOK` | inductive |
| `RetryLoopProofs!DisciplinedReservations` | under `Disciplined`, `Spec => []ReservationFresh` | a write hits a reserved word only at its first byte, so comparing start addresses is enough |
| `RetryLoopProofs!RetryLoopTypeCorrect` | `RSpec => []RTypeOK` | the loops refine `Reservation`, whose type invariant is inductive |
| `RetryLoopProofs!NoIncrementLost` | under `Disciplined`, `RSpec => []NoLostUpdate` | `LInv` adds to `ReservationFresh` that what a task loaded is the present count for as long as nobody wrote the word |
| `Sv32Proofs!PagingTypeCorrect` | `Spec => []TypeOK` | inductive, one lemma per access |
| `Sv32Proofs!UserIsolated` | `Spec => []Isolation` | `IInv` adds that U cannot write the tables it runs on and that `kept` is what lies outside the grant *now*; `GrantStable`: the walk reads only `Tables`, so a step that leaves those alone leaves the grant alone |
| `Sv32Proofs!UseRecorded` | `Spec => []BitsRecordUse` | inductive with `TypeOK`; a translation only sets bits, and a store over an entry restarts its record |
| `SessionProofs!ProgramStartsOnItsImage` | `SSpec => []StartsOnItsImage` | at every round memory is `ImageOf` of the headers so far; the header handled last is the greatest claimant of what it writes |
| `SessionProofs!BreakpointTableIsASet` | `SSpec => TableIsASet` | inductive: no address twice, so the count is the cardinality, and moving the tail up over the deleted slot loses that address only |
| `SessionProofs!SessionTypeCorrect`, `ContinueStopsAtBreakpoints`, `EndedProgramStaysEnded`, `LoopsEndForAReason` | invariants and action properties of `Session` | the same invariant, and that no loop outruns its bound |
| `CoreProofs!MachineTypeCorrect` | under `HostTyped`, `Spec => []CTypeOK` | `CInv` adds to `CTypeOK` that the booted program is one of `Boots` and that `frm` has three bits, without which `fcsr` would not fit its eight; one lemma per class of instruction, on lemmas about each operation of `Alu` and `Fpu` |
| `CoreProofs!FlagsAccumulate` | `Spec => FlagsAccrue` | `FpOp` only adds flags, and of the rest only a CSR write touches them |
| `CoreProofs!DivisionIsExact` | quotient times divisor plus remainder is the dividend; size and sign of the remainder | cases on the signs, zero and `INT_MIN / -1` |
| `CoreProofs!ImmediatesRoundTrip` | decoding what `enc_i`, `enc_s`, `enc_b`, `enc_j` encode gives the immediate back | each slice of the word is a quotient and a remainder |
| `CoreProofs!FetchJoinsHalves` | `Joined` of the `Halves` of a word is the word | likewise |
| `FirmwareProofs!DivisionLawsHold` | `Spec => []DivisionLaws`, words of up to 32 bits, any dividend and divisor | the words of the program are at their addresses (`DivideAssembled`), each step leaves in the registers what `DivideFacts` says for its time, and `DivisionIsExact` with `ProductWords` makes the promise of it |
| `FirmwareProofs!MemoryEnds` | `Spec => []EndOfMemory`, any distance from the end that fits an immediate | `TouchFacts` and `LastFacts`: the access retires exactly if it is aligned and inside, and nothing else can be at pc |
| `FirmwareProofs!WordsStayAssembled` | `Spec => []WordsAssemble`, any two words and any of the four bytes | `PatchFacts`: registers and the two words of memory after each step; the byte that is stored and the byte that shifts put there are the same digit to base `ByteSize` of the word (`WordsEnd`) |
| `FirmwareProofs!CsrViewsHold` | `Spec => []CsrViewsAgree`, any two words | `CsrsFacts`: the value of each register and of `frm`, `fflags`, `mcause`, `mepc` after each of twenty steps |
| `FirmwareProofs!WaitsEndInTime` | `Spec => []WaitsAsAsked`, any two delays, any time of booting for which time and deadline fit a word | `DelayFacts`: the program prepares, waits for the first time or for the second; within a wait `Turn` relates the time, the time the wait began at, the deadline and what the last look at `mip` saw, word by word of its loop. A look that finds nothing is before the deadline, so the next one is at most one turn late |
| `OutputProofs!OutputArrives` | `Spec => []OutputComplete`, any argument of the demo with its factorial in a word, any number of bytes to print | `PrintFacts` and `DemoFacts`, indexed by the word at pc. Printing: what went out and what is left make up the text, whatever part of it each `write` takes. The demo: the register holds the factorial of what was counted so far, the buffer the digits below the present quotient, and `DemoEnds` reads the number back from the digits |
| `OutputProofs!CallsComeBack` | `Spec => []CallsReturn`, each of the three routines in 16-bit or in 32-bit instructions, text and stack wherever they fit | `CallsText` places the instructions for the three lengths, and `CallsFacts` says for each of the 28 steps where the program is, what it has said, what `sp`, `ra` and the registers of the calls hold, and which return address lies on the stack; `StoredLoads`: a word read back is the word stored, and `ShortForms` gives what `expand_compressed` makes of the six short instructions |
| `FpFirmwareProofs!LeastIsLeast` | `Spec => []MinIsLeast`, any two operands, any format of numbers | the patterns are ordered by `Order`, an integer; `fp_min_max` and `fp_compare` both go by it, and only the two zeros share a place (`Zeros`) |
| `FpFirmwareProofs!FlagsKept` | `Spec => []FlagsOfAll`, any two operands | `SumsFacts`: what each operation raises when it runs alone, and the union of what was raised so far when they run in a row |
| `FpFirmwareProofs!ConversionsRound` | `Spec => []ConversionRounds`, any pattern, integer, static mode and format of numbers | a quotient and a remainder by the unit that is lost, rounded as the code does, satisfy the definition of rounding by distance (`RoundedUnits`); `ToIntRight` and `ToFloatRight` are the two directions, `CoarserUnit` the carry into the exponent, `BackAgain` the way back |
| `FpFirmwareProofs!DirectedIsBracketed` | `Spec => []DirectedBracket`, any operands of which `HostBrackets` holds, any format of numbers | `BracketFacts`: `frm` when each operation runs, its result and the union of what was raised; a dynamic mode is the static one `frm` names, and a static one does without `frm` (`SettledModes`); `HostSettles`: after the unit's replacement of NaNs there is one result per mode, and the three lie as the host's do |

The theorems about programs go by a small program logic. `CoreProofs!Induction` and
`Recursion`, from the library's `WFMin`, unfold the assembler's two passes, so each program
has its words at known addresses (`*Assembled`); `AtWord` names the instruction at pc, and
one lemma per instruction says what it does to registers, memory, CSRs and flags. The inductive
invariant of each program lists what every register holds at each of its steps (`*Facts`),
with `CInv` for the ranges; the promise follows from its last step by a lemma on numbers.
`WaitsEndInTime` and `OutputArrives` are about programs with loops, so their facts are indexed by
the address instead of the time. `CallsComeBack` is about instructions of two lengths, so its
addresses are sums of them, and `AtEither` takes the place of `AtWord`. A theorem's last hypothesis says which arguments the program is booted with; that
is all it says of `Boots`, so any other program may be booted beside it.

The hypotheses of these theorems are about what is not the program's own code. They are not
`ASSUME`s, since TLC would have to try all pairs of words:

* `HostTyped`: C's `& | ^` and the host's arithmetic return words and flags.
  `BitLaws`: `a | 0 = a` and `a & b <= a`. `JoinsFlags`: `|` of two sets of flags is their
  union.
* `HostAnswers`, `HostDecides`: an operation has a result, and its flags do not depend on which
  of the admissible results (which NaN) the host picks.
* `HostBrackets(vs)`, of `DirectedIsBracketed` only: for operands in `vs`, the host's own results
  downward and upward are neighbours if an operation is inexact and equal otherwise, and its
  nearest result is one of them, as IEEE 754 asks; if one is a NaN, all are. It is about
  `HostArith`, mode by mode. What is left to prove is the code's part: which mode each
  instruction runs in, whose flags are added, which results reach the registers. The
  host of the instance for TLC satisfies it for the operands that `Core.cfg` runs.
* `XLEN <= 32`: 32-bit immediates and shift amounts of five bits cover a register. The
  program has 32, the instance for TLC 16.
* `TextFits(n)`, `DataFits(n)`: the n words of text and n bytes of data lie in memory, where the
  demo generators put them.
* `MemoryEnds` also asks that memory be a whole number of words and that no MMIO register be at
  its end. Its text is four words long, but an access may be to any address.
* `OutputArrives` asks that the demo's arguments be those for which the demo generator would print a
  factorial at all: k is not zero, k! fits a word and has no more digits than the buffer has
  bytes. A text to print has a length that fits a byte, and `MaxWrite` is positive (the code's
  is 8192).
* `WaitsEndInTime` also asks that the two CLINT addresses be multiples of four, as 0x0200BFF8
  and 0x02004000 are.

Only model-checked:

* Liveness (`TimerDelivered`, `UserProgress`, `UndisturbedProgress`, `LoopsEnd`), which is beyond
  the prover, and `ProgramsEnd`, its bounded form: the number of steps of a loop depends on
  its argument, and a proof needs a bound for each program.
* `ExpansionAsTabulated`: `Meaning` and `expand_compressed` are two tables of the same 49,152
  instructions, and TLC tries all of them.
* `FpEnvironment` (`OperationsAreTheirOwn`): what the host's flags and mode do between the
  operations.

`FlagsAccrue`, the other way round, is proved and has no run of its own: `FlagsOfAll` checks what
the flags add up to.

## 5. Not modelled

* The disassembler, option parsing, the usage text, `--selftest` and all printing: text,
  on which no state depends.
* The host's floating-point unit: a parameter (`HostArith`), with a small IEEE 754 in the
  instance for TLC.
* The bodies of the self tests and of the demos other than the factorial. They were read
  for what they expect; the trap, S and paging demos are among the arbitrary software of
  `Hart` and `Sv32`.
* The text and data ranges the loader finds, which are only printed.
* One machine with everything in it. `Hart` has no values, `Core` no traps and `Sv32`
  neither, because their product is beyond a model checker. They meet where the code's
  parts do: a refusal of `Core` is an exception of `Hart`, `Sv32`'s faults are
  `Hart`'s exceptions, and `Session` takes any outcome of a step.

Known differences between the code and what is said of it that have no run of their own:

* `ebreak` tests only `mtvec` before it raises its trap (`execute.c:603`), so with `mtvec` 0
  it halts although it is delegated to an S handler. `HandlersKeepRunning` therefore
  asks for `mtvec`. No document says what should happen.
* Below M, an exception delegated before `stvec` is written stops the emulator although M has
  a handler (`trap.c:34`). `HandlersKeepRunning` excludes it there, and shows that it does
  not reach M.
* MPP = 2 is kept as written, and `mret` then enters a level that does not exist
  (`trap.c:142`; `csr.h:75-78` names three). `Protection` counts it as a level between S and M.
* The page fault of the second half of a fetch is reported as an access fault, cause 1
  (`emu.c:161`).
* The debugger shows the bytes at the virtual pc in physical memory (`debug.c:114`).
