------------------------------ MODULE Firmware ------------------------------
(***************************************************************************)
(* Programs for the bare machine, and what each of them promises.  The first  *)
(* is the demo of tests/gen_demo_elf.py; the others put the instructions, the *)
(* CSRs and the timer to the use software makes of them.  A promise is about   *)
(* the end of a run, in terms of what the program was given.                  *)
(***************************************************************************)
EXTENDS Core, Assembler

CONSTANTS TEXT, DATA        \* where text and data lie

RA == 1
SP == 2
T0 == 5
T1 == 6
T2 == 7
S0 == 8
S1 == 9
A0 == 10
A1 == 11
A2 == 12
A3 == 13
A4 == 14
A5 == 15
A7 == 17
S2 == 18
S3 == 19
T3 == 28
T4 == 29
T5 == 30

\* A program with its arguments, bounded to budget steps.
Booted(name, args, items, budget) ==
    [name |-> name, args |-> args, code |-> assemble(items, TEXT), entry |-> TEXT,
     mtime |-> 0, max_steps |-> budget]

Ended(name) == boot.name = name /\ state = "HALTED"

-----------------------------------------------------------------------------
\* The demo: k! in decimal, digits from the last to the first, then one write.

exit == <<li32(A0, 0), li32(A7, 93), ecall>>

demo(k) ==
    <<li32(A0, 1), li32(T0, k),
      Label("fact_loop"), mul(A0, A0, T0), addi(T0, T0, -1), bnez(T0, "fact_loop"),
      li32(T2, DATA + 16), mv(T3, T2), li32(T4, 10),
      Label("digit_loop"), remu(T5, A0, T4), divu(A0, A0, T4), addi(T5, T5, 48),
      addi(T3, T3, -1), sb(T5, T3, 0), bnez(A0, "digit_loop"),
      li32(A0, 1), mv(A1, T3), sub(A2, T2, T3), li32(A7, 64), ecall>>
    \o exit

Demos(ks) == {Booted("demo", <<k>>, demo(k), 400) : k \in ks}

\* Fill n bytes from a with 1 .. n, then call write until nothing is left of len.
print(a, n, len) ==
    <<li32(A1, a), mv(T0, A1), li32(T1, 1), li32(T2, n + 1),
      Label("fill"), sb(T1, T0, 0), addi(T0, T0, 1), addi(T1, T1, 1), bne(T1, T2, "fill"),
      li32(A2, len), li32(A7, 64),
      Label("more"), ecall, beq(A0, 0, "done"), add(A1, A1, A0), sub(A2, A2, A0),
      bnez(A2, "more"),
      Label("done"), ebreak>>

Printers(ns) ==
    {Booted("print", <<n, n>>, print(DATA, n, n), 200) : n \in ns}
    \cup {Booted("print", <<n, n + 3>>, print(MemSize - n, n, n + 3), 200) : n \in ns}

\* What a program writes arrives whole and in order.  The demo's output is the
\* decimal expansion of its result; a program that calls write until everything
\* is out gets out what is in memory, although one call writes at most MaxWrite
\* bytes (execute.c:584) and stops at the end of memory.
OutputComplete ==
    /\ Ended("demo") =>
         LET digit(j) == (out[j] - 48) % ByteSize
             number[j \in 0 .. Len(out)] ==
                 IF j = 0 THEN 0 ELSE 10 * number[j - 1] + digit(j)
             factorial[j \in 0 .. boot.args[1]] ==
                 IF j = 0 THEN 1 ELSE j * factorial[j - 1] IN
         /\ number[Len(out)] = factorial[boot.args[1]]
         /\ \A j \in 1 .. Len(out) : digit(j) \in 0 .. 9
         /\ digit(1) # 0
    /\ Ended("print") => out = [j \in 1 .. boot.args[1] |-> j]

-----------------------------------------------------------------------------
\* Division and the high words of a product.

divide(a, b) ==
    <<li32(T0, a), li32(T1, b),
      op(1, 4, S0, T0, T1), op(1, 6, S1, T0, T1), mul(T2, S0, T1), add(T2, T2, S1),
      divu(S2, T0, T1), remu(S3, T0, T1), mul(T3, S2, T1), add(T3, T3, S3),
      mul(T5, T0, T1), op(1, 1, A0, T0, T1), op(1, 2, A1, T0, T1), op(1, 3, A2, T0, T1), ebreak>>

Divisions(as, bs) == {Booted("divide", <<a, b>>, divide(a, b), 200) : a \in as, b \in bs}

\* Software gets a = q * b + r back for every a and b, zero and INT_MIN / -1
\* included, with a remainder smaller than the divisor and of the dividend's sign;
\* division by zero gives all ones (execute.c:29-34).  The two words of a signed
\* product are the product, and the three high words differ by the operands that the
\* signed readings take for negative.
DivisionLaws ==
    Ended("divide") =>
        LET a == boot.args[1]
            b == boot.args[2]
            r == Signed(regs[S1]) IN
        /\ regs[T2] = a /\ regs[T3] = a
        /\ IF b = 0 THEN regs[S0] = Size - 1 /\ regs[S2] = Size - 1
           ELSE /\ Magnitude(r) < Magnitude(Signed(b))
                /\ r = 0 \/ (r < 0 <=> Signed(a) < 0)
                /\ regs[S3] < b
        /\ Signed(regs[A0]) * Size + regs[T5] = Signed(a) * Signed(b)
        /\ regs[A2] = Wrap(regs[A1] + (IF Signed(a) < 0 THEN b ELSE 0))
        /\ regs[A1] = Wrap(regs[A0] + (IF Signed(b) < 0 THEN a ELSE 0))

-----------------------------------------------------------------------------
\* Bytes of a word, by memory accesses and by shifts.

ByteBits == XLEN \div 4

patch(w, v, k) ==
    <<li32(T0, w), li32(T1, v), li32(S0, DATA), sw(T0, S0, 0), sb(T1, S0, k),
      lw(A0, S0, 0), load(5, A1, S0, 0), load(5, A2, S0, 2),
      load(1, S2, S0, 2), load(0, S3, S0, k), flw(0, S0, 1), fsw(4, 1, S0),
      load(4, T3, S0, 4 + k), store(1, A2, S0, 4), lw(T4, S0, 4),
      li(T2, k * ByteBits), op(0, 5, T5, A0, T2),
      li(T2, XLEN - (k + 1) * ByteBits), op(0, 1, A3, A0, T2),
      li(T2, XLEN - ByteBits), op(0, 5, A4, A3, T2), op(32, 5, A5, A3, T2), ebreak>>

Patches(ws, vs) ==
    {Booted("patch", <<w, v, k>>, patch(w, v, k), 200) : w \in ws, v \in vs, k \in 0 .. 3}

ByteOf(w, k) == (w \div Pow2[ByteBits * k]) % ByteSize

\* Words, halves and bytes are views of the same little-endian memory, for integer
\* and floating-point accesses: a byte stored into a word changes that byte only,
\* two halves make up the word, and only signed loads extend the sign.  Shifting the
\* byte to the top and down again gives what lbu and lb give.
WordsAssemble ==
    Ended("patch") =>
        LET w == boot.args[1]
            v == boot.args[2] % ByteSize
            k == boot.args[3]
            low == Pow2[XLEN \div 2] IN
        /\ \A j \in 0 .. 3 : ByteOf(regs[A0], j) = IF j = k THEN v ELSE ByteOf(w, j)
        /\ regs[A0] = regs[A1] + low * regs[A2]
        /\ Signed(regs[S2]) = IF 2 * regs[A2] >= low THEN regs[A2] - low ELSE regs[A2]
        /\ Signed(regs[S3]) = IF 2 * v >= ByteSize THEN v - ByteSize ELSE v
        /\ regs[T3] = v
        /\ regs[T4] = regs[A2] + low * regs[A2]
        /\ regs[A4] = v /\ regs[A5] = regs[S3] /\ regs[T5] % ByteSize = v

-----------------------------------------------------------------------------
\* Calls: main calls f, f saves ra and calls g; in 16-bit or in 32-bit instructions.

say(n) == <<li(T0, n), sb(T0, S2, 0)>>
call(c, r)    == IF c THEN Short(36866 + r * 128) ELSE jalr(RA, r, 0)   \* c.jalr
ret(c)        == IF c THEN Short(32770 + RA * 128) ELSE jalr(0, RA, 0)  \* c.jr
push(c)       == IF c THEN <<Short(c_addi(SP, -4)), Short(49154 + RA * 4)>>      \* c.swsp
                 ELSE <<addi(SP, SP, -4), sw(RA, SP, 0)>>
pop(c)        == IF c THEN <<Short(16386 + RA * 128), Short(c_addi(SP, 4))>>     \* c.lwsp
                 ELSE <<lw(RA, SP, 0), addi(SP, SP, 4)>>

calls(cm, cf, cg) ==
    LET g == TEXT + 4
        f == g + 8 + (IF cg THEN 2 ELSE 4) IN
    <<jal(0, "main")>>
    \o say(3) \o <<ret(cg)>>
    \o push(cf) \o say(2) \o <<li32(T1, g), call(cf, T1)>> \o say(4) \o pop(cf) \o <<ret(cf)>>
    \o <<Label("main"), li32(SP, DATA + 64), li32(S2, CSR_MMIO_UART)>>
    \o say(1) \o <<li32(T1, f), call(cm, T1)>> \o say(5)
    \o (IF cm THEN <<Short(c_ebreak)>> ELSE <<ebreak>>)

Calls == {Booted("calls", <<>>, calls(cm, cf, cg), 200) : cm, cf, cg \in BOOLEAN}

\* Every call comes back to the instruction after it, whatever the lengths of the
\* calling and the returning instruction, and the stack is as it was.
CallsReturn ==
    boot.name = "calls" /\ ~Going =>
        state = "HALTED" /\ out = <<1, 2, 3, 4, 5>> /\ regs[SP] = DATA + 64

-----------------------------------------------------------------------------
\* The timer: wait d ticks, then e ticks, by polling mip.

wait(d, again) ==
    <<lw(T0, S0, 0), li32(T1, d), add(T1, T1, T0), sw(T1, S1, 0),
      Label(again), csrr(T2, CSR_MIP), beq(T2, 0, again), lw(A0, S0, 0), sub(A0, A0, T0)>>

delays(d, e) ==
    <<li32(S0, CLINT_MTIME_LO), li32(S1, CLINT_MTIMECMP_LO)>>
    \o wait(d, "first") \o <<mv(S2, A0)>> \o wait(e, "second") \o <<ebreak>>

\* start is the time at which the program is booted.
Delays(ds, starts) ==
    {[Booted("delays", <<d, e>>, delays(d, e), 200) EXCEPT !.mtime = start] :
        d \in ds, e \in ds, start \in starts}

\* A wait ends when it was asked to and not before: at least d ticks pass, and at
\* most one turn of the polling loop more.  The second wait is not cut short by the
\* interrupt still pending from the first one, because storing the new deadline
\* makes the next poll withdraw it.
WaitsAsAsked ==
    Ended("delays") =>
        \A k \in 1 .. 2 :
            LET asked == boot.args[k]
                waited == regs[<<S2, A0>>[k]]
                arming == 5     \* steps from reading the time to the first look at mip
                turn == 3 IN
            /\ waited >= asked
            /\ waited <= (IF asked < arming THEN arming ELSE asked) + turn

-----------------------------------------------------------------------------
\* The end of memory: an access by instruction a, d bytes before the end.

Accesses == {<<OP_LOAD, f3>> : f3 \in {0, 1, 2, 4, 5}} \cup {<<OP_STORE, f3>> : f3 \in 0 .. 2}
            \cup {<<OP_LOAD_FP, 2>>, <<OP_STORE_FP, 2>>}

touch(a, d) ==
    <<li32(S0, MemSize - 1),
      IF a[1] \in {OP_LOAD, OP_LOAD_FP} THEN Word(enc_i(1 - d, S0, a[2], T0, a[1]))
      ELSE Word(enc_s(1 - d, T0, S0, a[2], a[1])),
      ebreak>>

\* An instruction of 2 or 4 bytes that begins d bytes before the end.
LastInstructions(ds) ==
    {[Booted("last", <<n, d>>, <<IF n = 2 THEN Short(c_ebreak) ELSE ebreak>>, 9) EXCEPT
        !.entry = MemSize - d,
        !.code = assemble(<<IF n = 2 THEN Short(c_ebreak) ELSE ebreak>>, MemSize - d)] :
            n \in {2, 4}, d \in ds}

Touches(ds) ==
    {Booted("touch", <<a, d>>, touch(a, d), 9) : a \in Accesses, d \in ds} \cup LastInstructions(ds)

\* Memory ends where MEM_SIZE says, for every kind of access: one of n bytes works
\* if and only if it is aligned and its last byte is inside; a fetch needs two
\* bytes for a 16-bit and four for a 32-bit instruction, on two-byte boundaries.
EndOfMemory ==
    /\ boot.name = "touch" /\ state # "RUNNING" =>
         LET n == <<1, 2, 4>>[(boot.args[1][2] % 4) + 1]
             d == boot.args[2] IN
         state = "HALTED" <=> d >= n /\ d % n = 0
    /\ boot.name = "last" /\ state # "RUNNING" =>
         (state = "HALTED" <=> boot.args[2] >= boot.args[1] /\ boot.args[2] % 2 = 0)

-----------------------------------------------------------------------------
\* The views of fcsr, and registers that keep some bits only.

csrs(v, u) ==
    <<li32(T0, v), li32(T1, u),
      csrw(CSR_FCSR, T0), csrr(S0, CSR_FFLAGS), csrr(S1, CSR_FRM), csrr(S2, CSR_FCSR),
      csrrw(S3, CSR_FRM, T1), csrr(A0, CSR_FCSR),
      csrrc(0, CSR_FFLAGS, T1), csrr(A1, CSR_FCSR),
      csrw(834, T0), csrrw(T2, 834, T1), csrrs(T3, 834, T0),
      csrw(CSR_MEPC, T0), csrr(T4, CSR_MEPC), csrrwi(A2, CSR_FFLAGS, 31), csrr(T5, CSR_FCSR),
      ebreak>>

CsrPrograms(vs) == {Booted("csrs", <<v, u>>, csrs(v, u), 100) : v \in vs, u \in vs}

\* fflags and frm are windows on fcsr: whichever of the three software writes, the
\* others show it and the other field keeps its value; bits outside are dropped.
\* csrrw returns the old value and csrrc clears what it names and no more.
CsrViewsAgree ==
    Ended("csrs") =>
        LET v == boot.args[1]
            u == boot.args[2]
            cleared == BitAnd(v % 32, Inverted(u)) IN
        /\ regs[S0] = v % 32 /\ regs[S1] = (v \div 32) % 8 /\ regs[S2] = v % 256
        /\ regs[S3] = regs[S1]
        /\ regs[A0] = 32 * (u % 8) + (v % 32)
        /\ regs[A1] = 32 * (u % 8) + cleared
        /\ regs[T2] = v /\ regs[T3] = u /\ csr[834] = BitOr(u, v)
        /\ regs[T4] % 4 = 0 /\ v - regs[T4] \in 0 .. 3
        /\ regs[A2] = cleared /\ regs[T5] = 32 * (u % 8) + 31

-----------------------------------------------------------------------------
\* What the machine refuses, one instruction each: there is nothing else to run.

Refusals ==
    {<<branch(f3, 0, 0, "x"), Label("x")>> : f3 \in {2, 3}}
    \cup {<<load(f3, T0, 0, DATA)>> : f3 \in {3, 6, 7}}
    \cup {<<store(f3, T0, 0, DATA)>> : f3 \in 3 .. 7}
    \cup {<<Word(enc_i(DATA, 0, 3, T0, OP_LOAD_FP))>>, <<Word(enc_s(DATA, T0, 0, 1, OP_STORE_FP))>>}
    \cup {<<fp(code[1], code[2], 0, code[3], 0)>> :
            code \in {<<44, 1, 0>>, <<16, 0, 3>>, <<20, 0, 2>>, <<104, 2, 0>>,
                              <<120, 1, 0>>, <<120, 0, 1>>, <<80, 0, 3>>, <<96, 2, 0>>,
                              <<112, 0, 2>>, <<112, 1, 0>>, <<1, 0, 0>>}}
    \cup {<<csrr(T0, 5)>>, <<system(4, T0, CSR_FCSR, 0)>>, <<system(0, 0, 3, 0)>>}
    \cup {<<li(A7, 5), ecall>>, <<li(T0, TEXT + 9), jalr(0, T0, 1)>>, <<li32(T0, MemSize), jalr(0, T0, 0)>>}
    \cup {<<Short(0)>>, <<Short(8192)>>, <<Word(enc_i(0, 0, 0, 0, 127))>>}

Refused == {Booted("refused", <<>>, items, 9) : items \in Refusals}

\* sfence.vma with paging off does nothing.
Fences == {Booted("sfence", <<>>, <<Word(enc_r(9, 0, 0, 0, 0, OP_SYSTEM)), ebreak>>, 9)}

-----------------------------------------------------------------------------
\* How a program is meant to end.
Outcomes ==
    IF boot.name = "refused" THEN {"EXCEPTION"}
    ELSE IF boot.name \in {"touch", "last"} THEN {"EXCEPTION", "HALTED"}
    ELSE {"HALTED"}

\* Every program ends, within its steps, and the way it is meant to: what the
\* machine refuses stops the run instead of letting it go on, and nothing else does.
ProgramsEnd == ~Going => boot.name = "parcel" \/ state \in Outcomes

=============================================================================
