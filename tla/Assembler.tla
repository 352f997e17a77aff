------------------------------ MODULE Assembler ------------------------------
(***************************************************************************)
(* The assembler the demos are built with (tests/gen_demo_elf.py, and the     *)
(* 16-bit encoders of tests/gen_compressed_demo.py): a program is a sequence   *)
(* of labels and instructions; the first pass finds where the labels are, the *)
(* second encodes.                                                          *)
(***************************************************************************)
EXTENDS Encoding, Sequences

-----------------------------------------------------------------------------
\* Items.  A branch or a jump names a label; half is a 16-bit instruction.

Label(n) == [kind |-> "label", name |-> n]
Word(w)  == [kind |-> "word", word |-> w]
Short(c) == [kind |-> "half", half |-> c]
li32(rd, val) == [kind |-> "li32", rd |-> rd, val |-> val]
branch(f3, rs1, rs2, to) == [kind |-> "branch", f3 |-> f3, rs1 |-> rs1, rs2 |-> rs2, to |-> to]
jal(rd, to) == [kind |-> "jal", rd |-> rd, to |-> to]

op(f7, f3, rd, rs1, rs2) == Word(enc_r(f7, rs2, rs1, f3, rd, OP_ALU))
add(rd, rs1, rs2)  == op(0, 0, rd, rs1, rs2)
sub(rd, rs1, rs2)  == op(32, 0, rd, rs1, rs2)
mul(rd, rs1, rs2)  == op(1, 0, rd, rs1, rs2)
divu(rd, rs1, rs2) == op(1, 5, rd, rs1, rs2)
remu(rd, rs1, rs2) == op(1, 7, rd, rs1, rs2)
addi(rd, rs, imm)  == Word(enc_i(imm, rs, 0, rd, OP_ALUI))
mv(rd, rs)         == addi(rd, rs, 0)
li(rd, imm)        == addi(rd, 0, imm)
jalr(rd, rs, imm)  == Word(enc_i(imm, rs, 0, rd, OP_JALR))
load(f3, rd, rs1, imm)   == Word(enc_i(imm, rs1, f3, rd, OP_LOAD))
store(f3, rs2, rs1, imm) == Word(enc_s(imm, rs2, rs1, f3, OP_STORE))
lw(rd, rs1, imm)   == load(2, rd, rs1, imm)
sw(rs2, rs1, imm)  == store(2, rs2, rs1, imm)
sb(rs2, rs1, imm)  == store(0, rs2, rs1, imm)
bne(rs1, rs2, to)  == branch(1, rs1, rs2, to)
beq(rs1, rs2, to)  == branch(0, rs1, rs2, to)
bnez(rs1, to)      == bne(rs1, 0, to)
system(f3, rd, a, rs1) == Word(enc_i(a, rs1, f3, rd, OP_SYSTEM))
csrrw(rd, a, rs1)  == system(1, rd, a, rs1)
csrrs(rd, a, rs1)  == system(2, rd, a, rs1)
csrrc(rd, a, rs1)  == system(3, rd, a, rs1)
csrrwi(rd, a, n)   == system(5, rd, a, n)
csrw(a, rs1)       == csrrw(0, a, rs1)
csrr(rd, a)        == csrrs(rd, a, 0)
ecall              == system(0, 0, 0, 0)
ebreak             == system(0, 0, 1, 0)
fp(f7, rs2, rs1, f3, rd) == Word(enc_r(f7, rs2, rs1, f3, rd, OP_FP))
flw(imm, rs1, fd)  == Word(enc_i(imm, rs1, 2, fd, OP_LOAD_FP))
fsw(imm, fs2, rs1) == Word(enc_s(imm, fs2, rs1, 2, OP_STORE_FP))

\* 16-bit instructions with a register and a signed 6-bit immediate.
c_i(f3, q, rd, imm) ==
    f3 * 8192 + ((imm \div 32) % 2) * 4096 + rd * 128 + (imm % 32) * 4 + q
c_addi(rd, imm)   == c_i(0, 1, rd, imm)
c_ebreak          == 36866

-----------------------------------------------------------------------------
\* The two half words of a word.
Halves(w) == <<(w.rs1 % 2) * 32768 + w.f3 * 4096 + w.rd * 128 + w.op,
               w.f7 * 512 + w.rs2 * 16 + (w.rs1 \div 2)>>

\* Mutant: the high part of a constant ignores that the low part is signed.
upper_cut(val) == val \div 4096

\* The high part of a constant: rounded, because the low part is a signed 12-bit
\* number.
upper(val) == (val + 2048) \div 4096
lower(val) == val - upper(val) * 4096

\* The half words of an item at address here, labels being at addresses.
Encoded(item, here, addresses) ==
    IF item.kind = "label" THEN <<>>
    ELSE IF item.kind = "half" THEN <<item.half>>
    ELSE IF item.kind = "word" THEN Halves(item.word)
    ELSE IF item.kind = "li32"
         THEN Halves(enc_u(upper(item.val) * 4096, item.rd, OP_LUI))
              \o Halves(enc_i(lower(item.val), item.rd, 0, item.rd, OP_ALUI))
    ELSE IF item.kind = "jal" THEN Halves(enc_j(addresses[item.to] - here, item.rd, OP_JAL))
    ELSE Halves(enc_b(addresses[item.to] - here, item.rs2, item.rs1, item.f3, OP_BRANCH))

\* The bytes of an item.
SizeOf(item) ==
    IF item.kind = "label" THEN 0
    ELSE IF item.kind = "half" THEN 2
    ELSE IF item.kind = "li32" THEN 8
    ELSE 4

\* Where the items lie, and where the next one would.
Placed(items, base) ==
    LET at[k \in 0 .. Len(items)] ==
            IF k = 0 THEN <<base>>
            ELSE LET before == at[k - 1] IN Append(before, before[k] + SizeOf(items[k])) IN
    at[Len(items)]

\* The text of a program at base: its half words by address.
assemble(items, base) ==
    LET at == Placed(items, base)
        labels == {k \in 1 .. Len(items) : items[k].kind = "label"}
        addresses == [name \in {items[k].name : k \in labels} |->
                        at[CHOOSE k \in labels : items[k].name = name]]
        emitted[k \in 0 .. Len(items)] ==
            IF k = 0 THEN <<>> ELSE emitted[k - 1] \o Encoded(items[k], at[k], addresses)
        text == emitted[Len(items)]
    IN [a \in {base + 2 * h : h \in 0 .. Len(text) - 1} |-> text[((a - base) \div 2) + 1]]

=============================================================================
