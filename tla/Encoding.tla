------------------------------- MODULE Encoding -------------------------------
(***************************************************************************)
(* Instruction words (src/decode.c): the fields and immediates of a 32-bit   *)
(* word, the encoders, and the expansion of 16-bit instructions (RV32C).     *)
(*                                                                         *)
(* A 32-bit word is the record of its six fields, which lie side by side:    *)
(* f7 31:25, rs2 24:20, rs1 19:15, f3 14:12, rd 11:7, op 6:0.  An immediate   *)
(* is a signed integer; a shift right is a division, a mask a remainder.     *)
(***************************************************************************)
EXTENDS Integers

Fields == [f7 : 0 .. 127, rs2 : 0 .. 31, rs1 : 0 .. 31, f3 : 0 .. 7,
           rd : 0 .. 31, op : 0 .. 127]

ParcelCount == 65536
Parcels == 0 .. ParcelCount - 1     \* half words, which is what a fetch reads

OP_LUI      == 55
OP_AUIPC    == 23
OP_JAL      == 111
OP_JALR     == 103
OP_BRANCH   == 99
OP_LOAD     == 3
OP_STORE    == 35
OP_LOAD_FP  == 7
OP_STORE_FP == 39
OP_ALUI     == 19
OP_ALU      == 51
OP_FENCE    == 15
OP_AMO      == 47
OP_FP       == 83
OP_SYSTEM   == 115

-----------------------------------------------------------------------------
\* Decoding.

\* v with the sign bit of weight sign, as a signed integer.
Sext(v, sign) == IF v >= sign THEN v - 2 * sign ELSE v

imm_i(w) == Sext(w.f7 * 32 + w.rs2, 2048)
imm_s(w) == Sext(w.f7 * 32 + w.rd, 2048)
imm_b(w) == Sext((w.f7 \div 64) * 4096 + (w.rd % 2) * 2048 + (w.f7 % 64) * 32
                 + (w.rd \div 2) * 2, 4096)
imm_u(w) == 4096 * Sext(w.f7 * 8192 + w.rs2 * 256 + w.rs1 * 8 + w.f3, 524288)
imm_j(w) == Sext((w.f7 \div 64) * 1048576 + (w.rs1 * 8 + w.f3) * 4096
                 + (w.rs2 % 2) * 2048 + (w.f7 % 64) * 32 + (w.rs2 \div 2) * 2, 1048576)

\* OP_FENCE has no format, so decode refuses it.
get_fmt(op) ==
    IF op \in {OP_ALU, OP_AMO, OP_FP} THEN "R"
    ELSE IF op \in {OP_ALUI, OP_LOAD, OP_JALR, OP_LOAD_FP, OP_SYSTEM} THEN "I"
    ELSE IF op \in {OP_STORE, OP_STORE_FP} THEN "S"
    ELSE IF op = OP_BRANCH THEN "B"
    ELSE IF op \in {OP_LUI, OP_AUIPC} THEN "U"
    ELSE IF op = OP_JAL THEN "J"
    ELSE "UNKNOWN"

Immediate(w) ==
    LET fmt == get_fmt(w.op) IN
    IF fmt = "I" THEN imm_i(w)
    ELSE IF fmt = "S" THEN imm_s(w)
    ELSE IF fmt = "B" THEN imm_b(w)
    ELSE IF fmt = "U" THEN imm_u(w)
    ELSE IF fmt = "J" THEN imm_j(w)
    ELSE 0

\* decode, with the length emu_step gives the instruction; {} if it is refused.
decode(w, len) ==
    {[raw |-> x, len |-> len, imm |-> Immediate(x)] : x \in
        {y \in {w} : get_fmt(y.op) # "UNKNOWN"}}

\* The 32-bit word of two half words.
Joined(lo, hi) ==
    [f7 |-> hi \div 512, rs2 |-> (hi \div 16) % 32,
     rs1 |-> (hi % 16) * 2 + (lo \div 32768), f3 |-> (lo \div 4096) % 8,
     rd |-> (lo \div 128) % 32, op |-> lo % 128]

-----------------------------------------------------------------------------
\* Encoding.

enc_r(f7, rs2, rs1, f3, rd, op) ==
    [f7 |-> f7, rs2 |-> rs2, rs1 |-> rs1, f3 |-> f3, rd |-> rd, op |-> op]

enc_i(imm, rs1, f3, rd, op) ==
    enc_r((imm \div 32) % 128, imm % 32, rs1, f3, rd, op)

enc_s(imm, rs2, rs1, f3, op) ==
    enc_r((imm \div 32) % 128, rs2, rs1, f3, imm % 32, op)

enc_b(imm, rs2, rs1, f3, op) ==
    enc_r(((imm \div 4096) % 2) * 64 + ((imm \div 32) % 64), rs2, rs1, f3,
          ((imm \div 2) % 16) * 2 + ((imm \div 2048) % 2), op)

enc_u(imm, rd, op) ==
    enc_r((imm \div 33554432) % 128, (imm \div 1048576) % 32,
          (imm \div 32768) % 32, (imm \div 4096) % 8, rd, op)

enc_j(imm, rd, op) ==
    enc_r(((imm \div 1048576) % 2) * 64 + ((imm \div 32) % 64),
          ((imm \div 2) % 16) * 2 + ((imm \div 2048) % 2),
          (imm \div 32768) % 32, (imm \div 4096) % 8, rd, op)

-----------------------------------------------------------------------------
\* RV32C.  Part(c, w, n) is the field of c that starts at the bit of weight w
\* and has n values.

Part(c, w, n) == (c \div w) % n

C_OP(c)  == Part(c, 1, 4)
C_F3(c)  == Part(c, 8192, 8)
C_RD(c)  == Part(c, 128, 32)
C_RS2(c) == Part(c, 4, 32)
C_RS1P(c) == 8 + Part(c, 128, 8)
C_RS2P(c) == 8 + Part(c, 4, 8)      \* also C_RDP

c_imm6(c) == Part(c, 4096, 2) * 32 + Part(c, 4, 32)
c_uimm_addi4spn(c) == Part(c, 2048, 4) * 16 + Part(c, 128, 16) * 64
                      + Part(c, 64, 2) * 4 + Part(c, 32, 2) * 8
c_uimm_lw(c) == Part(c, 1024, 8) * 8 + Part(c, 64, 2) * 4 + Part(c, 32, 2) * 64
c_uimm_lwsp(c) == Part(c, 4096, 2) * 32 + Part(c, 16, 8) * 4 + Part(c, 4, 4) * 64
c_uimm_swsp(c) == Part(c, 512, 16) * 4 + Part(c, 128, 4) * 64
c_imm_b(c) == Part(c, 4096, 2) * 256 + Part(c, 1024, 4) * 8 + Part(c, 32, 4) * 64
              + Part(c, 8, 4) * 2 + Part(c, 4, 2) * 32
\* Mutant: bits 7 and 6 of a jump offset are swapped.
c_imm_j_swapped(c) ==
    Part(c, 4096, 2) * 2048 + Part(c, 2048, 2) * 16 + Part(c, 512, 4) * 256
    + Part(c, 256, 2) * 1024 + Part(c, 128, 2) * 128 + Part(c, 64, 2) * 64
    + Part(c, 8, 8) * 2 + Part(c, 4, 2) * 32
c_imm_j(c) == Part(c, 4096, 2) * 2048 + Part(c, 2048, 2) * 16 + Part(c, 512, 4) * 256
              + Part(c, 256, 2) * 1024 + Part(c, 128, 2) * 64 + Part(c, 64, 2) * 128
              + Part(c, 8, 8) * 2 + Part(c, 4, 2) * 32
c_imm_addi16sp(c) == Part(c, 4096, 2) * 512 + Part(c, 64, 2) * 16 + Part(c, 32, 2) * 64
                     + Part(c, 8, 4) * 128 + Part(c, 4, 2) * 32

\* One row of the expansion: the word w if the condition holds.
Row(cond, w) == IF cond THEN {w} ELSE {}

Quadrant0(c) ==
    LET f3 == C_F3(c) IN
    Row(f3 = 0 /\ c_uimm_addi4spn(c) # 0,
        enc_i(c_uimm_addi4spn(c), 2, 0, C_RS2P(c), OP_ALUI))            \* C.ADDI4SPN
    \cup Row(f3 = 2, enc_i(c_uimm_lw(c), C_RS1P(c), 2, C_RS2P(c), OP_LOAD))   \* C.LW
    \cup Row(f3 = 6, enc_s(c_uimm_lw(c), C_RS2P(c), C_RS1P(c), 2, OP_STORE))  \* C.SW

\* Quadrant 1, funct3 4: shifts and ANDI by funct2, then SUB, XOR, OR, AND.
Arithmetic(c) ==
    LET f2 == Part(c, 1024, 4)
        r  == C_RS1P(c)
        k  == Part(c, 32, 4) IN
    Row(f2 \in {0, 1} /\ c_imm6(c) < 32,
        enc_i(c_imm6(c) + f2 * 1024, r, 5, r, OP_ALUI))                 \* C.SRLI C.SRAI
    \cup Row(f2 = 2, enc_i(Sext(c_imm6(c), 32), r, 7, r, OP_ALUI))      \* C.ANDI
    \cup Row(f2 = 3 /\ Part(c, 4096, 2) = 0,
        enc_r(<<32, 0, 0, 0>>[k + 1], C_RS2P(c), r, <<0, 4, 6, 7>>[k + 1], r, OP_ALU))

Quadrant1(c) ==
    LET f3   == C_F3(c)
        rd   == C_RD(c)
        imm6 == Sext(c_imm6(c), 32)
        jump == Sext(c_imm_j(c), 2048)
        near == Sext(c_imm_b(c), 256) IN
    Row(f3 = 0, enc_i(imm6, rd, 0, rd, OP_ALUI))                        \* C.ADDI C.NOP
    \cup Row(f3 = 1, enc_j(jump, 1, OP_JAL))                            \* C.JAL
    \cup Row(f3 = 2, enc_i(imm6, 0, 0, rd, OP_ALUI))                    \* C.LI
    \cup Row(f3 = 3 /\ rd = 2 /\ c_imm_addi16sp(c) # 0,
        enc_i(Sext(c_imm_addi16sp(c), 512), 2, 0, 2, OP_ALUI))          \* C.ADDI16SP
    \cup Row(f3 = 3 /\ rd \notin {0, 2} /\ imm6 # 0,
        enc_u(imm6 * 4096, rd, OP_LUI))                                 \* C.LUI
    \cup (IF f3 = 4 THEN Arithmetic(c) ELSE {})
    \cup Row(f3 = 5, enc_j(jump, 0, OP_JAL))                            \* C.J
    \cup Row(f3 = 6, enc_b(near, 0, C_RS1P(c), 0, OP_BRANCH))           \* C.BEQZ
    \cup Row(f3 = 7, enc_b(near, 0, C_RS1P(c), 1, OP_BRANCH))           \* C.BNEZ

Quadrant2(c) ==
    LET f3   == C_F3(c)
        rd   == C_RD(c)
        rs2  == C_RS2(c)
        link == Part(c, 4096, 2) IN
    Row(f3 = 0 /\ c_imm6(c) < 32, enc_i(c_imm6(c), rd, 1, rd, OP_ALUI)) \* C.SLLI
    \cup Row(f3 = 2 /\ rd # 0, enc_i(c_uimm_lwsp(c), 2, 2, rd, OP_LOAD)) \* C.LWSP
    \cup Row(f3 = 4 /\ rs2 = 0 /\ rd # 0, enc_i(0, rd, 0, link, OP_JALR)) \* C.JR C.JALR
    \cup Row(f3 = 4 /\ rs2 = 0 /\ rd = 0 /\ link = 1,
        enc_i(1, 0, 0, 0, OP_SYSTEM))                                   \* C.EBREAK
    \cup Row(f3 = 4 /\ rs2 # 0, enc_r(0, rs2, link * rd, 0, rd, OP_ALU)) \* C.MV C.ADD
    \cup Row(f3 = 6, enc_s(c_uimm_swsp(c), rs2, 2, 2, OP_STORE))        \* C.SWSP

\* The 32-bit equivalent of c; {} for a reserved or unsupported encoding.
expand_compressed(c) ==
    IF C_OP(c) = 0 THEN Quadrant0(c)
    ELSE IF C_OP(c) = 1 THEN Quadrant1(c)
    ELSE IF C_OP(c) = 2 THEN Quadrant2(c)
    ELSE {}

=============================================================================
