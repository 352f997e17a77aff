----------------------------- MODULE Compressed -----------------------------
(***************************************************************************)
(* One program for every 16-bit instruction, and the table of the RV32C      *)
(* chapter of the manual they are held against: for each instruction its       *)
(* quadrant and funct3, the registers, and the immediate bit by bit.           *)
(***************************************************************************)
EXTENDS FpFirmware

bit(c, k) == (c \div Pow2[k]) % 2

\* The immediate whose bits are, from instruction bit 12 downwards, those in high,
\* and from bit 6 downwards those in low.
Gathered(c, high, low) ==
    LET weight(j, from, bits) == bit(c, from - j + 1) * Pow2[bits[j]]
        sum[j \in 0 .. Len(high) + Len(low)] ==
            IF j = 0 THEN 0
            ELSE sum[j - 1] + (IF j <= Len(high) THEN weight(j, 12, high)
                               ELSE weight(j - Len(high), 6, low)) IN
    sum[Len(high) + Len(low)]

\* The same, signed: bit 12 of the instruction is the sign.
SignedGathered(c, high, low) ==
    Gathered(c, high, low) - 2 * bit(c, 12) * Pow2[high[1]]

six(c)   == SignedGathered(c, <<5>>, <<4, 3, 2, 1, 0>>)
shamt(c) == Gathered(c, <<5>>, <<4, 3, 2, 1, 0>>)
slot(c)  == Gathered(c, <<5, 4, 3>>, <<2, 6>>)
far(c)   == SignedGathered(c, <<11, 4, 9, 8, 10, 6, 7, 3, 2, 1, 5>>, <<>>)
nearby(c) == SignedGathered(c, <<8, 4, 3>>, <<7, 6, 2, 1, 5>>)

\* Immediate operand, register operand, load, store, jump, branch.
OnImm(f3, rd, rs1, imm) == [op |-> OP_ALUI, f3 |-> f3, rd |-> rd, rs1 |-> rs1, imm |-> imm]
OnRegs(f7, f3, rd, rs1, rs2) ==
    [op |-> OP_ALU, f7 |-> f7, f3 |-> f3, rd |-> rd, rs1 |-> rs1, rs2 |-> rs2]
Loads(rd, rs1, imm)  == [op |-> OP_LOAD, f3 |-> 2, rd |-> rd, rs1 |-> rs1, imm |-> imm]
Saves(rs2, rs1, imm) == [op |-> OP_STORE, f3 |-> 2, rs2 |-> rs2, rs1 |-> rs1, imm |-> imm]
Jumps(rd, imm)       == [op |-> OP_JAL, rd |-> rd, imm |-> imm]
Indirect(rd, rs1)    == [op |-> OP_JALR, f3 |-> 0, rd |-> rd, rs1 |-> rs1, imm |-> 0]
IfZero(f3, rs1, imm) == [op |-> OP_BRANCH, f3 |-> f3, rs1 |-> rs1, rs2 |-> 0, imm |-> imm]

\* What the manual says c does; {} if it is reserved, or not in RV32C without F and
\* D.  A C.LUI of x0, which is a hint, is left out as the program leaves it out.
Meaning(c) ==
    LET q == c % 4
        f3 == c \div 8192
        wide == (c \div 128) % 32
        wide2 == (c \div 4) % 32
        narrow == 8 + ((c \div 128) % 8)
        narrow2 == 8 + ((c \div 4) % 8)
        top == bit(c, 12)
        f2 == (c \div 1024) % 4
        row(a, b, cond, m) == IF q = a /\ f3 = b /\ cond THEN {m} ELSE {} IN
    row(0, 0, c >= 32, OnImm(0, narrow2, 2, Gathered(c, <<5, 4, 9, 8, 7, 6>>, <<2, 3>>)))
    \cup row(0, 2, TRUE, Loads(narrow2, narrow, slot(c)))
    \cup row(0, 6, TRUE, Saves(narrow2, narrow, slot(c)))
    \cup row(1, 0, TRUE, OnImm(0, wide, wide, six(c)))
    \cup row(1, 1, TRUE, Jumps(1, far(c)))
    \cup row(1, 2, TRUE, OnImm(0, wide, 0, six(c)))
    \cup row(1, 3, wide = 2 /\ six(c) # 0,
             OnImm(0, 2, 2, SignedGathered(c, <<9>>, <<4, 6, 8, 7, 5>>)))
    \cup row(1, 3, wide \notin {0, 2} /\ six(c) # 0,
             [op |-> OP_LUI, rd |-> wide, imm |-> 4096 * six(c)])
    \cup row(1, 4, f2 < 2 /\ top = 0, OnImm(5, narrow, narrow, shamt(c) + 1024 * f2))
    \cup row(1, 4, f2 = 2, OnImm(7, narrow, narrow, six(c)))
    \cup row(1, 4, f2 = 3 /\ top = 0,
             OnRegs(IF bit(c, 6) + bit(c, 5) = 0 THEN 32 ELSE 0,
                    <<0, 4, 6, 7>>[1 + 2 * bit(c, 6) + bit(c, 5)], narrow, narrow, narrow2))
    \cup row(1, 5, TRUE, Jumps(0, far(c)))
    \cup row(1, 6, TRUE, IfZero(0, narrow, nearby(c)))
    \cup row(1, 7, TRUE, IfZero(1, narrow, nearby(c)))
    \cup row(2, 0, top = 0, OnImm(1, wide, wide, shamt(c)))
    \cup row(2, 2, wide # 0, Loads(wide, 2, Gathered(c, <<5>>, <<4, 3, 2, 7, 6>>)))
    \cup row(2, 4, wide2 = 0 /\ wide # 0, Indirect(top, wide))
    \cup row(2, 4, wide2 = 0 /\ wide = 0 /\ top = 1,
             [op |-> OP_SYSTEM, f3 |-> 0, rd |-> 0, rs1 |-> 0, imm |-> 1])
    \cup row(2, 4, wide2 # 0, OnRegs(0, 0, wide, IF top = 1 THEN wide ELSE 0, wide2))
    \cup row(2, 6, TRUE, Saves(wide2, 2, Gathered(c, <<5, 4, 3, 2, 7, 6>>, <<>>)))

\* Instruction i is the one the table means.
Means(i, m) ==
    /\ i.len = 2
    /\ \A k \in DOMAIN m : IF k = "imm" THEN i.imm = m.imm ELSE i.raw[k] = m[k]

\* One instruction and one step for each 16-bit parcel.
Singles(cs) ==
    [name : {"parcel"}, args : {<<>>}, code : [{TEXT} -> cs], entry : {TEXT},
     mtime : {0}, max_steps : {1}]

\* Every 16-bit instruction the machine executes is, register by register and bit by
\* bit of the immediate, the one the table of RV32C gives, after it went through the
\* expansion to 32 bits and the decoder for those; and what the table does not
\* have, the machine refuses.
ExpansionAsTabulated ==
    boot.name = "parcel" /\ mtime = boot.mtime =>
        LET meant == Meaning(boot.code[TEXT]) IN
        /\ Instruction = {} <=> meant = {}
        /\ \A i \in Instruction : \E m \in meant : Means(i, m)

=============================================================================
