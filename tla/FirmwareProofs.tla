---------------------------- MODULE FirmwareProofs ----------------------------
(***************************************************************************)
(* What the programs of Firmware promise, for every argument and every width   *)
(* of words up to 32.  A program without branches has one line of facts: what   *)
(* each register holds once it was written.  For each program there is a lemma *)
(* that the assembler puts its words where they are expected, one that a step  *)
(* keeps the facts, and one that the facts at the end make the promise.        *)
(***************************************************************************)
EXTENDS Firmware, CoreProofs

\* The text of a program of n words lies inside the memory, where words may lie.
TextFits(n) == TEXT \in Nat /\ TEXT % 2 = 0 /\ TEXT + 4 * n <= MemSize

\* A program without branches, n words long and ended by an ebreak, is at the word
\* that follows from the time.
OnLine(n) ==
    /\ mtime \in 0 .. n
    /\ state = "RUNNING" => mtime < n /\ pc = TEXT + 4 * mtime
    /\ state # "RUNNING" => mtime = n /\ state = "HALTED"

\* The numbers of the registers.
LEMMA Named ==
  /\ T0 = 5 /\ T1 = 6 /\ T2 = 7 /\ S0 = 8 /\ S1 = 9 /\ A0 = 10 /\ A1 = 11 /\ A2 = 12 /\ A3 = 13
  /\ A4 = 14 /\ A5 = 15 /\ A7 = 17 /\ S2 = 18 /\ S3 = 19 /\ T3 = 28 /\ T4 = 29 /\ T5 = 30
  /\ RA = 1 /\ SP = 2
BY DEF T0, T1, T2, S0, S1, A0, A1, A2, A3, A4, A5, A7, S2, S3, T3, T4, T5, RA, SP

\* They are registers that can be written.
LEMMA InRange ==
  /\ {T0, T1, T2, S0, S1, A0, A1, A2, A3, A4, A5, A7, S2, S3, T3, T4, T5, RA, SP} \subseteq 1 .. 31
  /\ {T0, T1, T2, S0, S1, A0, A1, A2, A3, A4, A5, A7, S2, S3, T3, T4, T5, RA, SP} \subseteq Registers
  /\ {0, 1, 2, 3, 4, 5, 6, 7} \subseteq 0 .. 7
BY Named DEF Registers

-----------------------------------------------------------------------------
\* The division program.

R(f3, rd, rs1, rs2) == enc_r(1, rs2, rs1, f3, rd, OP_ALU)
Sum(rd, rs1, rs2) == enc_r(0, rs2, rs1, 0, rd, OP_ALU)

\* They run.
LEMMA MulDivRuns ==
  ASSUME CInv, Step, NEW f3 \in 0 .. 7, NEW rd \in 1 .. 31, NEW rs1 \in 1 .. 31,
         NEW rs2 \in 1 .. 31, AtWord(R(f3, rd, rs1, rs2))
  PROVE  Writes(rd, MulDiv(f3, regs[rs1], regs[rs2]))
<1>1. f3 \in Codes3 /\ 1 \in Codes7 /\ rs1 \in Registers /\ rs2 \in Registers
  BY DEF Codes3, Codes7, Registers
<1>2. Writes(rd, op_alu(1, f3, regs[rs1], regs[rs2]))
  BY <1>1, OpRuns DEF R
<1> QED BY <1>2 DEF op_alu

\* The program adds two registers.
LEMMA SumRuns ==
  ASSUME CInv, Step, NEW rd \in 1 .. 31, NEW rs1 \in 1 .. 31, NEW rs2 \in 1 .. 31,
         AtWord(Sum(rd, rs1, rs2))
  PROVE  Writes(rd, Wrap(regs[rs1] + regs[rs2]))
<1>1. 0 \in Codes3 /\ 0 \in Codes7 /\ rs1 \in Registers /\ rs2 \in Registers
  BY DEF Codes3, Codes7, Registers
<1>2. Writes(rd, op_alu(0, 0, regs[rs1], regs[rs2]))
  BY <1>1, OpRuns DEF Sum
<1> QED BY <1>2 DEF op_alu, Arith, Sub

\* The words of the division program.
DivideText(c, a, b) ==
    /\ Holds(c, TEXT, Lui(T0, a)) /\ Holds(c, TEXT + 4, Addi(T0, a))
    /\ Holds(c, TEXT + 8, Lui(T1, b)) /\ Holds(c, TEXT + 12, Addi(T1, b))
    /\ Holds(c, TEXT + 16, R(4, S0, T0, T1))
    /\ Holds(c, TEXT + 20, R(6, S1, T0, T1))
    /\ Holds(c, TEXT + 24, R(0, T2, S0, T1))
    /\ Holds(c, TEXT + 28, Sum(T2, T2, S1))
    /\ Holds(c, TEXT + 32, R(5, S2, T0, T1))
    /\ Holds(c, TEXT + 36, R(7, S3, T0, T1))
    /\ Holds(c, TEXT + 40, R(0, T3, S2, T1))
    /\ Holds(c, TEXT + 44, Sum(T3, T3, S3))
    /\ Holds(c, TEXT + 48, R(0, T5, T0, T1))
    /\ Holds(c, TEXT + 52, R(1, A0, T0, T1))
    /\ Holds(c, TEXT + 56, R(2, A1, T0, T1))
    /\ Holds(c, TEXT + 60, R(3, A2, T0, T1))
    /\ Holds(c, TEXT + 64, EBREAK)

\* The assembler puts them there.
LEMMA DivideAssembled ==
  ASSUME TEXT \in Nat, NEW a, NEW b
  PROVE  DivideText(assemble(divide(a, b), TEXT), a, b)
<1> DEFINE items == divide(a, b)
           c == assemble(items, TEXT)
<1>1. /\ Len(items) = 15
      /\ items[1] = li32(T0, a)
      /\ items[2] = li32(T1, b)
      /\ items[3] = Word(R(4, S0, T0, T1))
      /\ items[4] = Word(R(6, S1, T0, T1))
      /\ items[5] = Word(R(0, T2, S0, T1))
      /\ items[6] = Word(Sum(T2, T2, S1))
      /\ items[7] = Word(R(5, S2, T0, T1))
      /\ items[8] = Word(R(7, S3, T0, T1))
      /\ items[9] = Word(R(0, T3, S2, T1))
      /\ items[10] = Word(Sum(T3, T3, S3))
      /\ items[11] = Word(R(0, T5, T0, T1))
      /\ items[12] = Word(R(1, A0, T0, T1))
      /\ items[13] = Word(R(2, A1, T0, T1))
      /\ items[14] = Word(R(3, A2, T0, T1))
      /\ items[15] = Word(EBREAK)
  BY DEF divide, op, mul, add, divu, remu, R, Sum, ebreak, system, EBREAK, Special
<1> HIDE DEF items
<1>3. /\ Holds(c, TEXT, Lui(T0, a)) /\ Holds(c, TEXT + 4, Addi(T0, a))
      /\ ItemAt(items, TEXT, 2, 8)
  <2>1. items[1] = li32(T0, a) /\ Len(items) \in Nat /\ Len(items) >= 1 /\ TEXT \in Int
    BY <1>1
  <2> QED BY ONLY <2>1, FirstConstant
<1>4. /\ Holds(c, TEXT + 8, Lui(T1, b)) /\ Holds(c, TEXT + 12, Addi(T1, b))
      /\ ItemAt(items, TEXT, 3, 16)
  <2>1. items[2] = li32(T1, b) /\ 2 <= Len(items) /\ TEXT \in Int
    BY <1>1
  <2> QED BY ONLY <1>3, <2>1, NextConstant
<1>5. Holds(c, TEXT + 16, R(4, S0, T0, T1)) /\ ItemAt(items, TEXT, 4, 20)
  <2>1. items[3] = Word(R(4, S0, T0, T1)) /\ 3 <= Len(items) /\ TEXT \in Int
    BY <1>1
  <2> QED BY ONLY <1>4, <2>1, NextWord
<1>6. Holds(c, TEXT + 20, R(6, S1, T0, T1)) /\ ItemAt(items, TEXT, 5, 24)
  <2>1. items[4] = Word(R(6, S1, T0, T1)) /\ 4 <= Len(items) /\ TEXT \in Int
    BY <1>1
  <2> QED BY ONLY <1>5, <2>1, NextWord
<1>7. Holds(c, TEXT + 24, R(0, T2, S0, T1)) /\ ItemAt(items, TEXT, 6, 28)
  <2>1. items[5] = Word(R(0, T2, S0, T1)) /\ 5 <= Len(items) /\ TEXT \in Int
    BY <1>1
  <2> QED BY ONLY <1>6, <2>1, NextWord
<1>8. Holds(c, TEXT + 28, Sum(T2, T2, S1)) /\ ItemAt(items, TEXT, 7, 32)
  <2>1. items[6] = Word(Sum(T2, T2, S1)) /\ 6 <= Len(items) /\ TEXT \in Int
    BY <1>1
  <2> QED BY ONLY <1>7, <2>1, NextWord
<1>9. Holds(c, TEXT + 32, R(5, S2, T0, T1)) /\ ItemAt(items, TEXT, 8, 36)
  <2>1. items[7] = Word(R(5, S2, T0, T1)) /\ 7 <= Len(items) /\ TEXT \in Int
    BY <1>1
  <2> QED BY ONLY <1>8, <2>1, NextWord
<1>10. Holds(c, TEXT + 36, R(7, S3, T0, T1)) /\ ItemAt(items, TEXT, 9, 40)
  <2>1. items[8] = Word(R(7, S3, T0, T1)) /\ 8 <= Len(items) /\ TEXT \in Int
    BY <1>1
  <2> QED BY ONLY <1>9, <2>1, NextWord
<1>11. Holds(c, TEXT + 40, R(0, T3, S2, T1)) /\ ItemAt(items, TEXT, 10, 44)
  <2>1. items[9] = Word(R(0, T3, S2, T1)) /\ 9 <= Len(items) /\ TEXT \in Int
    BY <1>1
  <2> QED BY ONLY <1>10, <2>1, NextWord
<1>12. Holds(c, TEXT + 44, Sum(T3, T3, S3)) /\ ItemAt(items, TEXT, 11, 48)
  <2>1. items[10] = Word(Sum(T3, T3, S3)) /\ 10 <= Len(items) /\ TEXT \in Int
    BY <1>1
  <2> QED BY ONLY <1>11, <2>1, NextWord
<1>13. Holds(c, TEXT + 48, R(0, T5, T0, T1)) /\ ItemAt(items, TEXT, 12, 52)
  <2>1. items[11] = Word(R(0, T5, T0, T1)) /\ 11 <= Len(items) /\ TEXT \in Int
    BY <1>1
  <2> QED BY ONLY <1>12, <2>1, NextWord
<1>14. Holds(c, TEXT + 52, R(1, A0, T0, T1)) /\ ItemAt(items, TEXT, 13, 56)
  <2>1. items[12] = Word(R(1, A0, T0, T1)) /\ 12 <= Len(items) /\ TEXT \in Int
    BY <1>1
  <2> QED BY ONLY <1>13, <2>1, NextWord
<1>15. Holds(c, TEXT + 56, R(2, A1, T0, T1)) /\ ItemAt(items, TEXT, 14, 60)
  <2>1. items[13] = Word(R(2, A1, T0, T1)) /\ 13 <= Len(items) /\ TEXT \in Int
    BY <1>1
  <2> QED BY ONLY <1>14, <2>1, NextWord
<1>16. Holds(c, TEXT + 60, R(3, A2, T0, T1)) /\ ItemAt(items, TEXT, 15, 64)
  <2>1. items[14] = Word(R(3, A2, T0, T1)) /\ 14 <= Len(items) /\ TEXT \in Int
    BY <1>1
  <2> QED BY ONLY <1>15, <2>1, NextWord
<1>17. Holds(c, TEXT + 64, EBREAK) /\ ItemAt(items, TEXT, 16, 68)
  <2>1. items[15] = Word(EBREAK) /\ 15 <= Len(items) /\ TEXT \in Int
    BY <1>1
  <2> QED BY ONLY <1>16, <2>1, NextWord
<1> QED BY <1>3, <1>4, <1>5, <1>6, <1>7, <1>8, <1>9, <1>10, <1>11, <1>12, <1>13, <1>14, <1>15, <1>16, <1>17 DEF DivideText, items

\* What the registers hold, step by step.
DivideFacts(a, b) ==
    /\ OnLine(17)
    /\ mtime = 1 => regs[T0] = Wrap(Immediate(Lui(T0, a)))
    /\ mtime >= 2 => regs[T0] = a
    /\ mtime = 3 => regs[T1] = Wrap(Immediate(Lui(T1, b)))
    /\ mtime >= 4 => regs[T1] = b
    /\ mtime >= 5 => regs[S0] = MulDiv(4, a, b)
    /\ mtime >= 6 => regs[S1] = MulDiv(6, a, b)
    /\ mtime = 7 => regs[T2] = MulDiv(0, MulDiv(4, a, b), b)
    /\ mtime >= 8 => regs[T2] = Wrap(MulDiv(0, MulDiv(4, a, b), b) + MulDiv(6, a, b))
    /\ mtime >= 9 => regs[S2] = MulDiv(5, a, b)
    /\ mtime >= 10 => regs[S3] = MulDiv(7, a, b)
    /\ mtime = 11 => regs[T3] = MulDiv(0, MulDiv(5, a, b), b)
    /\ mtime >= 12 => regs[T3] = Wrap(MulDiv(0, MulDiv(5, a, b), b) + MulDiv(7, a, b))
    /\ mtime >= 13 => regs[T5] = MulDiv(0, a, b)
    /\ mtime >= 14 => regs[A0] = MulDiv(1, a, b)
    /\ mtime >= 15 => regs[A1] = MulDiv(2, a, b)
    /\ mtime >= 16 => regs[A2] = MulDiv(3, a, b)

\* Every step of the program leaves them so.
LEMMA DivideStep ==
  ASSUME CInv, Step, XLEN <= 32, TextFits(17), NEW a \in Words, NEW b \in Words,
         DivideText(boot.code, a, b), DivideFacts(a, b)
  PROVE  DivideFacts(a, b)'
<1>1. /\ state = "RUNNING" /\ mtime \in 0 .. 16 /\ pc = TEXT + 4 * mtime
      /\ TEXT \in Nat /\ TEXT % 2 = 0 /\ MemSize \in Nat /\ TEXT + 68 <= MemSize
      /\ regs \in [Registers -> Words]
  BY MemoryAssumption, WordSizes DEF Step, Going, DivideFacts, OnLine, CInv, CTypeOK, TextFits
<1>2. ASSUME Advances, mtime < 16 PROVE mtime' = mtime + 1 /\ OnLine(17)'
  BY <1>1, <1>2 DEF Advances, OnLine
<1>3. CASE mtime = 0
  <2>1. AtWord(Lui(T0, a))
    BY <1>1, <1>3 DEF DivideText, AtWord
  <2>2. Writes(T0, Wrap(Immediate(Lui(T0, a))))
    BY <1>3, <2>1, LuiRuns, Named
  <2>3. mtime' = 1 /\ OnLine(17)' /\ regs' = [regs EXCEPT ![T0] = Wrap(Immediate(Lui(T0, a)))]
    BY <1>2, <1>3, <2>2 DEF Writes
  <2> QED BY <1>1, <1>3, <2>3, Named DEF DivideFacts, Registers
<1>4. CASE mtime = 1
  <2>1. AtWord(Addi(T0, a))
    BY <1>1, <1>4 DEF DivideText, AtWord
  <2>2. Writes(T0, a)
    BY <1>4, <2>1, AddiRuns, Named DEF DivideFacts
  <2>3. mtime' = 2 /\ OnLine(17)' /\ regs' = [regs EXCEPT ![T0] = a]
    BY <1>2, <1>4, <2>2 DEF Writes
  <2> QED BY <1>1, <1>4, <2>3, Named DEF DivideFacts, Registers
<1>5. CASE mtime = 2
  <2>1. AtWord(Lui(T1, b))
    BY <1>1, <1>5 DEF DivideText, AtWord
  <2>2. Writes(T1, Wrap(Immediate(Lui(T1, b))))
    BY <1>5, <2>1, LuiRuns, Named
  <2>3. mtime' = 3 /\ OnLine(17)' /\ regs' = [regs EXCEPT ![T1] = Wrap(Immediate(Lui(T1, b)))]
    BY <1>2, <1>5, <2>2 DEF Writes
  <2> QED BY <1>1, <1>5, <2>3, Named DEF DivideFacts, Registers
<1>6. CASE mtime = 3
  <2>1. AtWord(Addi(T1, b))
    BY <1>1, <1>6 DEF DivideText, AtWord
  <2>2. Writes(T1, b)
    BY <1>6, <2>1, AddiRuns, Named DEF DivideFacts
  <2>3. mtime' = 4 /\ OnLine(17)' /\ regs' = [regs EXCEPT ![T1] = b]
    BY <1>2, <1>6, <2>2 DEF Writes
  <2> QED BY <1>1, <1>6, <2>3, Named DEF DivideFacts, Registers
<1>7. CASE mtime = 4
  <2>1. AtWord(R(4, S0, T0, T1))
    BY <1>1, <1>7 DEF DivideText, AtWord
  <2>a. Writes(S0, MulDiv(4, regs[T0], regs[T1]))
    BY <2>1, MulDivRuns, InRange
  <2>2. Writes(S0, MulDiv(4, a, b))
    BY <1>7, <2>a DEF DivideFacts
  <2>3. mtime' = 5 /\ OnLine(17)' /\ regs' = [regs EXCEPT ![S0] = MulDiv(4, a, b)]
    BY <1>2, <1>7, <2>2 DEF Writes
  <2> QED BY <1>1, <1>7, <2>3, Named DEF DivideFacts, Registers
<1>8. CASE mtime = 5
  <2>1. AtWord(R(6, S1, T0, T1))
    BY <1>1, <1>8 DEF DivideText, AtWord
  <2>a. Writes(S1, MulDiv(6, regs[T0], regs[T1]))
    BY <2>1, MulDivRuns, InRange
  <2>2. Writes(S1, MulDiv(6, a, b))
    BY <1>8, <2>a DEF DivideFacts
  <2>3. mtime' = 6 /\ OnLine(17)' /\ regs' = [regs EXCEPT ![S1] = MulDiv(6, a, b)]
    BY <1>2, <1>8, <2>2 DEF Writes
  <2> QED BY <1>1, <1>8, <2>3, Named DEF DivideFacts, Registers
<1>9. CASE mtime = 6
  <2>1. AtWord(R(0, T2, S0, T1))
    BY <1>1, <1>9 DEF DivideText, AtWord
  <2>a. Writes(T2, MulDiv(0, regs[S0], regs[T1]))
    BY <2>1, MulDivRuns, InRange
  <2>2. Writes(T2, MulDiv(0, MulDiv(4, a, b), b))
    BY <1>9, <2>a DEF DivideFacts
  <2>3. mtime' = 7 /\ OnLine(17)' /\ regs' = [regs EXCEPT ![T2] = MulDiv(0, MulDiv(4, a, b), b)]
    BY <1>2, <1>9, <2>2 DEF Writes
  <2> QED BY <1>1, <1>9, <2>3, Named DEF DivideFacts, Registers
<1>10. CASE mtime = 7
  <2>1. AtWord(Sum(T2, T2, S1))
    BY <1>1, <1>10 DEF DivideText, AtWord
  <2>a. Writes(T2, Wrap(regs[T2] + regs[S1]))
    BY <2>1, SumRuns, InRange
  <2>2. Writes(T2, Wrap(MulDiv(0, MulDiv(4, a, b), b) + MulDiv(6, a, b)))
    BY <1>10, <2>a DEF DivideFacts
  <2>3. mtime' = 8 /\ OnLine(17)' /\ regs' = [regs EXCEPT ![T2] = Wrap(MulDiv(0, MulDiv(4, a, b), b) + MulDiv(6, a, b))]
    BY <1>2, <1>10, <2>2 DEF Writes
  <2> QED BY <1>1, <1>10, <2>3, Named DEF DivideFacts, Registers
<1>11. CASE mtime = 8
  <2>1. AtWord(R(5, S2, T0, T1))
    BY <1>1, <1>11 DEF DivideText, AtWord
  <2>a. Writes(S2, MulDiv(5, regs[T0], regs[T1]))
    BY <2>1, MulDivRuns, InRange
  <2>2. Writes(S2, MulDiv(5, a, b))
    BY <1>11, <2>a DEF DivideFacts
  <2>3. mtime' = 9 /\ OnLine(17)' /\ regs' = [regs EXCEPT ![S2] = MulDiv(5, a, b)]
    BY <1>2, <1>11, <2>2 DEF Writes
  <2> QED BY <1>1, <1>11, <2>3, Named DEF DivideFacts, Registers
<1>12. CASE mtime = 9
  <2>1. AtWord(R(7, S3, T0, T1))
    BY <1>1, <1>12 DEF DivideText, AtWord
  <2>a. Writes(S3, MulDiv(7, regs[T0], regs[T1]))
    BY <2>1, MulDivRuns, InRange
  <2>2. Writes(S3, MulDiv(7, a, b))
    BY <1>12, <2>a DEF DivideFacts
  <2>3. mtime' = 10 /\ OnLine(17)' /\ regs' = [regs EXCEPT ![S3] = MulDiv(7, a, b)]
    BY <1>2, <1>12, <2>2 DEF Writes
  <2> QED BY <1>1, <1>12, <2>3, Named DEF DivideFacts, Registers
<1>13. CASE mtime = 10
  <2>1. AtWord(R(0, T3, S2, T1))
    BY <1>1, <1>13 DEF DivideText, AtWord
  <2>a. Writes(T3, MulDiv(0, regs[S2], regs[T1]))
    BY <2>1, MulDivRuns, InRange
  <2>2. Writes(T3, MulDiv(0, MulDiv(5, a, b), b))
    BY <1>13, <2>a DEF DivideFacts
  <2>3. mtime' = 11 /\ OnLine(17)' /\ regs' = [regs EXCEPT ![T3] = MulDiv(0, MulDiv(5, a, b), b)]
    BY <1>2, <1>13, <2>2 DEF Writes
  <2> QED BY <1>1, <1>13, <2>3, Named DEF DivideFacts, Registers
<1>14. CASE mtime = 11
  <2>1. AtWord(Sum(T3, T3, S3))
    BY <1>1, <1>14 DEF DivideText, AtWord
  <2>a. Writes(T3, Wrap(regs[T3] + regs[S3]))
    BY <2>1, SumRuns, InRange
  <2>2. Writes(T3, Wrap(MulDiv(0, MulDiv(5, a, b), b) + MulDiv(7, a, b)))
    BY <1>14, <2>a DEF DivideFacts
  <2>3. mtime' = 12 /\ OnLine(17)' /\ regs' = [regs EXCEPT ![T3] = Wrap(MulDiv(0, MulDiv(5, a, b), b) + MulDiv(7, a, b))]
    BY <1>2, <1>14, <2>2 DEF Writes
  <2> QED BY <1>1, <1>14, <2>3, Named DEF DivideFacts, Registers
<1>15. CASE mtime = 12
  <2>1. AtWord(R(0, T5, T0, T1))
    BY <1>1, <1>15 DEF DivideText, AtWord
  <2>a. Writes(T5, MulDiv(0, regs[T0], regs[T1]))
    BY <2>1, MulDivRuns, InRange
  <2>2. Writes(T5, MulDiv(0, a, b))
    BY <1>15, <2>a DEF DivideFacts
  <2>3. mtime' = 13 /\ OnLine(17)' /\ regs' = [regs EXCEPT ![T5] = MulDiv(0, a, b)]
    BY <1>2, <1>15, <2>2 DEF Writes
  <2> QED BY <1>1, <1>15, <2>3, Named DEF DivideFacts, Registers
<1>16. CASE mtime = 13
  <2>1. AtWord(R(1, A0, T0, T1))
    BY <1>1, <1>16 DEF DivideText, AtWord
  <2>a. Writes(A0, MulDiv(1, regs[T0], regs[T1]))
    BY <2>1, MulDivRuns, InRange
  <2>2. Writes(A0, MulDiv(1, a, b))
    BY <1>16, <2>a DEF DivideFacts
  <2>3. mtime' = 14 /\ OnLine(17)' /\ regs' = [regs EXCEPT ![A0] = MulDiv(1, a, b)]
    BY <1>2, <1>16, <2>2 DEF Writes
  <2> QED BY <1>1, <1>16, <2>3, Named DEF DivideFacts, Registers
<1>17. CASE mtime = 14
  <2>1. AtWord(R(2, A1, T0, T1))
    BY <1>1, <1>17 DEF DivideText, AtWord
  <2>a. Writes(A1, MulDiv(2, regs[T0], regs[T1]))
    BY <2>1, MulDivRuns, InRange
  <2>2. Writes(A1, MulDiv(2, a, b))
    BY <1>17, <2>a DEF DivideFacts
  <2>3. mtime' = 15 /\ OnLine(17)' /\ regs' = [regs EXCEPT ![A1] = MulDiv(2, a, b)]
    BY <1>2, <1>17, <2>2 DEF Writes
  <2> QED BY <1>1, <1>17, <2>3, Named DEF DivideFacts, Registers
<1>18. CASE mtime = 15
  <2>1. AtWord(R(3, A2, T0, T1))
    BY <1>1, <1>18 DEF DivideText, AtWord
  <2>a. Writes(A2, MulDiv(3, regs[T0], regs[T1]))
    BY <2>1, MulDivRuns, InRange
  <2>2. Writes(A2, MulDiv(3, a, b))
    BY <1>18, <2>a DEF DivideFacts
  <2>3. mtime' = 16 /\ OnLine(17)' /\ regs' = [regs EXCEPT ![A2] = MulDiv(3, a, b)]
    BY <1>2, <1>18, <2>2 DEF Writes
  <2> QED BY <1>1, <1>18, <2>3, Named DEF DivideFacts, Registers
<1>19. CASE mtime = 16
  <2>1. AtWord(EBREAK)
    BY <1>1, <1>19 DEF DivideText, AtWord
  <2> QED BY <1>1, <1>19, <2>1, EbreakRuns DEF DivideFacts, OnLine
<1> QED BY <1>1, <1>3, <1>4, <1>5, <1>6, <1>7, <1>8, <1>9, <1>10, <1>11, <1>12, <1>13, <1>14, <1>15, <1>16, <1>17, <1>18, <1>19

\* Adding multiples of the size to a number adds to its quotient.
LEMMA QuotientShift ==
  ASSUME NEW n \in Int, NEW k \in Int
  PROVE  /\ n \div Size \in Int
         /\ (n + k * Size) \div Size = (n \div Size) + k
<1> DEFINE q == n \div Size
           r == n % Size
<1>1. Size \in Nat \ {0} /\ q \in Int /\ r \in 0 .. Size - 1 /\ n = Size * q + r
  BY WordSizes
<1> HIDE DEF q, r
<1>2. n + k * Size = Size * (q + k) + r /\ q + k \in Int
  BY <1>1
<1>3. (Size * (q + k) + r) \div Size = q + k
  BY <1>1, <1>2, DivisionUnique
<1> QED BY <1>1, <1>2, <1>3 DEF q

\* Wrapping an addend does not change a wrapped sum.
LEMMA WrapSum ==
  ASSUME NEW m \in Int, NEW n \in Int
  PROVE  Wrap(Wrap(m) + n) = Wrap(m + n)
<1>1. PICK k \in Int : Wrap(m) = m + k * Size
  BY WrapIs
<1>2. Wrap(m) + n = (m + n) + k * Size /\ m + n \in Int
  BY <1>1, WordSizes
<1> QED BY <1>2, WrapShift

\* The high word by halves of the factor is the high word of the product.
LEMMA HighByHalves ==
  ASSUME NEW a \in Words, NEW b \in Words
  PROVE  HighUnsigned(a, b) = Wrap((a * b) \div Size)
<1> DEFINE r == Pow2[XLEN \div 2]
           h == b \div r
           l == b % r
           u == (a * l) \div r
           t == (a * l) % r
           v == (a * h + u) \div r
           s == (a * h + u) % r
<1>1. r \in Nat \ {0} /\ Size = r * r /\ a \in Int /\ b \in Int
  BY ByteSizes, WordSizes
<1>2. h \in Int /\ l \in Int /\ b = r * h + l
  <2> HIDE DEF r
  <2> QED BY <1>1
<1> HIDE DEF r, h, l
<1>3. a * l \in Int /\ a * h \in Int
  BY <1>1, <1>2
<1>4. u \in Int /\ t \in 0 .. r - 1 /\ a * l = r * u + t
  <2> DEFINE m == a * l
  <2>1. m \in Int /\ r \in Nat \ {0}
    BY <1>1, <1>3
  <2> HIDE DEF m
  <2>2. m \div r \in Int /\ m % r \in 0 .. r - 1 /\ m = r * (m \div r) + (m % r)
    BY ONLY <2>1
  <2> QED BY <2>2 DEF m
<1> HIDE DEF u, t
<1>5. v \in Int /\ s \in 0 .. r - 1 /\ a * h + u = r * v + s
  <2> DEFINE m == a * h + u
  <2>1. m \in Int /\ r \in Nat \ {0}
    BY <1>1, <1>3, <1>4
  <2> HIDE DEF m
  <2>2. m \div r \in Int /\ m % r \in 0 .. r - 1 /\ m = r * (m \div r) + (m % r)
    BY ONLY <2>1
  <2> QED BY <2>2 DEF m
<1> HIDE DEF v, s
<1>6. a * b = r * (a * h + u) + t
  <2>1. a * b = r * (a * h) + a * l
    BY <1>1, <1>2
  <2>2. r * (a * h) + (r * u + t) = r * (a * h + u) + t
    BY <1>1, <1>3, <1>4
  <2> QED BY <1>4, <2>1, <2>2
<1>7. a * b = (r * r) * v + (t + r * s)
  <2>1. r * (r * v + s) + t = (r * r) * v + (t + r * s)
    BY <1>1, <1>4, <1>5
  <2> QED BY <1>5, <1>6, <2>1
<1>8. t + r * s \in 0 .. r * r - 1
  BY <1>1, <1>4, <1>5, TwoDigits
<1>9. (a * b) \div Size = v
  <2> DEFINE m == r * r
             x == t + r * s
  <2>1. m \in Nat \ {0} /\ x \in 0 .. m - 1 /\ v \in Int
    BY <1>1, <1>5, <1>8
  <2>2. a * b = m * v + x /\ m = Size
    BY <1>1, <1>7
  <2> HIDE DEF m, x
  <2>3. (m * v + x) \div m = v
    BY <2>1, DivisionUnique
  <2> QED BY <2>2, <2>3
<1>10. HighUnsigned(a, b) = Wrap(v)
  BY DEF HighUnsigned, v, u, h, l, r
<1> QED BY <1>9, <1>10

\* The two words of a signed product are the product, and the high words differ by the
\* operands that a signed reading takes for negative (MUL and MULH to MULHU).
LEMMA ProductWords ==
  ASSUME NEW a \in Words, NEW b \in Words
  PROVE  /\ Signed(MulDiv(1, a, b)) * Size + MulDiv(0, a, b) = Signed(a) * Signed(b)
         /\ MulDiv(3, a, b) = Wrap(MulDiv(2, a, b) + (IF Signed(a) < 0 THEN b ELSE 0))
         /\ MulDiv(2, a, b) = Wrap(MulDiv(1, a, b) + (IF Signed(b) < 0 THEN a ELSE 0))
<1> DEFINE x == Signed(a)
           y == Signed(b)
           n == x * y
           q == n \div Size
<1>1. /\ x \in Int /\ y \in Int /\ -Half <= x /\ x < Half /\ -Half <= y /\ y < Half
      /\ a \in Int /\ b \in Int /\ Half \in Nat /\ Size = 2 * Half /\ Half >= 2048
  BY SignedType, WordSizes
<1>2. /\ x < 0 => a = x + Size
      /\ x >= 0 => a = x
      /\ y < 0 => b = y + Size
      /\ y >= 0 => b = y
  BY WordSizes DEF Signed
<1>3. /\ MulDiv(0, a, b) = Wrap(n) /\ MulDiv(1, a, b) = Wrap(q)
      /\ MulDiv(2, a, b) = Wrap((x * b) \div Size)
      /\ MulDiv(3, a, b) = Wrap((a * b) \div Size)
  BY HighByHalves DEF MulDiv, High
<1> HIDE DEF x, y
<1>4. n \in Int /\ -(Half * Half) <= n /\ n <= Half * Half
  BY <1>1
<1>5. q \in Int /\ n = Size * q + Wrap(n) /\ Wrap(n) \in 0 .. Size - 1 /\ Size \in Nat \ {0}
  <2>1. Size \in Nat \ {0}
    BY <1>1
  <2> HIDE DEF n
  <2> QED BY <1>4, <2>1 DEF Wrap
<1> HIDE DEF q, n
<1>6. -Half <= q /\ q < Half
  <2>1. ~(q >= Half)
    <3> SUFFICES ASSUME q >= Half PROVE FALSE
      OBVIOUS
    <3>1. Size * q >= Size * Half
      BY <1>1, <1>5
    <3>2. Size * Half = 2 * (Half * Half) /\ Half * Half > 0
      BY <1>1
    <3> QED BY <1>1, <1>4, <1>5, <3>1, <3>2
  <2>2. ~(q <= -Half - 1)
    <3> SUFFICES ASSUME q <= -Half - 1 PROVE FALSE
      OBVIOUS
    <3>1. Size * q <= Size * (-Half - 1)
      BY <1>1, <1>5
    <3>2. Size * (-Half - 1) = -(2 * (Half * Half)) - Size /\ Half * Half > 0
      BY <1>1
    <3> QED BY <1>1, <1>4, <1>5, <3>1, <3>2
  <2> QED BY <1>1, <1>5, <2>1, <2>2
<1>7. Signed(MulDiv(1, a, b)) * Size + MulDiv(0, a, b) = n
  BY <1>3, <1>5, <1>6, SignedWrap
<1>8. Wrap((a * b) \div Size) = Wrap(Wrap((x * b) \div Size) + (IF x < 0 THEN b ELSE 0))
  <2> DEFINE m == x * b
  <2>1. m \in Int /\ a * b = m + (IF x < 0 THEN b ELSE 0) * Size
    BY <1>1, <1>2
  <2> DEFINE d == IF x < 0 THEN b ELSE 0
  <2>2. d \in Int /\ a * b = m + d * Size
    BY <1>1, <2>1
  <2> HIDE DEF m, d
  <2>3. (a * b) \div Size = (m \div Size) + d /\ m \div Size \in Int
    BY <2>1, <2>2, QuotientShift
  <2>4. Wrap(Wrap(m \div Size) + d) = Wrap((m \div Size) + d)
    BY <2>2, <2>3, WrapSum
  <2> QED BY <2>3, <2>4 DEF m, d
<1>9. Wrap((x * b) \div Size) = Wrap(Wrap(q) + (IF y < 0 THEN a ELSE 0))
  <2> DEFINE d == IF y < 0 THEN x ELSE 0
             e == IF y < 0 THEN a ELSE 0
  <2>1. x * b = n + d * Size /\ d \in Int
    BY <1>1, <1>2 DEF n
  <2>2. (x * b) \div Size = q + d
    BY <1>4, <2>1, QuotientShift DEF q
  <2>3. \E k \in Int : e = d + k * Size
    <3>1. e = d + 0 * Size \/ e = d + 1 * Size
      BY <1>1, <1>2
    <3> QED BY <3>1
  <2>4. PICK k \in Int : e = d + k * Size
    BY <2>3
  <2>5. q + e = (q + d) + k * Size /\ q + d \in Int /\ q + e \in Int /\ e \in Int
    BY <1>1, <1>5, <2>1, <2>4
  <2> HIDE DEF d, e
  <2>6. Wrap(q + e) = Wrap(q + d)
    BY <2>5, WrapShift
  <2>7. Wrap(Wrap(q) + e) = Wrap(q + e)
    BY <1>5, <2>5, WrapSum
  <2> QED BY <2>2, <2>6, <2>7 DEF e
<1> QED BY <1>3, <1>7, <1>8, <1>9 DEF n, x, y

\* The quotient times the divisor plus the remainder, as the machine computes it.
LEMMA QuotientsReturn ==
  ASSUME NEW a \in Words, NEW b \in Words
  PROVE  /\ Wrap(MulDiv(0, MulDiv(4, a, b), b) + MulDiv(6, a, b)) = a
         /\ Wrap(MulDiv(0, MulDiv(5, a, b), b) + MulDiv(7, a, b)) = a
<1>1. \A f3 : MulDiv(f3, a, b) \in Words
  BY MulDivType
<1>2. ASSUME NEW q \in Words, NEW r \in Words
      PROVE  Wrap(MulDiv(0, q, b) + r) = Wrap(q * b + r)
  <2> DEFINE n == Signed(q) * Signed(b)
  <2>1. /\ Signed(q) \in Int /\ Signed(b) \in Int /\ q \in Int /\ b \in Int /\ r \in Int
        /\ Size \in Int
    BY SignedType, WordSizes
  <2>2. PICK j \in Int : q = Signed(q) + j * Size
    BY SignedIs
  <2>3. PICK k \in Int : b = Signed(b) + k * Size
    BY SignedIs
  <2>4. Wrap(q * b + r) = Wrap(n + r)
    <3> DEFINE x == Signed(q)
               y == Signed(b)
    <3>1. x \in Int /\ y \in Int /\ q = x + j * Size /\ b = y + k * Size
      BY <2>1, <2>2, <2>3
    <3> HIDE DEF x, y
    <3>2. q * b = x * y + (x * k + j * y + j * k * Size) * Size
      BY <2>1, <3>1
    <3> DEFINE m == x * k + j * y + j * k * Size
               p == x * y + r
    <3>3. m \in Int /\ p \in Int /\ q * b + r = p + m * Size
      BY <2>1, <3>1, <3>2
    <3> HIDE DEF m, p
    <3>4. Wrap(p + m * Size) = Wrap(p)
      BY <3>3, WrapShift
    <3> QED BY <3>3, <3>4 DEF p, x, y
  <2>5. n \in Int
    BY <2>1
  <2>6. MulDiv(0, q, b) = Wrap(n)
    BY DEF MulDiv
  <2> HIDE DEF n
  <2> QED BY <2>1, <2>4, <2>5, <2>6, WrapSum
<1>3. /\ MulDiv(4, a, b) = rv_div(a, b) /\ MulDiv(5, a, b) = rv_divu(a, b)
      /\ MulDiv(6, a, b) = rv_rem(a, b) /\ MulDiv(7, a, b) = rv_remu(a, b)
  BY DEF MulDiv
<1>4. Wrap(rv_div(a, b) * b + rv_rem(a, b)) = a
  BY DivisionIsExact
<1>5. Wrap(rv_divu(a, b) * b + rv_remu(a, b)) = a
  <2>1. CASE b = 0
    <3>1. rv_divu(a, b) = Size - 1 /\ rv_remu(a, b) = a /\ a \in Int /\ Size \in Int
      BY <2>1, DivisionIsExact, WordSizes
    <3>2. rv_divu(a, b) * b + rv_remu(a, b) = a
      BY <2>1, <3>1
    <3> QED BY <3>2, WrapWord
  <2>2. CASE b # 0
    BY <2>2, DivisionIsExact, WrapWord
  <2> QED BY <2>1, <2>2
<1>6. Wrap(MulDiv(0, rv_div(a, b), b) + rv_rem(a, b)) = a
  BY <1>1, <1>2, <1>3, <1>4
<1>7. Wrap(MulDiv(0, rv_divu(a, b), b) + rv_remu(a, b)) = a
  BY <1>1, <1>2, <1>3, <1>5
<1> QED BY <1>3, <1>6, <1>7

\* The division program, and what its registers hold.
DivideInv ==
    boot.name = "divide" =>
        \E a, b \in Words :
            /\ boot.args = <<a, b>> /\ DivideText(boot.code, a, b)
            /\ DivideFacts(a, b)

\* What the program leaves, for any two words.
LEMMA DivideEnds ==
  ASSUME CInv, DivideInv
  PROVE  DivisionLaws
<1> SUFFICES ASSUME boot.name = "divide", state = "HALTED"
             PROVE  LET a == boot.args[1]
                        b == boot.args[2]
                        r == Signed(regs[S1]) IN
                    /\ regs[T2] = a /\ regs[T3] = a
                    /\ IF b = 0 THEN regs[S0] = Size - 1 /\ regs[S2] = Size - 1
                       ELSE /\ Magnitude(r) < Magnitude(Signed(b))
                            /\ r = 0 \/ (r < 0 <=> Signed(a) < 0)
                            /\ regs[S3] < b
                    /\ Signed(regs[A0]) * Size + regs[T5] = Signed(a) * Signed(b)
                    /\ regs[A2] = Wrap(regs[A1] + (IF Signed(a) < 0 THEN b ELSE 0))
                    /\ regs[A1] = Wrap(regs[A0] + (IF Signed(b) < 0 THEN a ELSE 0))
  BY DEF DivisionLaws, Ended
<1>1. PICK a, b \in Words : /\ boot.args = <<a, b>> /\ DivideFacts(a, b)
  BY DEF DivideInv
<1>2. mtime = 17
  BY <1>1 DEF DivideFacts, OnLine
<1>3. /\ regs[S0] = MulDiv(4, a, b) /\ regs[S1] = MulDiv(6, a, b)
      /\ regs[T2] = Wrap(MulDiv(0, MulDiv(4, a, b), b) + MulDiv(6, a, b))
      /\ regs[S2] = MulDiv(5, a, b) /\ regs[S3] = MulDiv(7, a, b)
      /\ regs[T3] = Wrap(MulDiv(0, MulDiv(5, a, b), b) + MulDiv(7, a, b))
      /\ regs[T5] = MulDiv(0, a, b) /\ regs[A0] = MulDiv(1, a, b)
      /\ regs[A1] = MulDiv(2, a, b) /\ regs[A2] = MulDiv(3, a, b)
  BY <1>1, <1>2 DEF DivideFacts
<1>4. /\ MulDiv(4, a, b) = rv_div(a, b) /\ MulDiv(5, a, b) = rv_divu(a, b)
      /\ MulDiv(6, a, b) = rv_rem(a, b) /\ MulDiv(7, a, b) = rv_remu(a, b)
  BY DEF MulDiv
<1>5. boot.args[1] = a /\ boot.args[2] = b
  BY <1>1
<1>6. regs[T2] = a /\ regs[T3] = a
  BY <1>3, QuotientsReturn
<1>7. IF b = 0 THEN regs[S0] = Size - 1 /\ regs[S2] = Size - 1
      ELSE /\ Magnitude(Signed(regs[S1])) < Magnitude(Signed(b))
           /\ Signed(regs[S1]) = 0 \/ (Signed(regs[S1]) < 0 <=> Signed(a) < 0)
           /\ regs[S3] < b
  BY <1>3, <1>4, DivisionIsExact
<1>8. /\ Signed(regs[A0]) * Size + regs[T5] = Signed(a) * Signed(b)
      /\ regs[A2] = Wrap(regs[A1] + (IF Signed(a) < 0 THEN b ELSE 0))
      /\ regs[A1] = Wrap(regs[A0] + (IF Signed(b) < 0 THEN a ELSE 0))
  BY <1>3, ProductWords
<1> QED BY <1>5, <1>6, <1>7, <1>8

\* On words of every width up to 32, for any two words, the division program ends with
\* what the manual promises of quotients, remainders and high words (execute.c:29-34 and
\* RV32M), whatever else is booted.
THEOREM DivisionLawsHold ==
  ASSUME HostTyped, XLEN <= 32, TextFits(17),
         \A b \in Boots : b.name = "divide" => b \in Divisions(Words, Words)
  PROVE  Spec => []DivisionLaws
<1>1. Init => CInv
  BY InitType
<1>2. CInv /\ [Next]_vars => CInv'
  BY StepType
<1>3. Init => DivideInv
  <2> SUFFICES ASSUME Init, boot.name = "divide"
               PROVE  \E a, b \in Words :
                        /\ boot.args = <<a, b>> /\ DivideText(boot.code, a, b)
                        /\ DivideFacts(a, b)
    BY DEF DivideInv
  <2>1. boot \in Divisions(Words, Words)
    BY DEF Init
  <2>2. PICK a, b \in Words : boot = Booted("divide", <<a, b>>, divide(a, b), 200)
    BY ONLY <2>1 DEF Divisions
  <2>3. boot.args = <<a, b>> /\ boot.code = assemble(divide(a, b), TEXT) /\ boot.entry = TEXT
        /\ boot.mtime = 0
    BY <2>2 DEF Booted
  <2>4. DivideText(boot.code, a, b)
    BY <2>3, DivideAssembled DEF TextFits
  <2>5. mtime = 0 /\ pc = TEXT /\ state = "RUNNING" /\ TEXT \in Nat
    BY <2>3 DEF Init, TextFits
  <2>6. DivideFacts(a, b)
    BY <2>5 DEF DivideFacts, OnLine
  <2> QED BY <2>3, <2>4, <2>6
<1>4. CInv /\ DivideInv /\ [Next]_vars => DivideInv'
  <2> SUFFICES ASSUME CInv, DivideInv, [Next]_vars PROVE DivideInv'
    OBVIOUS
  <2>1. CASE UNCHANGED vars
    BY <2>1 DEF vars, DivideInv, DivideFacts, OnLine
  <2>2. CASE Step
    <3>1. boot' = boot
      BY <2>2 DEF Step
    <3> SUFFICES ASSUME boot.name = "divide" PROVE DivideInv'
      BY <3>1 DEF DivideInv
    <3>2. PICK a, b \in Words : /\ boot.args = <<a, b>> /\ DivideText(boot.code, a, b)
                                /\ DivideFacts(a, b)
      BY DEF DivideInv
    <3>3. DivideFacts(a, b)'
      BY <2>2, <3>2, DivideStep
    <3> QED BY <3>1, <3>2, <3>3 DEF DivideInv
  <2> QED BY <2>1, <2>2 DEF Next, Returned
<1>5. CInv /\ DivideInv => DivisionLaws
  BY DivideEnds
<1> QED BY <1>1, <1>2, <1>3, <1>4, <1>5, PTL DEF Spec
-----------------------------------------------------------------------------
\* The end of memory.

\* The instruction that touches it, the bytes it asks for, and where they are there.
Access(a, d) ==
    IF a[1] \in {OP_LOAD, OP_LOAD_FP} THEN enc_i(1 - d, S0, a[2], T0, a[1])
    ELSE enc_s(1 - d, T0, S0, a[2], a[1])
Wide(a) == <<1, 2, 4>>[(a[2] % 4) + 1]
Fits(n, d) == d >= n /\ d % n = 0

\* The distances from the end that fit an immediate.
Distances == 0 .. 2047

TouchText(c, a, d) ==
    /\ Holds(c, TEXT, Lui(S0, MemSize - 1)) /\ Holds(c, TEXT + 4, Addi(S0, MemSize - 1))
    /\ Holds(c, TEXT + 8, Access(a, d))
    /\ Holds(c, TEXT + 12, EBREAK)

\* The assembler puts them there.
LEMMA TouchAssembled ==
  ASSUME TEXT \in Nat, NEW a, NEW d
  PROVE  TouchText(assemble(touch(a, d), TEXT), a, d)
<1> DEFINE items == touch(a, d)
           c == assemble(items, TEXT)
<1>1. /\ Len(items) = 3
      /\ items[1] = li32(S0, MemSize - 1)
      /\ items[2] = Word(Access(a, d))
      /\ items[3] = Word(EBREAK)
  BY DEF touch, Access, ebreak, system, EBREAK, Special
<1> HIDE DEF items
<1>2. /\ Holds(c, TEXT, Lui(S0, MemSize - 1)) /\ Holds(c, TEXT + 4, Addi(S0, MemSize - 1))
      /\ ItemAt(items, TEXT, 2, 8)
  <2>1. items[1] = li32(S0, MemSize - 1) /\ Len(items) \in Nat /\ Len(items) >= 1 /\ TEXT \in Int
    BY <1>1
  <2> QED BY ONLY <2>1, FirstConstant
<1>3. Holds(c, TEXT + 8, Access(a, d)) /\ ItemAt(items, TEXT, 3, 12)
  BY <1>1, <1>2, NextWord
<1>4. Holds(c, TEXT + 12, EBREAK)
  BY <1>1, <1>3, NextWord
<1> QED BY <1>2, <1>3, <1>4 DEF TouchText, items

\* What an access asks for.
LEMMA AccessWord ==
  ASSUME NEW a \in Accesses, NEW d \in Distances
  PROVE  /\ Access(a, d) \in Fields /\ get_fmt(Access(a, d).op) # "UNKNOWN"
         /\ Access(a, d).op \in {OP_LOAD, OP_STORE, OP_LOAD_FP, OP_STORE_FP}
         /\ Access(a, d).f3 \in {0, 1, 2, 4, 5}
         /\ Access(a, d).op = OP_STORE => Access(a, d).f3 \in 0 .. 2
         /\ Access(a, d).op \in {OP_LOAD_FP, OP_STORE_FP} => Access(a, d).f3 = 2
         /\ Access(a, d).rs1 = S0 /\ Immediate(Access(a, d)) = 1 - d
         /\ Wide(a) \in {1, 2, 4} /\ Width(I(Access(a, d))) = Wide(a)
<1> DEFINE w == Access(a, d)
<1>1. /\ a[1] \in {OP_LOAD, OP_STORE, OP_LOAD_FP, OP_STORE_FP}
      /\ a[2] \in {0, 1, 2, 4, 5} /\ (a[1] = OP_STORE => a[2] \in 0 .. 2)
      /\ (a[1] \in {OP_LOAD_FP, OP_STORE_FP} => a[2] = 2)
  <2>1. CASE a \in {<<OP_LOAD, f3>> : f3 \in {0, 1, 2, 4, 5}}
    BY <2>1, Opcodes
  <2>2. CASE a \in {<<OP_STORE, f3>> : f3 \in 0 .. 2}
    BY <2>2, Opcodes
  <2>3. CASE a \in {<<OP_LOAD_FP, 2>>, <<OP_STORE_FP, 2>>}
    BY <2>3, Opcodes
  <2> QED BY <2>1, <2>2, <2>3 DEF Accesses
<1>2. w.op = a[1] /\ w.f3 = a[2] /\ w.rs1 = S0
  BY DEF Access, enc_i, enc_s, enc_r
<1>3. w \in Fields
  <2>1. a[1] \in Codes7 /\ a[2] \in Codes3 /\ S0 \in Registers /\ T0 \in Registers /\ 1 - d \in Int
    BY SMT, <1>1, Opcodes, InRange DEF Codes7, Codes3, Distances
  <2> QED BY <2>1, EncodeI, EncodeS DEF Access
<1>4. Immediate(w) = 1 - d
  <2> DEFINE n == 1 - d
  <2>1. n \in Int /\ -2048 <= n /\ n < 2048
    BY SMT DEF Distances
  <2> HIDE DEF n
  <2>2. CASE a[1] \in {OP_LOAD, OP_LOAD_FP}
    <3>1. w = enc_i(n, S0, a[2], T0, a[1])
      BY <2>2 DEF Access, n
    <3>2. imm_i(enc_i(n, S0, a[2], T0, a[1])) = n
      BY SMT, <2>1, SignedImmediate
    <3>3. get_fmt(a[1]) = "I"
      BY <2>2, Formats
    <3> HIDE DEF w
    <3> QED BY <1>2, <3>1, <3>2, <3>3 DEF Immediate, n
  <2>3. CASE a[1] \in {OP_STORE, OP_STORE_FP}
    <3>1. w = enc_s(n, T0, S0, a[2], a[1])
      BY <2>3, Opcodes DEF Access, n
    <3>2. imm_s(enc_s(n, T0, S0, a[2], a[1])) = n
      BY SMT, <2>1, SignedImmediate
    <3>3. get_fmt(a[1]) = "S"
      BY <2>3, Formats
    <3> HIDE DEF w
    <3> QED BY <1>2, <3>1, <3>2, <3>3 DEF Immediate, n
  <2> QED BY <1>1, <2>2, <2>3
<1> HIDE DEF w
<1>5. get_fmt(w.op) # "UNKNOWN"
  BY <1>1, <1>2, Formats
<1>6. Width(I(w)) = Wide(a) /\ Wide(a) \in {1, 2, 4}
  BY <1>1, <1>2 DEF Width, Wide, I
<1> QED BY <1>1, <1>2, <1>3, <1>4, <1>5, <1>6 DEF w

\* A step that would touch the memory does it if the bytes are there, and faults if not.
LEMMA AccessRuns ==
  ASSUME CInv, Step, MemSize % 4 = 0,
         MemSize \notin {CSR_MMIO_UART, CLINT_MTIME_LO, CLINT_MTIMECMP_LO},
         NEW a \in Accesses, NEW d \in Distances, d <= MemSize,
         AtWord(Access(a, d)), regs[S0] = MemSize - 1
  PROVE  /\ Fits(Wide(a), d) => Advances
         /\ ~Fits(Wide(a), d) => mtime' = mtime + 1 /\ boot' = boot /\ state' = "EXCEPTION"
<1> DEFINE w == Access(a, d)
           i == I(w)
           n == Wide(a)
<1>1. /\ w \in Fields /\ get_fmt(w.op) # "UNKNOWN"
      /\ w.op \in {OP_LOAD, OP_STORE, OP_LOAD_FP, OP_STORE_FP}
      /\ w.f3 \in {0, 1, 2, 4, 5} /\ (w.op = OP_STORE => w.f3 \in 0 .. 2)
      /\ (w.op \in {OP_LOAD_FP, OP_STORE_FP} => w.f3 = 2)
      /\ w.rs1 = S0 /\ Immediate(w) = 1 - d
      /\ n \in {1, 2, 4} /\ Width(i) = n
  BY AccessWord
<1>2. Reads(w)
  BY <1>1 DEF Reads, AtWord
<1>3. i.raw = w /\ i.imm = Immediate(w)
  BY DEF I
<1> HIDE DEF w, n
<1>4. MemSize \in Nat /\ MemSize - d \in Words /\ d \in Nat
  BY SMT, MemoryAssumption, WordSizes DEF Distances
<1>5. Target(i) = MemSize - d
  <2>1. Target(i) = Wrap((MemSize - 1) + (1 - d))
    BY <1>1, <1>3 DEF Target, rs1_val
  <2>2. (MemSize - 1) + (1 - d) = MemSize - d
    BY <1>4
  <2> QED BY <1>4, <2>1, <2>2, WrapWord
<1>6. /\ Aligned(i) <=> d % n = 0
      /\ Target(i) + n <= MemSize <=> d >= n
  <2>1. d \in Int /\ MemSize \in Int /\ MemSize % 4 = 0 /\ n \in {1, 2, 4}
    BY <1>1, <1>4
  <2>2. (MemSize - d) % n = 0 <=> d % n = 0
    <3>1. CASE n = 1
      BY ONLY <2>1, <3>1
    <3>2. CASE n = 2
      BY ONLY <2>1, <3>2
    <3>3. CASE n = 4
      BY ONLY <2>1, <3>3
    <3> QED BY <2>1, <3>1, <3>2, <3>3
  <2>3. (MemSize - d) + n <= MemSize <=> d >= n
    BY ONLY <2>1
  <2> QED BY <1>1, <1>5, <2>2, <2>3 DEF Aligned
<1>7. ASSUME Fits(n, d) PROVE Advances
  <2>1. Aligned(i) /\ Target(i) + Width(i) <= MemSize
    BY <1>1, <1>6, <1>7 DEF Fits
  <2>2. CASE w.op = OP_LOAD
    BY <1>1, <1>2, <2>1, <2>2, LoadAt
  <2>3. CASE w.op = OP_STORE
    BY <1>1, <1>2, <2>1, <2>3, StoreAt
  <2>4. w.op \in {OP_LOAD_FP, OP_STORE_FP} => n = 4
    BY <1>1, <1>3 DEF Width
  <2>5. CASE w.op = OP_LOAD_FP
    BY <1>1, <1>2, <2>1, <2>4, <2>5, FpLoadAt
  <2>6. CASE w.op = OP_STORE_FP
    BY <1>1, <1>2, <2>1, <2>4, <2>6, FpStoreAt
  <2> QED BY <1>1, <2>2, <2>3, <2>5, <2>6
<1>8. ASSUME ~Fits(n, d)
      PROVE  mtime' = mtime + 1 /\ boot' = boot /\ state' = "EXCEPTION"
  <2>1. ~Aligned(i) \/ ~InMemory(Target(i), n)
    BY <1>6, <1>8 DEF Fits, InMemory
  <2>2. w.op \in {OP_LOAD_FP, OP_STORE_FP} => n = 4
    BY <1>1, <1>3 DEF Width
  <2>3. Aligned(i) => Target(i) \notin {CSR_MMIO_UART, CLINT_MTIME_LO, CLINT_MTIMECMP_LO}
    BY <1>4, <1>5, MemoryAssumption
  <2>4. ~Load(i)
    BY <1>1, <2>1, <2>3 DEF Load, ReadsMtime
  <2>5. ~Store(i)
    BY <1>1, <2>1, <2>3 DEF Store, ArmsTimer, Prints
  <2>6. w.op = OP_LOAD_FP => ~FpLoad(i)
    BY <2>1, <2>2 DEF FpLoad
  <2>7. w.op = OP_STORE_FP => ~FpStore(i)
    BY <2>1, <2>2 DEF FpStore
  <2>8. ~Execute(i)
    BY <1>1, <1>3, <2>4, <2>5, <2>6, <2>7, OpcodeDecides
  <2> QED BY <1>2, <2>8, StepAt DEF Fault
<1> QED BY <1>7, <1>8 DEF n

\* The program up to its end.
TouchFacts(a, d) ==
    /\ mtime \in 0 .. 4
    /\ state = "RUNNING" => mtime < 4 /\ pc = TEXT + 4 * mtime
    /\ mtime = 1 => regs[S0] = Wrap(Immediate(Lui(S0, MemSize - 1)))
    /\ mtime = 2 => regs[S0] = MemSize - 1
    /\ mtime = 3 /\ state = "RUNNING" => Fits(Wide(a), d)
    /\ state = "HALTED" => Fits(Wide(a), d)
    /\ state = "EXCEPTION" => ~Fits(Wide(a), d)

\* Every step of the program keeps that.
LEMMA TouchStep ==
  ASSUME CInv, Step, XLEN <= 32, TextFits(4), MemSize % 4 = 0,
         MemSize \notin {CSR_MMIO_UART, CLINT_MTIME_LO, CLINT_MTIMECMP_LO},
         NEW a \in Accesses, NEW d \in Distances, d <= MemSize,
         TouchText(boot.code, a, d), TouchFacts(a, d)
  PROVE  TouchFacts(a, d)'
<1>1. /\ state = "RUNNING" /\ mtime \in 0 .. 3 /\ pc = TEXT + 4 * mtime
      /\ TEXT \in Nat /\ TEXT % 2 = 0 /\ MemSize \in Nat /\ TEXT + 16 <= MemSize
      /\ regs \in [Registers -> Words] /\ MemSize - 1 \in Words
  BY MemoryAssumption, WordSizes DEF Step, Going, TouchFacts, CInv, CTypeOK, TextFits
<1>2. CASE mtime = 0
  <2>1. AtWord(Lui(S0, MemSize - 1))
    BY <1>1, <1>2 DEF TouchText, AtWord
  <2>2. Writes(S0, Wrap(Immediate(Lui(S0, MemSize - 1))))
    BY <1>1, <2>1, LuiRuns, Named
  <2> QED BY <1>1, <1>2, <2>2, Named DEF TouchFacts, Writes, Advances, Registers
<1>3. CASE mtime = 1
  <2>1. AtWord(Addi(S0, MemSize - 1))
    BY <1>1, <1>3 DEF TouchText, AtWord
  <2>2. Writes(S0, MemSize - 1)
    BY <1>1, <1>3, <2>1, AddiRuns, Named DEF TouchFacts
  <2> QED BY <1>1, <1>3, <2>2, Named DEF TouchFacts, Writes, Advances, Registers
<1>4. CASE mtime = 2
  <2>1. AtWord(Access(a, d)) /\ regs[S0] = MemSize - 1
    BY <1>1, <1>4 DEF TouchText, AtWord, TouchFacts
  <2>2. /\ Fits(Wide(a), d) => Advances
        /\ ~Fits(Wide(a), d) => mtime' = mtime + 1 /\ boot' = boot /\ state' = "EXCEPTION"
    BY <1>1, <2>1, AccessRuns
  <2> QED BY <1>1, <1>4, <2>2 DEF TouchFacts, Advances
<1>5. CASE mtime = 3
  <2>1. AtWord(EBREAK) /\ Fits(Wide(a), d)
    BY <1>1, <1>5 DEF TouchText, AtWord, TouchFacts
  <2> QED BY <1>1, <1>5, <2>1, EbreakRuns DEF TouchFacts
<1> QED BY <1>1, <1>2, <1>3, <1>4, <1>5
\* The last instruction: an ebreak of n bytes.
Final(n) == <<IF n = 2 THEN Short(c_ebreak) ELSE ebreak>>

\* Where the assembler puts it.
LEMMA FinalAssembled ==
  ASSUME NEW base \in Int, NEW n \in {2, 4}
  PROVE  LET c == assemble(Final(n), base) IN
         /\ n = 2 => base \in DOMAIN c /\ c[base] = c_ebreak
         /\ n = 4 => Holds(c, base, EBREAK)
<1> DEFINE items == Final(n)
           c == assemble(items, base)
<1>1. /\ Len(items) = 1 /\ 1 \in 1 .. Len(items)
      /\ items[1] = IF n = 2 THEN Short(c_ebreak) ELSE Word(EBREAK)
  BY DEF Final, ebreak, system, EBREAK, Special
<1> HIDE DEF items
<1>2. AddressOf(items, base, 1) = base
  BY <1>1, PlacedIs
<1>3. ASSUME n = 4 PROVE Holds(c, base, EBREAK)
  <2>1. items[1].kind = "word" /\ items[1].word = EBREAK
    BY <1>1, <1>3 DEF Word
  <2> QED BY <1>1, <1>2, <2>1, WordPlaced
<1>4. ASSUME n = 2 PROVE base \in DOMAIN c /\ c[base] = c_ebreak
  <2>1. items[1].kind = "half" /\ items[1].half = c_ebreak
    BY <1>1, <1>4 DEF Short
  <2>2. HalfCount(items[1]) = 1
    BY <2>1 DEF HalfCount
  <2>3. CodeOf(items, base, 1) = <<c_ebreak>>
    BY <2>1 DEF CodeOf, Encoded
  <2>4. HasHalves(c, base, CodeOf(items, base, 1), HalfCount(items[1]))
    BY <1>1, <1>2, AssembleIs
  <2>5. HasHalves(c, base, <<c_ebreak>>, 1)
    BY <2>2, <2>3, <2>4
  <2>6. base + 2 * (1 - 1) = base /\ 1 \in 1 .. 1 /\ <<c_ebreak>>[1] = c_ebreak
    OBVIOUS
  <2> HIDE DEF c
  <2> QED BY <2>5, <2>6 DEF HasHalves
<1> QED BY <1>3, <1>4 DEF items

\* c.ebreak expands to ebreak.
LEMMA ShortEbreak ==
  /\ c_ebreak % 4 = 2
  /\ UNION {decode(w, 2) : w \in expand_compressed(c_ebreak)}
       = {[raw |-> EBREAK, len |-> 2, imm |-> Immediate(EBREAK)]}
<1>1. /\ C_OP(c_ebreak) = 2 /\ C_F3(c_ebreak) = 4 /\ C_RD(c_ebreak) = 0 /\ C_RS2(c_ebreak) = 0
      /\ Part(c_ebreak, 4096, 2) = 1 /\ c_ebreak % 4 = 2
  BY SMT DEF c_ebreak, C_OP, C_F3, C_RD, C_RS2, Part
<1> DEFINE c == c_ebreak
<1> HIDE DEF c
<1>2. Quadrant2(c) = {enc_i(1, 0, 0, 0, OP_SYSTEM)}
  BY SMT, <1>1 DEF Quadrant2, Row, c
<1>3. expand_compressed(c_ebreak) = {EBREAK}
  BY SMT, <1>1, <1>2 DEF expand_compressed, EBREAK, Special, c
<1>4. decode(EBREAK, 2) = {[raw |-> EBREAK, len |-> 2, imm |-> Immediate(EBREAK)]}
  BY EbreakIsWord DEF decode
<1> QED BY <1>1, <1>3, <1>4

LastText(c, a, n) ==
    /\ n = 2 => a \in DOMAIN c /\ c[a] = c_ebreak
    /\ n = 4 => Holds(c, a, EBREAK)

\* Before and after its step.
LastFacts(n, d) ==
    /\ state = "RUNNING" => pc = MemSize - d /\ LastText(boot.code, MemSize - d, n)
    /\ state = "HALTED" => d >= n /\ d % 2 = 0
    /\ state = "EXCEPTION" => ~(d >= n /\ d % 2 = 0)

\* The instruction runs if it is in the memory, and faults if it is not.
LEMMA LastStep ==
  ASSUME CInv, Step, MemSize % 4 = 0, NEW n \in {2, 4}, NEW d \in Distances, d <= MemSize,
         LastFacts(n, d)
  PROVE  LastFacts(n, d)'
<1>1. /\ state = "RUNNING" /\ pc = MemSize - d /\ LastText(boot.code, pc, n)
      /\ MemSize \in Nat /\ pc \in Nat /\ d \in Nat
  BY SMT, MemoryAssumption, WordSizes DEF Step, Going, LastFacts, CInv, CTypeOK, Distances
<1>2. /\ pc % 2 = d % 2
      /\ \A k \in Nat : InMemory(pc, k) <=> d >= k
  <2>1. MemSize \in Int /\ d \in Int /\ pc = MemSize - d /\ MemSize % 4 = 0
    BY <1>1
  <2>2. pc % 2 = d % 2
    BY ONLY <2>1
  <2>3. ASSUME NEW k \in Nat PROVE pc + k <= MemSize <=> d >= k
    BY ONLY <2>1
  <2> QED BY <2>2, <2>3 DEF InMemory
<1>3. ASSUME d >= n, d % 2 = 0 PROVE state' = "HALTED"
  <2>1. CASE n = 4
    <3>1. Reads(EBREAK)
      BY <1>1, <1>2, <1>3, <2>1, EbreakIsWord DEF Reads, LastText, InMemory
    <3> QED BY <3>1, EbreakAt
  <2>2. CASE n = 2
    <3> DEFINE i == [raw |-> EBREAK, len |-> 2, imm |-> Immediate(EBREAK)]
    <3>1. Parcel(pc) = c_ebreak
      BY <1>1, <2>2 DEF LastText, Parcel
    <3>2. Instruction = {i}
      BY <1>1, <1>2, <1>3, <2>2, <3>1, ShortEbreak DEF Instruction
    <3>3. ~FetchRefused
      <4>1. pc + 2 <= MemSize /\ pc % 2 # 1
        BY <1>1, <1>2, <1>3, <2>2 DEF InMemory
      <4>2. pc + 2 \in Words
        BY <1>1, <4>1, MemoryAssumption, WordSizes
      <4>3. Wrap(pc + 2) = pc + 2
        BY <4>2, WrapWord
      <4> HIDE DEF i
      <4> QED BY <1>1, <3>2, <4>1, <4>3 DEF FetchRefused, OutOfMemory
    <3>4. i.raw = EBREAK
      OBVIOUS
    <3> HIDE DEF i
    <3> QED BY <3>2, <3>3, <3>4, EbreakOf
  <2> QED BY <2>1, <2>2
<1>4. ASSUME ~(d >= n /\ d % 2 = 0) PROVE state' = "EXCEPTION"
  <2>1. Instruction = {}
    <3>1. CASE d % 2 # 0
      <4>1. pc % 2 = 1
        BY <1>1, <1>2, <3>1
      <4> QED BY <4>1 DEF Instruction
    <3>2. CASE d % 2 = 0 /\ d < 2
      BY <1>1, <1>2, <3>2 DEF Instruction
    <3>3. CASE d % 2 = 0 /\ d >= 2
      <4>1. n = 4 /\ ~InMemory(pc, 4) /\ InMemory(pc, 2)
        BY <1>1, <1>2, <1>4, <3>3
      <4>2. Parcel(pc) = Halves(EBREAK)[1]
        BY <1>1, <4>1 DEF LastText, Holds, Parcel
      <4>3. Halves(EBREAK)[1] % 4 = 3
        BY SMT, Opcodes DEF Halves, EBREAK, Special, enc_i, enc_r
      <4> QED BY <1>1, <4>1, <4>2, <4>3 DEF Instruction
    <3> QED BY <1>1, <3>1, <3>2, <3>3
  <2> QED BY <2>1 DEF Step, Fault
<1>5. boot' = boot
  BY DEF Step
<1> QED BY <1>1, <1>3, <1>4, <1>5 DEF LastFacts

\* The program of one instruction that begins d bytes before the end.
LastBoot(n, d) ==
    [Booted("last", <<n, d>>, Final(n), 9) EXCEPT
        !.entry = MemSize - d, !.code = assemble(Final(n), MemSize - d)]

\* The two kinds of programs.
EndInv(ds) ==
    /\ boot.name = "touch" =>
         \E a \in Accesses, d \in ds :
             boot.args = <<a, d>> /\ TouchText(boot.code, a, d) /\ TouchFacts(a, d)
    /\ boot.name = "last" =>
         \E n \in {2, 4}, d \in ds : boot.args = <<n, d>> /\ LastFacts(n, d)

\* An access of any kind, of any size and at any distance from the end of the memory
\* works if and only if it is aligned and all of it is inside (mem_read8 to mem_write32,
\* flw and fsw); so does a fetch of an instruction of 16 or of 32 bits (emu_step).
THEOREM MemoryEnds ==
  ASSUME HostTyped, XLEN <= 32, TextFits(4), MemSize % 4 = 0,
         MemSize \notin {CSR_MMIO_UART, CLINT_MTIME_LO, CLINT_MTIMECMP_LO},
         NEW ds \in SUBSET Distances, \A d \in ds : d <= MemSize,
         \A b \in Boots : b.name \in {"touch", "last"} => b \in Touches(ds)
  PROVE  Spec => []EndOfMemory
<1>1. Init => CInv
  BY InitType
<1>2. CInv /\ [Next]_vars => CInv'
  BY StepType
<1>3. Init => EndInv(ds)
  <2> SUFFICES ASSUME Init PROVE EndInv(ds)
    OBVIOUS
  <2>0. /\ boot \in Boots /\ mtime = boot.mtime /\ pc = boot.entry /\ state = "RUNNING"
    BY DEF Init
  <2>1. ASSUME boot \in {Booted("touch", <<a, d>>, touch(a, d), 9) : a \in Accesses, d \in ds}
        PROVE  /\ boot.name = "touch"
               /\ \E a \in Accesses, d \in ds :
                    boot.args = <<a, d>> /\ TouchText(boot.code, a, d) /\ TouchFacts(a, d)
    <3>1. PICK a \in Accesses, d \in ds : boot = Booted("touch", <<a, d>>, touch(a, d), 9)
      BY <2>1
    <3>2. /\ boot.name = "touch" /\ boot.args = <<a, d>> /\ boot.entry = TEXT /\ boot.mtime = 0
          /\ boot.code = assemble(touch(a, d), TEXT)
      BY <3>1 DEF Booted
    <3>3. TouchText(boot.code, a, d)
      BY <3>2, TouchAssembled DEF TextFits
    <3>4. TouchFacts(a, d)
      BY <2>0, <3>2 DEF TouchFacts, TextFits
    <3> QED BY <3>2, <3>3, <3>4
  <2>2. ASSUME boot \in LastInstructions(ds)
        PROVE  /\ boot.name = "last"
               /\ \E n \in {2, 4}, d \in ds : boot.args = <<n, d>> /\ LastFacts(n, d)
    <3>1. PICK n \in {2, 4}, d \in ds : boot = LastBoot(n, d)
      <4> DEFINE b(n, d) == [Booted("last", <<n, d>>, Final(n), 9) EXCEPT
                               !.entry = MemSize - d, !.code = assemble(Final(n), MemSize - d)]
      <4>1. LastInstructions(ds) = {b(n, d) : n \in {2, 4}, d \in ds}
        BY DEF LastInstructions, Final
      <4>2. \A n \in {2, 4}, d \in ds : b(n, d) = LastBoot(n, d)
        BY DEF LastBoot
      <4> HIDE DEF b
      <4> QED BY <2>2, <4>1, <4>2
    <3>2. /\ boot.name = "last" /\ boot.args = <<n, d>> /\ boot.entry = MemSize - d
          /\ boot.code = assemble(Final(n), MemSize - d)
      BY <3>1 DEF Booted, LastBoot
    <3>3. MemSize - d \in Int
      BY SMT, MemoryAssumption, WordSizes DEF Distances
    <3>4. LastText(boot.code, MemSize - d, n)
      BY <3>2, <3>3, FinalAssembled DEF LastText
    <3>5. LastFacts(n, d)
      BY <2>0, <3>2, <3>4 DEF LastFacts
    <3> QED BY <3>2, <3>5
  <2>3. boot.name \in {"touch", "last"} => boot \in Touches(ds)
    BY <2>0
  <2> QED BY <2>1, <2>2, <2>3 DEF EndInv, Touches
<1>4. CInv /\ EndInv(ds) /\ [Next]_vars => EndInv(ds)'
  <2> SUFFICES ASSUME CInv, EndInv(ds), [Next]_vars PROVE EndInv(ds)'
    OBVIOUS
  <2>1. CASE UNCHANGED vars
    BY <2>1 DEF vars, EndInv, TouchFacts, LastFacts
  <2>2. CASE Step
    <3>1. boot' = boot
      BY <2>2 DEF Step
    <3>2. ASSUME boot.name = "touch"
          PROVE  \E a \in Accesses, d \in ds :
                    /\ boot'.args = <<a, d>> /\ TouchText(boot'.code, a, d)
                    /\ TouchFacts(a, d)'
      <4>1. PICK a \in Accesses, d \in ds :
              boot.args = <<a, d>> /\ TouchText(boot.code, a, d) /\ TouchFacts(a, d)
        BY <3>2 DEF EndInv
      <4>2. d \in Distances /\ d <= MemSize
        OBVIOUS
      <4>3. TouchFacts(a, d)'
        BY <2>2, <4>1, <4>2, TouchStep
      <4> QED BY <3>1, <4>1, <4>3
    <3>3. ASSUME boot.name = "last"
          PROVE  \E n \in {2, 4}, d \in ds : boot'.args = <<n, d>> /\ LastFacts(n, d)'
      <4>1. PICK n \in {2, 4}, d \in ds : boot.args = <<n, d>> /\ LastFacts(n, d)
        BY <3>3 DEF EndInv
      <4>2. d \in Distances /\ d <= MemSize
        OBVIOUS
      <4>3. LastFacts(n, d)'
        BY <2>2, <4>1, <4>2, LastStep
      <4> QED BY <3>1, <4>1, <4>3
    <3> QED BY <3>1, <3>2, <3>3 DEF EndInv
  <2> QED BY <2>1, <2>2 DEF Next, Returned
<1>5. CInv /\ EndInv(ds) => EndOfMemory
  <2> SUFFICES ASSUME CInv, EndInv(ds), state # "RUNNING" PROVE EndOfMemory
    BY DEF EndOfMemory
  <2>0. state \in {"HALTED", "EXCEPTION"}
    BY DEF CInv, CTypeOK
  <2>1. ASSUME boot.name = "touch"
        PROVE  state = "HALTED" <=> Fits(Wide(boot.args[1]), boot.args[2])
    <3>1. PICK a \in Accesses, d \in ds : boot.args = <<a, d>> /\ TouchFacts(a, d)
      BY <2>1 DEF EndInv
    <3> QED BY <2>0, <3>1 DEF TouchFacts
  <2>2. ASSUME boot.name = "last"
        PROVE  state = "HALTED" <=> boot.args[2] >= boot.args[1] /\ boot.args[2] % 2 = 0
    <3>1. PICK n \in {2, 4}, d \in ds : boot.args = <<n, d>> /\ LastFacts(n, d)
      BY <2>2 DEF EndInv
    <3> QED BY <2>0, <3>1 DEF LastFacts
  <2> QED BY <2>1, <2>2 DEF EndOfMemory, Fits, Wide
<1> QED BY <1>1, <1>2, <1>3, <1>4, <1>5, PTL DEF Spec
-----------------------------------------------------------------------------
\* The program on control and status registers.

\* Its words.
CsrsText(c, v, u) ==
    /\ Holds(c, TEXT, Lui(T0, v))
    /\ Holds(c, TEXT + 4, Addi(T0, v))
    /\ Holds(c, TEXT + 8, Lui(T1, u))
    /\ Holds(c, TEXT + 12, Addi(T1, u))
    /\ Holds(c, TEXT + 16, CsrWord(1, 0, CSR_FCSR, T0))
    /\ Holds(c, TEXT + 20, CsrWord(2, S0, CSR_FFLAGS, 0))
    /\ Holds(c, TEXT + 24, CsrWord(2, S1, CSR_FRM, 0))
    /\ Holds(c, TEXT + 28, CsrWord(2, S2, CSR_FCSR, 0))
    /\ Holds(c, TEXT + 32, CsrWord(1, S3, CSR_FRM, T1))
    /\ Holds(c, TEXT + 36, CsrWord(2, A0, CSR_FCSR, 0))
    /\ Holds(c, TEXT + 40, CsrWord(3, 0, CSR_FFLAGS, T1))
    /\ Holds(c, TEXT + 44, CsrWord(2, A1, CSR_FCSR, 0))
    /\ Holds(c, TEXT + 48, CsrWord(1, 0, CSR_MCAUSE, T0))
    /\ Holds(c, TEXT + 52, CsrWord(1, T2, CSR_MCAUSE, T1))
    /\ Holds(c, TEXT + 56, CsrWord(2, T3, CSR_MCAUSE, T0))
    /\ Holds(c, TEXT + 60, CsrWord(1, 0, CSR_MEPC, T0))
    /\ Holds(c, TEXT + 64, CsrWord(2, T4, CSR_MEPC, 0))
    /\ Holds(c, TEXT + 68, CsrWord(5, A2, CSR_FFLAGS, 31))
    /\ Holds(c, TEXT + 72, CsrWord(2, T5, CSR_FCSR, 0))
    /\ Holds(c, TEXT + 76, EBREAK)

\* The assembler puts them there.
LEMMA CsrsAssembled ==
  ASSUME TEXT \in Nat, NEW v, NEW u
  PROVE  CsrsText(assemble(csrs(v, u), TEXT), v, u)
<1> DEFINE items == csrs(v, u)
           c == assemble(items, TEXT)
<1>1. /\ Len(items) = 18
      /\ items[1] = li32(T0, v)
      /\ items[2] = li32(T1, u)
      /\ items[3] = Word(CsrWord(1, 0, CSR_FCSR, T0))
      /\ items[4] = Word(CsrWord(2, S0, CSR_FFLAGS, 0))
      /\ items[5] = Word(CsrWord(2, S1, CSR_FRM, 0))
      /\ items[6] = Word(CsrWord(2, S2, CSR_FCSR, 0))
      /\ items[7] = Word(CsrWord(1, S3, CSR_FRM, T1))
      /\ items[8] = Word(CsrWord(2, A0, CSR_FCSR, 0))
      /\ items[9] = Word(CsrWord(3, 0, CSR_FFLAGS, T1))
      /\ items[10] = Word(CsrWord(2, A1, CSR_FCSR, 0))
      /\ items[11] = Word(CsrWord(1, 0, CSR_MCAUSE, T0))
      /\ items[12] = Word(CsrWord(1, T2, CSR_MCAUSE, T1))
      /\ items[13] = Word(CsrWord(2, T3, CSR_MCAUSE, T0))
      /\ items[14] = Word(CsrWord(1, 0, CSR_MEPC, T0))
      /\ items[15] = Word(CsrWord(2, T4, CSR_MEPC, 0))
      /\ items[16] = Word(CsrWord(5, A2, CSR_FFLAGS, 31))
      /\ items[17] = Word(CsrWord(2, T5, CSR_FCSR, 0))
      /\ items[18] = Word(EBREAK)
  BY DEF csrs, csrw, csrr, csrrw, csrrs, csrrc, csrrwi, system, CsrWord, ebreak, EBREAK, Special, CSR_MCAUSE
<1> HIDE DEF items
<1>3. /\ Holds(c, TEXT, Lui(T0, v)) /\ Holds(c, TEXT + 4, Addi(T0, v))
      /\ ItemAt(items, TEXT, 2, 8)
  <2>1. items[1] = li32(T0, v) /\ Len(items) \in Nat /\ Len(items) >= 1 /\ TEXT \in Int
    BY <1>1
  <2> QED BY ONLY <2>1, FirstConstant
<1>4. /\ Holds(c, TEXT + 8, Lui(T1, u)) /\ Holds(c, TEXT + 12, Addi(T1, u))
      /\ ItemAt(items, TEXT, 3, 16)
  <2>1. items[2] = li32(T1, u) /\ 2 <= Len(items) /\ TEXT \in Int
    BY <1>1
  <2> QED BY ONLY <1>3, <2>1, NextConstant
<1>5. Holds(c, TEXT + 16, CsrWord(1, 0, CSR_FCSR, T0)) /\ ItemAt(items, TEXT, 4, 20)
  <2>1. items[3] = Word(CsrWord(1, 0, CSR_FCSR, T0)) /\ 3 <= Len(items) /\ TEXT \in Int
    BY <1>1
  <2> QED BY ONLY <1>4, <2>1, NextWord
<1>6. Holds(c, TEXT + 20, CsrWord(2, S0, CSR_FFLAGS, 0)) /\ ItemAt(items, TEXT, 5, 24)
  <2>1. items[4] = Word(CsrWord(2, S0, CSR_FFLAGS, 0)) /\ 4 <= Len(items) /\ TEXT \in Int
    BY <1>1
  <2> QED BY ONLY <1>5, <2>1, NextWord
<1>7. Holds(c, TEXT + 24, CsrWord(2, S1, CSR_FRM, 0)) /\ ItemAt(items, TEXT, 6, 28)
  <2>1. items[5] = Word(CsrWord(2, S1, CSR_FRM, 0)) /\ 5 <= Len(items) /\ TEXT \in Int
    BY <1>1
  <2> QED BY ONLY <1>6, <2>1, NextWord
<1>8. Holds(c, TEXT + 28, CsrWord(2, S2, CSR_FCSR, 0)) /\ ItemAt(items, TEXT, 7, 32)
  <2>1. items[6] = Word(CsrWord(2, S2, CSR_FCSR, 0)) /\ 6 <= Len(items) /\ TEXT \in Int
    BY <1>1
  <2> QED BY ONLY <1>7, <2>1, NextWord
<1>9. Holds(c, TEXT + 32, CsrWord(1, S3, CSR_FRM, T1)) /\ ItemAt(items, TEXT, 8, 36)
  <2>1. items[7] = Word(CsrWord(1, S3, CSR_FRM, T1)) /\ 7 <= Len(items) /\ TEXT \in Int
    BY <1>1
  <2> QED BY ONLY <1>8, <2>1, NextWord
<1>10. Holds(c, TEXT + 36, CsrWord(2, A0, CSR_FCSR, 0)) /\ ItemAt(items, TEXT, 9, 40)
  <2>1. items[8] = Word(CsrWord(2, A0, CSR_FCSR, 0)) /\ 8 <= Len(items) /\ TEXT \in Int
    BY <1>1
  <2> QED BY ONLY <1>9, <2>1, NextWord
<1>11. Holds(c, TEXT + 40, CsrWord(3, 0, CSR_FFLAGS, T1)) /\ ItemAt(items, TEXT, 10, 44)
  <2>1. items[9] = Word(CsrWord(3, 0, CSR_FFLAGS, T1)) /\ 9 <= Len(items) /\ TEXT \in Int
    BY <1>1
  <2> QED BY ONLY <1>10, <2>1, NextWord
<1>12. Holds(c, TEXT + 44, CsrWord(2, A1, CSR_FCSR, 0)) /\ ItemAt(items, TEXT, 11, 48)
  <2>1. items[10] = Word(CsrWord(2, A1, CSR_FCSR, 0)) /\ 10 <= Len(items) /\ TEXT \in Int
    BY <1>1
  <2> QED BY ONLY <1>11, <2>1, NextWord
<1>13. Holds(c, TEXT + 48, CsrWord(1, 0, CSR_MCAUSE, T0)) /\ ItemAt(items, TEXT, 12, 52)
  <2>1. items[11] = Word(CsrWord(1, 0, CSR_MCAUSE, T0)) /\ 11 <= Len(items) /\ TEXT \in Int
    BY <1>1
  <2> QED BY ONLY <1>12, <2>1, NextWord
<1>14. Holds(c, TEXT + 52, CsrWord(1, T2, CSR_MCAUSE, T1)) /\ ItemAt(items, TEXT, 13, 56)
  <2>1. items[12] = Word(CsrWord(1, T2, CSR_MCAUSE, T1)) /\ 12 <= Len(items) /\ TEXT \in Int
    BY <1>1
  <2> QED BY ONLY <1>13, <2>1, NextWord
<1>15. Holds(c, TEXT + 56, CsrWord(2, T3, CSR_MCAUSE, T0)) /\ ItemAt(items, TEXT, 14, 60)
  <2>1. items[13] = Word(CsrWord(2, T3, CSR_MCAUSE, T0)) /\ 13 <= Len(items) /\ TEXT \in Int
    BY <1>1
  <2> QED BY ONLY <1>14, <2>1, NextWord
<1>16. Holds(c, TEXT + 60, CsrWord(1, 0, CSR_MEPC, T0)) /\ ItemAt(items, TEXT, 15, 64)
  <2>1. items[14] = Word(CsrWord(1, 0, CSR_MEPC, T0)) /\ 14 <= Len(items) /\ TEXT \in Int
    BY <1>1
  <2> QED BY ONLY <1>15, <2>1, NextWord
<1>17. Holds(c, TEXT + 64, CsrWord(2, T4, CSR_MEPC, 0)) /\ ItemAt(items, TEXT, 16, 68)
  <2>1. items[15] = Word(CsrWord(2, T4, CSR_MEPC, 0)) /\ 15 <= Len(items) /\ TEXT \in Int
    BY <1>1
  <2> QED BY ONLY <1>16, <2>1, NextWord
<1>18. Holds(c, TEXT + 68, CsrWord(5, A2, CSR_FFLAGS, 31)) /\ ItemAt(items, TEXT, 17, 72)
  <2>1. items[16] = Word(CsrWord(5, A2, CSR_FFLAGS, 31)) /\ 16 <= Len(items) /\ TEXT \in Int
    BY <1>1
  <2> QED BY ONLY <1>17, <2>1, NextWord
<1>19. Holds(c, TEXT + 72, CsrWord(2, T5, CSR_FCSR, 0)) /\ ItemAt(items, TEXT, 18, 76)
  <2>1. items[17] = Word(CsrWord(2, T5, CSR_FCSR, 0)) /\ 17 <= Len(items) /\ TEXT \in Int
    BY <1>1
  <2> QED BY ONLY <1>18, <2>1, NextWord
<1>20. Holds(c, TEXT + 76, EBREAK) /\ ItemAt(items, TEXT, 19, 80)
  <2>1. items[18] = Word(EBREAK) /\ 18 <= Len(items) /\ TEXT \in Int
    BY <1>1
  <2> QED BY ONLY <1>19, <2>1, NextWord
<1> QED BY <1>3, <1>4, <1>5, <1>6, <1>7, <1>8, <1>9, <1>10, <1>11, <1>12, <1>13, <1>14, <1>15,
  <1>16, <1>17, <1>18, <1>19, <1>20
  DEF CsrsText, items

\* What the registers hold, step by step.
CsrsFacts(v, u) ==
    /\ OnLine(20)
    /\ mtime = 1 => regs[T0] = Wrap(Immediate(Lui(T0, v)))
    /\ mtime >= 2 => regs[T0] = v
    /\ mtime = 3 => regs[T1] = Wrap(Immediate(Lui(T1, u)))
    /\ mtime >= 4 => regs[T1] = u
    /\ mtime \in 5 .. 8 => csr[CSR_FRM] = (v \div 32) % 8
    /\ mtime \in 5 .. 10 => Number(fflags) = v % 32
    /\ mtime >= 6 => regs[S0] = v % 32
    /\ mtime >= 7 => regs[S1] = (v \div 32) % 8
    /\ mtime >= 8 => regs[S2] = 32 * ((v \div 32) % 8) + (v % 32)
    /\ mtime >= 9 => csr[CSR_FRM] = u % 8
    /\ mtime >= 9 => regs[S3] = (v \div 32) % 8
    /\ mtime >= 10 => regs[A0] = 32 * (u % 8) + (v % 32)
    /\ mtime \in 11 .. 17 => Number(fflags) = BitAnd(v % 32, Inverted(u))
    /\ mtime >= 12 => regs[A1] = 32 * (u % 8) + BitAnd(v % 32, Inverted(u))
    /\ mtime = 13 => csr[CSR_MCAUSE] = v
    /\ mtime = 14 => csr[CSR_MCAUSE] = u
    /\ mtime >= 14 => regs[T2] = v
    /\ mtime >= 15 => csr[CSR_MCAUSE] = BitOr(u, v)
    /\ mtime >= 15 => regs[T3] = u
    /\ mtime = 16 => csr[CSR_MEPC] = v - (v % 4)
    /\ mtime >= 17 => regs[T4] = v - (v % 4)
    /\ mtime >= 18 => Number(fflags) = 31
    /\ mtime >= 18 => regs[A2] = BitAnd(v % 32, Inverted(u))
    /\ mtime >= 19 => regs[T5] = 32 * (u % 8) + 31

\* What C's | and & are that the program needs.
BitLaws == \A a, b \in Words : BitOr(a, 0) = a /\ BitAnd(a, b) <= a

\* Every step of the program leaves them so.
LEMMA CsrsStep ==
  ASSUME CInv, Step, HostTyped, BitLaws, XLEN <= 32, TextFits(20), NEW v \in Words, NEW u \in Words,
         CsrsText(boot.code, v, u), CsrsFacts(v, u)
  PROVE  CsrsFacts(v, u)'
<1>1. /\ state = "RUNNING" /\ mtime \in 0 .. 19 /\ pc = TEXT + 4 * mtime
      /\ TEXT \in Nat /\ TEXT % 2 = 0 /\ MemSize \in Nat /\ TEXT + 80 <= MemSize
      /\ regs \in [Registers -> Words] /\ regs[0] = 0
  BY MemoryAssumption, WordSizes DEF Step, Going, CsrsFacts, OnLine, CInv, CTypeOK, TextFits
<1>2. ASSUME Advances, mtime < 19 PROVE mtime' = mtime + 1 /\ OnLine(20)'
  BY <1>1, <1>2 DEF Advances, OnLine
<1>3. /\ v \in Nat /\ u \in Nat /\ BitAnd(v % 32, Inverted(u)) \in Words /\ BitAnd(v % 32, Inverted(u)) \in 0 .. 31
      /\ \A x \in Words : BitOr(x, 0) = x
  <2>1. v \in Nat /\ u \in Nat /\ v % 32 \in 0 .. 31
    BY WordSizes
  <2>2. v % 32 \in Words /\ Inverted(u) \in Words
    BY <2>1, WordSizes DEF Inverted
  <2>3. BitAnd(v % 32, Inverted(u)) \in Words /\ BitAnd(v % 32, Inverted(u)) <= v % 32
    BY <2>2 DEF HostTyped, BitLaws
  <2>4. BitAnd(v % 32, Inverted(u)) \in Nat
    BY <2>3, WordSizes
  <2> QED BY <2>1, <2>3, <2>4 DEF BitLaws
<1>4. CASE mtime = 0
  <2>1. AtWord(Lui(T0, v))
    BY <1>1, <1>4 DEF CsrsText, AtWord
  <2>2. Writes(T0, Wrap(Immediate(Lui(T0, v))))
    BY <1>4, <2>1, LuiRuns, Named
  <2>3. mtime' = 1 /\ OnLine(20)' /\ regs' = [regs EXCEPT ![T0] = Wrap(Immediate(Lui(T0, v)))]
    BY <1>2, <1>4, <2>2 DEF Writes
  <2> QED BY <1>1, <1>4, <2>3, Named DEF CsrsFacts, Registers
<1>5. CASE mtime = 1
  <2>1. AtWord(Addi(T0, v))
    BY <1>1, <1>5 DEF CsrsText, AtWord
  <2>2. Writes(T0, v)
    BY <1>5, <2>1, AddiRuns, Named DEF CsrsFacts
  <2>3. mtime' = 2 /\ OnLine(20)' /\ regs' = [regs EXCEPT ![T0] = v]
    BY <1>2, <1>5, <2>2 DEF Writes
  <2> QED BY <1>1, <1>5, <2>3, Named DEF CsrsFacts, Registers
<1>6. CASE mtime = 2
  <2>1. AtWord(Lui(T1, u))
    BY <1>1, <1>6 DEF CsrsText, AtWord
  <2>2. Writes(T1, Wrap(Immediate(Lui(T1, u))))
    BY <1>6, <2>1, LuiRuns, Named
  <2>3. mtime' = 3 /\ OnLine(20)' /\ regs' = [regs EXCEPT ![T1] = Wrap(Immediate(Lui(T1, u)))]
    BY <1>2, <1>6, <2>2 DEF Writes
  <2> QED BY <1>1, <1>6, <2>3, Named DEF CsrsFacts, Registers
<1>7. CASE mtime = 3
  <2>1. AtWord(Addi(T1, u))
    BY <1>1, <1>7 DEF CsrsText, AtWord
  <2>2. Writes(T1, u)
    BY <1>7, <2>1, AddiRuns, Named DEF CsrsFacts
  <2>3. mtime' = 4 /\ OnLine(20)' /\ regs' = [regs EXCEPT ![T1] = u]
    BY <1>2, <1>7, <2>2 DEF Writes
  <2> QED BY <1>1, <1>7, <2>3, Named DEF CsrsFacts, Registers
<1>8. CASE mtime = 4
  <2>1. AtWord(CsrWord(1, 0, CSR_FCSR, T0))
    BY <1>1, <1>8 DEF CsrsText, AtWord
  <2>2. WrittenTo(1, CSR_FCSR, T0) = v
    BY <1>1, <1>8, CsrNumbers DEF CsrsFacts, WrittenTo
  <2>a. /\ Advances /\ regs' = regs
        /\ csr'[CSR_FRM] = (v \div 32) % 8 /\ Number(fflags') = (v) % 32
        /\ csr'[CSR_MCAUSE] = csr[CSR_MCAUSE] /\ csr'[CSR_MEPC] = csr[CSR_MEPC]
    <3>1. 0 \in Registers /\ T0 \in Registers /\ CSR_FCSR \in UsedCsrs /\ 1 \in {1, 2, 3, 5}
      BY InRange DEF Registers, UsedCsrs
    <3>2. PICK x : x = WrittenTo(1, CSR_FCSR, T0)
      OBVIOUS
    <3>3. /\ Advances
          /\ regs' = IF 0 = 0 THEN regs ELSE [regs EXCEPT ![0] = Shown(CSR_FCSR)]
          /\ csr'[CSR_FRM] = IF CSR_FCSR = CSR_FRM THEN x % 8
                            ELSE IF CSR_FCSR = CSR_FCSR THEN (x \div 32) % 8 ELSE csr[CSR_FRM]
          /\ Number(fflags') = IF CSR_FCSR \in {CSR_FFLAGS, CSR_FCSR} THEN x % 32 ELSE Number(fflags)
          /\ csr'[CSR_MCAUSE] = IF CSR_FCSR = CSR_MCAUSE THEN x ELSE csr[CSR_MCAUSE]
          /\ csr'[CSR_MEPC] = IF CSR_FCSR = CSR_MEPC THEN x - (x % 4) ELSE csr[CSR_MEPC]
      BY <2>1, <3>1, <3>2, CsrEffect
    <3> QED BY SMT, <2>2, <3>2, <3>3, CsrNumbers
  <2>3. mtime' = 5 /\ OnLine(20)'
    BY <1>2, <1>8, <2>a
  <2>4. /\ csr'[CSR_FRM] = (v \div 32) % 8 /\ Number(fflags') = v % 32
    BY <1>3, <1>8, <2>a, CsrNumbers DEF CsrsFacts
  <2> QED BY <1>1, <1>8, <2>a, <2>3, <2>4, Named DEF CsrsFacts, Registers
<1>9. CASE mtime = 5
  <2>1. AtWord(CsrWord(2, S0, CSR_FFLAGS, 0))
    BY <1>1, <1>9 DEF CsrsText, AtWord
  <2>a. /\ Advances /\ regs' = [regs EXCEPT ![S0] = Shown(CSR_FFLAGS)]
        /\ csr'[CSR_FRM] = csr[CSR_FRM] /\ csr'[CSR_MCAUSE] = csr[CSR_MCAUSE]
        /\ Number(fflags') = Number(fflags)
    BY <1>3, <2>1, CsrReadRuns, InRange
  <2>b. Shown(CSR_FFLAGS) = v % 32
    BY <1>9, CsrNumbers DEF CsrsFacts, Shown
  <2>3. mtime' = 6 /\ OnLine(20)'
    BY <1>2, <1>9, <2>a
  <2> QED BY <1>1, <1>9, <2>a, <2>b, <2>3, Named DEF CsrsFacts, Registers
<1>10. CASE mtime = 6
  <2>1. AtWord(CsrWord(2, S1, CSR_FRM, 0))
    BY <1>1, <1>10 DEF CsrsText, AtWord
  <2>a. /\ Advances /\ regs' = [regs EXCEPT ![S1] = Shown(CSR_FRM)]
        /\ csr'[CSR_FRM] = csr[CSR_FRM] /\ csr'[CSR_MCAUSE] = csr[CSR_MCAUSE]
        /\ Number(fflags') = Number(fflags)
    BY <1>3, <2>1, CsrReadRuns, InRange
  <2>b. Shown(CSR_FRM) = (v \div 32) % 8
    BY <1>10, CsrNumbers DEF CsrsFacts, Shown
  <2>3. mtime' = 7 /\ OnLine(20)'
    BY <1>2, <1>10, <2>a
  <2> QED BY <1>1, <1>10, <2>a, <2>b, <2>3, Named DEF CsrsFacts, Registers
<1>11. CASE mtime = 7
  <2>1. AtWord(CsrWord(2, S2, CSR_FCSR, 0))
    BY <1>1, <1>11 DEF CsrsText, AtWord
  <2>a. /\ Advances /\ regs' = [regs EXCEPT ![S2] = Shown(CSR_FCSR)]
        /\ csr'[CSR_FRM] = csr[CSR_FRM] /\ csr'[CSR_MCAUSE] = csr[CSR_MCAUSE]
        /\ Number(fflags') = Number(fflags)
    BY <1>3, <2>1, CsrReadRuns, InRange
  <2>b. Shown(CSR_FCSR) = 32 * ((v \div 32) % 8) + (v % 32)
    BY <1>11, CsrNumbers DEF CsrsFacts, Shown
  <2>3. mtime' = 8 /\ OnLine(20)'
    BY <1>2, <1>11, <2>a
  <2> QED BY <1>1, <1>11, <2>a, <2>b, <2>3, Named DEF CsrsFacts, Registers
<1>12. CASE mtime = 8
  <2>1. AtWord(CsrWord(1, S3, CSR_FRM, T1))
    BY <1>1, <1>12 DEF CsrsText, AtWord
  <2>2. WrittenTo(1, CSR_FRM, T1) = u
    BY <1>1, <1>12, CsrNumbers DEF CsrsFacts, WrittenTo
  <2>a. /\ Advances /\ regs' = [regs EXCEPT ![S3] = Shown(CSR_FRM)]
        /\ csr'[CSR_FRM] = u % 8 /\ Number(fflags') = Number(fflags)
        /\ csr'[CSR_MCAUSE] = csr[CSR_MCAUSE] /\ csr'[CSR_MEPC] = csr[CSR_MEPC]
    <3>1. S3 \in Registers /\ T1 \in Registers /\ CSR_FRM \in UsedCsrs /\ 1 \in {1, 2, 3, 5}
      BY InRange DEF Registers, UsedCsrs
    <3>2. PICK x : x = WrittenTo(1, CSR_FRM, T1)
      OBVIOUS
    <3>3. /\ Advances
          /\ regs' = IF S3 = 0 THEN regs ELSE [regs EXCEPT ![S3] = Shown(CSR_FRM)]
          /\ csr'[CSR_FRM] = IF CSR_FRM = CSR_FRM THEN x % 8
                            ELSE IF CSR_FRM = CSR_FCSR THEN (x \div 32) % 8 ELSE csr[CSR_FRM]
          /\ Number(fflags') = IF CSR_FRM \in {CSR_FFLAGS, CSR_FCSR} THEN x % 32 ELSE Number(fflags)
          /\ csr'[CSR_MCAUSE] = IF CSR_FRM = CSR_MCAUSE THEN x ELSE csr[CSR_MCAUSE]
          /\ csr'[CSR_MEPC] = IF CSR_FRM = CSR_MEPC THEN x - (x % 4) ELSE csr[CSR_MEPC]
      BY <2>1, <3>1, <3>2, CsrEffect
    <3> QED BY SMT, <2>2, <3>2, <3>3, CsrNumbers, Named
  <2>3. mtime' = 9 /\ OnLine(20)'
    BY <1>2, <1>12, <2>a
  <2>b. Shown(CSR_FRM) = (v \div 32) % 8
    BY <1>12, CsrNumbers DEF CsrsFacts, Shown
  <2>4. /\ csr'[CSR_FRM] = u % 8 /\ Number(fflags') = v % 32
    BY <1>3, <1>12, <2>a, CsrNumbers DEF CsrsFacts
  <2> QED BY <1>1, <1>12, <2>a, <2>b, <2>3, <2>4, Named DEF CsrsFacts, Registers
<1>13. CASE mtime = 9
  <2>1. AtWord(CsrWord(2, A0, CSR_FCSR, 0))
    BY <1>1, <1>13 DEF CsrsText, AtWord
  <2>a. /\ Advances /\ regs' = [regs EXCEPT ![A0] = Shown(CSR_FCSR)]
        /\ csr'[CSR_FRM] = csr[CSR_FRM] /\ csr'[CSR_MCAUSE] = csr[CSR_MCAUSE]
        /\ Number(fflags') = Number(fflags)
    BY <1>3, <2>1, CsrReadRuns, InRange
  <2>b. Shown(CSR_FCSR) = 32 * (u % 8) + (v % 32)
    BY <1>13, CsrNumbers DEF CsrsFacts, Shown
  <2>3. mtime' = 10 /\ OnLine(20)'
    BY <1>2, <1>13, <2>a
  <2> QED BY <1>1, <1>13, <2>a, <2>b, <2>3, Named DEF CsrsFacts, Registers
<1>14. CASE mtime = 10
  <2>1. AtWord(CsrWord(3, 0, CSR_FFLAGS, T1))
    BY <1>1, <1>14 DEF CsrsText, AtWord
  <2>0. csr_read(CSR_FFLAGS) = Shown(CSR_FFLAGS)
    BY <2>1, CsrEffect, InRange, NamedCodes DEF UsedCsrs
  <2>2. WrittenTo(3, CSR_FFLAGS, T1) = BitAnd(v % 32, Inverted(u))
    BY <1>1, <1>14, <2>0, CsrNumbers DEF CsrsFacts, WrittenTo, Shown
  <2>a. /\ Advances /\ regs' = regs
        /\ csr'[CSR_FRM] = csr[CSR_FRM] /\ Number(fflags') = (BitAnd(v % 32, Inverted(u))) % 32
        /\ csr'[CSR_MCAUSE] = csr[CSR_MCAUSE] /\ csr'[CSR_MEPC] = csr[CSR_MEPC]
    <3>1. 0 \in Registers /\ T1 \in Registers /\ CSR_FFLAGS \in UsedCsrs /\ 3 \in {1, 2, 3, 5}
      BY InRange DEF Registers, UsedCsrs
    <3>2. PICK x : x = WrittenTo(3, CSR_FFLAGS, T1)
      OBVIOUS
    <3>3. /\ Advances
          /\ regs' = IF 0 = 0 THEN regs ELSE [regs EXCEPT ![0] = Shown(CSR_FFLAGS)]
          /\ csr'[CSR_FRM] = IF CSR_FFLAGS = CSR_FRM THEN x % 8
                            ELSE IF CSR_FFLAGS = CSR_FCSR THEN (x \div 32) % 8 ELSE csr[CSR_FRM]
          /\ Number(fflags') = IF CSR_FFLAGS \in {CSR_FFLAGS, CSR_FCSR} THEN x % 32 ELSE Number(fflags)
          /\ csr'[CSR_MCAUSE] = IF CSR_FFLAGS = CSR_MCAUSE THEN x ELSE csr[CSR_MCAUSE]
          /\ csr'[CSR_MEPC] = IF CSR_FFLAGS = CSR_MEPC THEN x - (x % 4) ELSE csr[CSR_MEPC]
      BY <2>1, <3>1, <3>2, CsrEffect
    <3> QED BY SMT, <2>2, <3>2, <3>3, CsrNumbers
  <2>3. mtime' = 11 /\ OnLine(20)'
    BY <1>2, <1>14, <2>a
  <2>4. /\ csr'[CSR_FRM] = u % 8 /\ Number(fflags') = BitAnd(v % 32, Inverted(u))
    BY <1>3, <1>14, <2>a, CsrNumbers DEF CsrsFacts
  <2> QED BY <1>1, <1>14, <2>a, <2>3, <2>4, Named DEF CsrsFacts, Registers
<1>15. CASE mtime = 11
  <2>1. AtWord(CsrWord(2, A1, CSR_FCSR, 0))
    BY <1>1, <1>15 DEF CsrsText, AtWord
  <2>a. /\ Advances /\ regs' = [regs EXCEPT ![A1] = Shown(CSR_FCSR)]
        /\ csr'[CSR_FRM] = csr[CSR_FRM] /\ csr'[CSR_MCAUSE] = csr[CSR_MCAUSE]
        /\ Number(fflags') = Number(fflags)
    BY <1>3, <2>1, CsrReadRuns, InRange
  <2>b. Shown(CSR_FCSR) = 32 * (u % 8) + BitAnd(v % 32, Inverted(u))
    BY <1>15, CsrNumbers DEF CsrsFacts, Shown
  <2>3. mtime' = 12 /\ OnLine(20)'
    BY <1>2, <1>15, <2>a
  <2> QED BY <1>1, <1>15, <2>a, <2>b, <2>3, Named DEF CsrsFacts, Registers
<1>16. CASE mtime = 12
  <2>1. AtWord(CsrWord(1, 0, CSR_MCAUSE, T0))
    BY <1>1, <1>16 DEF CsrsText, AtWord
  <2>2. WrittenTo(1, CSR_MCAUSE, T0) = v
    BY <1>1, <1>16, CsrNumbers DEF CsrsFacts, WrittenTo
  <2>a. /\ Advances /\ regs' = regs
        /\ csr'[CSR_FRM] = csr[CSR_FRM] /\ Number(fflags') = Number(fflags)
        /\ csr'[CSR_MCAUSE] = v /\ csr'[CSR_MEPC] = csr[CSR_MEPC]
    <3>1. 0 \in Registers /\ T0 \in Registers /\ CSR_MCAUSE \in UsedCsrs /\ 1 \in {1, 2, 3, 5}
      BY InRange DEF Registers, UsedCsrs
    <3>2. PICK x : x = WrittenTo(1, CSR_MCAUSE, T0)
      OBVIOUS
    <3>3. /\ Advances
          /\ regs' = IF 0 = 0 THEN regs ELSE [regs EXCEPT ![0] = Shown(CSR_MCAUSE)]
          /\ csr'[CSR_FRM] = IF CSR_MCAUSE = CSR_FRM THEN x % 8
                            ELSE IF CSR_MCAUSE = CSR_FCSR THEN (x \div 32) % 8 ELSE csr[CSR_FRM]
          /\ Number(fflags') = IF CSR_MCAUSE \in {CSR_FFLAGS, CSR_FCSR} THEN x % 32 ELSE Number(fflags)
          /\ csr'[CSR_MCAUSE] = IF CSR_MCAUSE = CSR_MCAUSE THEN x ELSE csr[CSR_MCAUSE]
          /\ csr'[CSR_MEPC] = IF CSR_MCAUSE = CSR_MEPC THEN x - (x % 4) ELSE csr[CSR_MEPC]
      BY <2>1, <3>1, <3>2, CsrEffect
    <3> QED BY SMT, <2>2, <3>2, <3>3, CsrNumbers
  <2>3. mtime' = 13 /\ OnLine(20)'
    BY <1>2, <1>16, <2>a
  <2>4. /\ csr'[CSR_FRM] = u % 8 /\ Number(fflags') = BitAnd(v % 32, Inverted(u)) /\ csr'[CSR_MCAUSE] = v
    BY <1>3, <1>16, <2>a, CsrNumbers DEF CsrsFacts
  <2> QED BY <1>1, <1>16, <2>a, <2>3, <2>4, Named DEF CsrsFacts, Registers
<1>17. CASE mtime = 13
  <2>1. AtWord(CsrWord(1, T2, CSR_MCAUSE, T1))
    BY <1>1, <1>17 DEF CsrsText, AtWord
  <2>2. WrittenTo(1, CSR_MCAUSE, T1) = u
    BY <1>1, <1>17, CsrNumbers DEF CsrsFacts, WrittenTo
  <2>a. /\ Advances /\ regs' = [regs EXCEPT ![T2] = Shown(CSR_MCAUSE)]
        /\ csr'[CSR_FRM] = csr[CSR_FRM] /\ Number(fflags') = Number(fflags)
        /\ csr'[CSR_MCAUSE] = u /\ csr'[CSR_MEPC] = csr[CSR_MEPC]
    <3>1. T2 \in Registers /\ T1 \in Registers /\ CSR_MCAUSE \in UsedCsrs /\ 1 \in {1, 2, 3, 5}
      BY InRange DEF Registers, UsedCsrs
    <3>2. PICK x : x = WrittenTo(1, CSR_MCAUSE, T1)
      OBVIOUS
    <3>3. /\ Advances
          /\ regs' = IF T2 = 0 THEN regs ELSE [regs EXCEPT ![T2] = Shown(CSR_MCAUSE)]
          /\ csr'[CSR_FRM] = IF CSR_MCAUSE = CSR_FRM THEN x % 8
                            ELSE IF CSR_MCAUSE = CSR_FCSR THEN (x \div 32) % 8 ELSE csr[CSR_FRM]
          /\ Number(fflags') = IF CSR_MCAUSE \in {CSR_FFLAGS, CSR_FCSR} THEN x % 32 ELSE Number(fflags)
          /\ csr'[CSR_MCAUSE] = IF CSR_MCAUSE = CSR_MCAUSE THEN x ELSE csr[CSR_MCAUSE]
          /\ csr'[CSR_MEPC] = IF CSR_MCAUSE = CSR_MEPC THEN x - (x % 4) ELSE csr[CSR_MEPC]
      BY <2>1, <3>1, <3>2, CsrEffect
    <3> QED BY SMT, <2>2, <3>2, <3>3, CsrNumbers, Named
  <2>3. mtime' = 14 /\ OnLine(20)'
    BY <1>2, <1>17, <2>a
  <2>b. Shown(CSR_MCAUSE) = v
    BY <1>17, CsrNumbers DEF CsrsFacts, Shown
  <2>4. /\ csr'[CSR_FRM] = u % 8 /\ Number(fflags') = BitAnd(v % 32, Inverted(u)) /\ csr'[CSR_MCAUSE] = u
    BY <1>3, <1>17, <2>a, CsrNumbers DEF CsrsFacts
  <2> QED BY <1>1, <1>17, <2>a, <2>b, <2>3, <2>4, Named DEF CsrsFacts, Registers
<1>18. CASE mtime = 14
  <2>1. AtWord(CsrWord(2, T3, CSR_MCAUSE, T0))
    BY <1>1, <1>18 DEF CsrsText, AtWord
  <2>0. csr_read(CSR_MCAUSE) = Shown(CSR_MCAUSE)
    BY <2>1, CsrEffect, InRange, NamedCodes DEF UsedCsrs
  <2>2. WrittenTo(2, CSR_MCAUSE, T0) = BitOr(u, v)
    BY <1>1, <1>18, <2>0, CsrNumbers DEF CsrsFacts, WrittenTo, Shown
  <2>a. /\ Advances /\ regs' = [regs EXCEPT ![T3] = Shown(CSR_MCAUSE)]
        /\ csr'[CSR_FRM] = csr[CSR_FRM] /\ Number(fflags') = Number(fflags)
        /\ csr'[CSR_MCAUSE] = BitOr(u, v) /\ csr'[CSR_MEPC] = csr[CSR_MEPC]
    <3>1. T3 \in Registers /\ T0 \in Registers /\ CSR_MCAUSE \in UsedCsrs /\ 2 \in {1, 2, 3, 5}
      BY InRange DEF Registers, UsedCsrs
    <3>2. PICK x : x = WrittenTo(2, CSR_MCAUSE, T0)
      OBVIOUS
    <3>3. /\ Advances
          /\ regs' = IF T3 = 0 THEN regs ELSE [regs EXCEPT ![T3] = Shown(CSR_MCAUSE)]
          /\ csr'[CSR_FRM] = IF CSR_MCAUSE = CSR_FRM THEN x % 8
                            ELSE IF CSR_MCAUSE = CSR_FCSR THEN (x \div 32) % 8 ELSE csr[CSR_FRM]
          /\ Number(fflags') = IF CSR_MCAUSE \in {CSR_FFLAGS, CSR_FCSR} THEN x % 32 ELSE Number(fflags)
          /\ csr'[CSR_MCAUSE] = IF CSR_MCAUSE = CSR_MCAUSE THEN x ELSE csr[CSR_MCAUSE]
          /\ csr'[CSR_MEPC] = IF CSR_MCAUSE = CSR_MEPC THEN x - (x % 4) ELSE csr[CSR_MEPC]
      BY <2>1, <3>1, <3>2, CsrEffect
    <3> QED BY SMT, <2>2, <3>2, <3>3, CsrNumbers, Named
  <2>3. mtime' = 15 /\ OnLine(20)'
    BY <1>2, <1>18, <2>a
  <2>b. Shown(CSR_MCAUSE) = u
    BY <1>18, CsrNumbers DEF CsrsFacts, Shown
  <2>4. /\ csr'[CSR_FRM] = u % 8 /\ Number(fflags') = BitAnd(v % 32, Inverted(u)) /\ csr'[CSR_MCAUSE] = BitOr(u, v)
    BY <1>3, <1>18, <2>a, CsrNumbers DEF CsrsFacts
  <2> QED BY <1>1, <1>18, <2>a, <2>b, <2>3, <2>4, Named DEF CsrsFacts, Registers
<1>19. CASE mtime = 15
  <2>1. AtWord(CsrWord(1, 0, CSR_MEPC, T0))
    BY <1>1, <1>19 DEF CsrsText, AtWord
  <2>2. WrittenTo(1, CSR_MEPC, T0) = v
    BY <1>1, <1>19, CsrNumbers DEF CsrsFacts, WrittenTo
  <2>a. /\ Advances /\ regs' = regs
        /\ csr'[CSR_FRM] = csr[CSR_FRM] /\ Number(fflags') = Number(fflags)
        /\ csr'[CSR_MCAUSE] = csr[CSR_MCAUSE] /\ csr'[CSR_MEPC] = v - (v % 4)
    <3>1. 0 \in Registers /\ T0 \in Registers /\ CSR_MEPC \in UsedCsrs /\ 1 \in {1, 2, 3, 5}
      BY InRange DEF Registers, UsedCsrs
    <3>2. PICK x : x = WrittenTo(1, CSR_MEPC, T0)
      OBVIOUS
    <3>3. /\ Advances
          /\ regs' = IF 0 = 0 THEN regs ELSE [regs EXCEPT ![0] = Shown(CSR_MEPC)]
          /\ csr'[CSR_FRM] = IF CSR_MEPC = CSR_FRM THEN x % 8
                            ELSE IF CSR_MEPC = CSR_FCSR THEN (x \div 32) % 8 ELSE csr[CSR_FRM]
          /\ Number(fflags') = IF CSR_MEPC \in {CSR_FFLAGS, CSR_FCSR} THEN x % 32 ELSE Number(fflags)
          /\ csr'[CSR_MCAUSE] = IF CSR_MEPC = CSR_MCAUSE THEN x ELSE csr[CSR_MCAUSE]
          /\ csr'[CSR_MEPC] = IF CSR_MEPC = CSR_MEPC THEN x - (x % 4) ELSE csr[CSR_MEPC]
      BY <2>1, <3>1, <3>2, CsrEffect
    <3> QED BY SMT, <2>2, <3>2, <3>3, CsrNumbers
  <2>3. mtime' = 16 /\ OnLine(20)'
    BY <1>2, <1>19, <2>a
  <2>4. /\ csr'[CSR_FRM] = u % 8 /\ Number(fflags') = BitAnd(v % 32, Inverted(u)) /\ csr'[CSR_MCAUSE] = BitOr(u, v) /\ csr'[CSR_MEPC] = v - (v % 4)
    BY <1>3, <1>19, <2>a, CsrNumbers DEF CsrsFacts
  <2> QED BY <1>1, <1>19, <2>a, <2>3, <2>4, Named DEF CsrsFacts, Registers
<1>20. CASE mtime = 16
  <2>1. AtWord(CsrWord(2, T4, CSR_MEPC, 0))
    BY <1>1, <1>20 DEF CsrsText, AtWord
  <2>a. /\ Advances /\ regs' = [regs EXCEPT ![T4] = Shown(CSR_MEPC)]
        /\ csr'[CSR_FRM] = csr[CSR_FRM] /\ Number(fflags') = Number(fflags)
        /\ csr'[CSR_MCAUSE] = csr[CSR_MCAUSE] /\ csr'[CSR_MEPC] = WrittenTo(2, CSR_MEPC, 0) - (WrittenTo(2, CSR_MEPC, 0) % 4)
    <3>1. T4 \in Registers /\ 0 \in Registers /\ CSR_MEPC \in UsedCsrs /\ 2 \in {1, 2, 3, 5}
      BY InRange DEF Registers, UsedCsrs
    <3>2. PICK x : x = WrittenTo(2, CSR_MEPC, 0)
      OBVIOUS
    <3>3. /\ Advances
          /\ regs' = IF T4 = 0 THEN regs ELSE [regs EXCEPT ![T4] = Shown(CSR_MEPC)]
          /\ csr'[CSR_FRM] = IF CSR_MEPC = CSR_FRM THEN x % 8
                            ELSE IF CSR_MEPC = CSR_FCSR THEN (x \div 32) % 8 ELSE csr[CSR_FRM]
          /\ Number(fflags') = IF CSR_MEPC \in {CSR_FFLAGS, CSR_FCSR} THEN x % 32 ELSE Number(fflags)
          /\ csr'[CSR_MCAUSE] = IF CSR_MEPC = CSR_MCAUSE THEN x ELSE csr[CSR_MCAUSE]
          /\ csr'[CSR_MEPC] = IF CSR_MEPC = CSR_MEPC THEN x - (x % 4) ELSE csr[CSR_MEPC]
      BY <2>1, <3>1, <3>2, CsrEffect
    <3> QED BY SMT, <3>2, <3>3, CsrNumbers, Named
  <2>3. mtime' = 17 /\ OnLine(20)'
    BY <1>2, <1>20, <2>a
  <2>b. Shown(CSR_MEPC) = v - (v % 4)
    BY <1>20, CsrNumbers DEF CsrsFacts, Shown
  <2>4. /\ csr'[CSR_FRM] = u % 8 /\ Number(fflags') = BitAnd(v % 32, Inverted(u)) /\ csr'[CSR_MCAUSE] = BitOr(u, v)
    BY <1>3, <1>20, <2>a, CsrNumbers DEF CsrsFacts
  <2> QED BY <1>1, <1>20, <2>a, <2>b, <2>3, <2>4, Named DEF CsrsFacts, Registers
<1>21. CASE mtime = 17
  <2>1. AtWord(CsrWord(5, A2, CSR_FFLAGS, 31))
    BY <1>1, <1>21 DEF CsrsText, AtWord
  <2>2. WrittenTo(5, CSR_FFLAGS, 31) = 31
    BY <1>1, <1>21, CsrNumbers DEF CsrsFacts, WrittenTo
  <2>a. /\ Advances /\ regs' = [regs EXCEPT ![A2] = Shown(CSR_FFLAGS)]
        /\ csr'[CSR_FRM] = csr[CSR_FRM] /\ Number(fflags') = (31) % 32
        /\ csr'[CSR_MCAUSE] = csr[CSR_MCAUSE] /\ csr'[CSR_MEPC] = csr[CSR_MEPC]
    <3>1. A2 \in Registers /\ 31 \in Registers /\ CSR_FFLAGS \in UsedCsrs /\ 5 \in {1, 2, 3, 5}
      BY InRange DEF Registers, UsedCsrs
    <3>2. PICK x : x = WrittenTo(5, CSR_FFLAGS, 31)
      OBVIOUS
    <3>3. /\ Advances
          /\ regs' = IF A2 = 0 THEN regs ELSE [regs EXCEPT ![A2] = Shown(CSR_FFLAGS)]
          /\ csr'[CSR_FRM] = IF CSR_FFLAGS = CSR_FRM THEN x % 8
                            ELSE IF CSR_FFLAGS = CSR_FCSR THEN (x \div 32) % 8 ELSE csr[CSR_FRM]
          /\ Number(fflags') = IF CSR_FFLAGS \in {CSR_FFLAGS, CSR_FCSR} THEN x % 32 ELSE Number(fflags)
          /\ csr'[CSR_MCAUSE] = IF CSR_FFLAGS = CSR_MCAUSE THEN x ELSE csr[CSR_MCAUSE]
          /\ csr'[CSR_MEPC] = IF CSR_FFLAGS = CSR_MEPC THEN x - (x % 4) ELSE csr[CSR_MEPC]
      BY <2>1, <3>1, <3>2, CsrEffect
    <3> QED BY SMT, <2>2, <3>2, <3>3, CsrNumbers, Named
  <2>3. mtime' = 18 /\ OnLine(20)'
    BY <1>2, <1>21, <2>a
  <2>b. Shown(CSR_FFLAGS) = BitAnd(v % 32, Inverted(u))
    BY <1>21, CsrNumbers DEF CsrsFacts, Shown
  <2>4. /\ csr'[CSR_FRM] = u % 8 /\ Number(fflags') = 31 /\ csr'[CSR_MCAUSE] = BitOr(u, v)
    BY <1>3, <1>21, <2>a, CsrNumbers DEF CsrsFacts
  <2> QED BY <1>1, <1>21, <2>a, <2>b, <2>3, <2>4, Named DEF CsrsFacts, Registers
<1>22. CASE mtime = 18
  <2>1. AtWord(CsrWord(2, T5, CSR_FCSR, 0))
    BY <1>1, <1>22 DEF CsrsText, AtWord
  <2>a. /\ Advances /\ regs' = [regs EXCEPT ![T5] = Shown(CSR_FCSR)]
        /\ csr'[CSR_FRM] = csr[CSR_FRM] /\ csr'[CSR_MCAUSE] = csr[CSR_MCAUSE]
        /\ Number(fflags') = Number(fflags)
    BY <1>3, <2>1, CsrReadRuns, InRange
  <2>b. Shown(CSR_FCSR) = 32 * (u % 8) + 31
    BY <1>22, CsrNumbers DEF CsrsFacts, Shown
  <2>3. mtime' = 19 /\ OnLine(20)'
    BY <1>2, <1>22, <2>a
  <2> QED BY <1>1, <1>22, <2>a, <2>b, <2>3, Named DEF CsrsFacts, Registers
<1>23. CASE mtime = 19
  <2>1. AtWord(EBREAK)
    BY <1>1, <1>23 DEF CsrsText, AtWord
  <2> QED BY <1>1, <1>23, <2>1, EbreakRuns, CsrNumbers, PolledAt DEF CsrsFacts, OnLine
<1> QED BY <1>1, <1>4, <1>5, <1>6, <1>7, <1>8, <1>9, <1>10, <1>11, <1>12, <1>13, <1>14, <1>15,
  <1>16, <1>17, <1>18, <1>19, <1>20, <1>21, <1>22, <1>23
\* The program on control and status registers, and what its registers hold.
CsrsInv ==
    boot.name = "csrs" =>
        \E v, u \in Words :
            /\ boot.args = <<v, u>> /\ CsrsText(boot.code, v, u)
            /\ CsrsFacts(v, u)

\* What the program leaves, for any two words.
LEMMA CsrsEnds ==
  ASSUME CInv, CsrsInv
  PROVE  CsrViewsAgree
<1> SUFFICES ASSUME boot.name = "csrs", state = "HALTED"
             PROVE  LET v == boot.args[1]
                        u == boot.args[2]
                        cleared == BitAnd(v % 32, Inverted(u)) IN
                    /\ regs[S0] = v % 32 /\ regs[S1] = (v \div 32) % 8 /\ regs[S2] = v % 256
                    /\ regs[S3] = regs[S1]
                    /\ regs[A0] = 32 * (u % 8) + (v % 32)
                    /\ regs[A1] = 32 * (u % 8) + cleared
                    /\ regs[T2] = v /\ regs[T3] = u /\ csr[834] = BitOr(u, v)
                    /\ regs[T4] % 4 = 0 /\ v - regs[T4] \in 0 .. 3
                    /\ regs[A2] = cleared /\ regs[T5] = 32 * (u % 8) + 31
  BY DEF CsrViewsAgree, Ended
<1>1. PICK v, u \in Words : /\ boot.args = <<v, u>> /\ CsrsFacts(v, u)
  BY DEF CsrsInv
<1>2. mtime = 20
  BY <1>1 DEF CsrsFacts, OnLine
<1>3. /\ regs[S0] = v % 32 /\ regs[S1] = (v \div 32) % 8
      /\ regs[S2] = 32 * ((v \div 32) % 8) + (v % 32)
      /\ regs[S3] = (v \div 32) % 8 /\ regs[A0] = 32 * (u % 8) + (v % 32)
      /\ regs[A1] = 32 * (u % 8) + BitAnd(v % 32, Inverted(u))
      /\ regs[T2] = v /\ regs[T3] = u /\ csr[CSR_MCAUSE] = BitOr(u, v)
      /\ regs[T4] = v - (v % 4) /\ regs[A2] = BitAnd(v % 32, Inverted(u))
      /\ regs[T5] = 32 * (u % 8) + 31
  BY <1>1, <1>2 DEF CsrsFacts
<1>4. boot.args[1] = v /\ boot.args[2] = u
  BY <1>1
<1>5. v \in Nat
  BY WordSizes
<1>6. 32 * ((v \div 32) % 8) + (v % 32) = v % 256
  BY ONLY <1>5
<1>7. (v - (v % 4)) % 4 = 0 /\ v - (v - (v % 4)) \in 0 .. 3
  BY ONLY <1>5
<1>8. csr[834] = BitOr(u, v)
  BY <1>3 DEF CSR_MCAUSE
<1> QED BY <1>3, <1>4, <1>6, <1>7, <1>8

\* On words of every width up to 32, for any two words, the three views of fcsr agree and
\* the masked registers keep what they are said to keep (csr.c), whatever else is booted.
THEOREM CsrViewsHold ==
  ASSUME HostTyped, BitLaws, XLEN <= 32, TextFits(20),
         \A b \in Boots : b.name = "csrs" => b \in CsrPrograms(Words)
  PROVE  Spec => []CsrViewsAgree
<1>1. Init => CInv
  BY InitType
<1>2. CInv /\ [Next]_vars => CInv'
  BY StepType
<1>3. Init => CsrsInv
  <2> SUFFICES ASSUME Init, boot.name = "csrs"
               PROVE  \E v \in Words, u \in Words :
                        /\ boot.args = <<v, u>> /\ CsrsText(boot.code, v, u)
                        /\ CsrsFacts(v, u)
    BY DEF CsrsInv
  <2>1. boot \in CsrPrograms(Words)
    BY DEF Init
  <2>2. PICK v \in Words, u \in Words : boot = Booted("csrs", <<v, u>>, csrs(v, u), 100)
    BY ONLY <2>1 DEF CsrPrograms
  <2>3. boot.args = <<v, u>> /\ boot.code = assemble(csrs(v, u), TEXT) /\ boot.entry = TEXT
        /\ boot.mtime = 0
    BY <2>2 DEF Booted
  <2>4. CsrsText(boot.code, v, u)
    BY <2>3, CsrsAssembled DEF TextFits
  <2>5. mtime = 0 /\ state = "RUNNING" /\ pc = TEXT
    BY <2>3 DEF Init
  <2>6. CsrsFacts(v, u)
    BY <2>5 DEF CsrsFacts, OnLine, TextFits
  <2> QED BY <2>3, <2>4, <2>6
<1>4. CInv /\ CsrsInv /\ [Next]_vars => CsrsInv'
  <2> SUFFICES ASSUME CInv, CsrsInv, [Next]_vars PROVE CsrsInv'
    OBVIOUS
  <2>1. CASE UNCHANGED vars
    BY <2>1 DEF vars, CsrsInv, CsrsFacts, OnLine
  <2>2. CASE Step
    <3>1. boot' = boot
      BY <2>2 DEF Step
    <3>2. SUFFICES ASSUME boot.name = "csrs"
                   PROVE  \E v \in Words, u \in Words :
                            /\ boot.args = <<v, u>> /\ CsrsText(boot.code, v, u)
                            /\ CsrsFacts(v, u)'
      BY <3>1 DEF CsrsInv
    <3>3. PICK v \in Words, u \in Words :
            /\ boot.args = <<v, u>> /\ CsrsText(boot.code, v, u) /\ CsrsFacts(v, u)
      BY <3>2 DEF CsrsInv
    <3>4. CsrsFacts(v, u)'
      BY <2>2, <3>3, CsrsStep
    <3> QED BY <3>3, <3>4
  <2> QED BY <2>1, <2>2 DEF Next, Returned
<1>5. CInv /\ CsrsInv => CsrViewsAgree
  BY CsrsEnds
<1> QED BY <1>1, <1>2, <1>3, <1>4, <1>5, PTL DEF Spec
-----------------------------------------------------------------------------
\* Bytes of a word.

\* Where they lie.
LEMMA BytePowers ==
  /\ Pow2[ByteBits * 0] = 1 /\ Pow2[ByteBits * 1] = ByteSize
  /\ Pow2[ByteBits * 2] = ByteSize * ByteSize
  /\ Pow2[ByteBits * 3] = ByteSize * (ByteSize * ByteSize)
<1> DEFINE q == ByteBits
<1>1. q \in 0 .. XLEN /\ 2 * q \in 0 .. XLEN /\ 3 * q \in 0 .. XLEN /\ XLEN = 4 * q /\ q \in Nat
  BY ONLY Widths DEF ByteBits
<1>2. Pow2[q] = ByteSize
  BY DEF ByteSize, ByteBits
<1>3. q * 0 = 0 /\ q * 1 = q /\ q * 2 = 2 * q /\ q * 3 = 3 * q /\ q + q = 2 * q /\ q + 2 * q = 3 * q
  BY <1>1
<1> HIDE DEF q
<1>4. Pow2[2 * q] = ByteSize * ByteSize
  BY <1>1, <1>2, <1>3, PowerSum
<1>5. Pow2[3 * q] = ByteSize * Pow2[2 * q]
  BY <1>1, <1>2, <1>3, PowerSum
<1> QED BY <1>2, <1>3, <1>4, <1>5, SmallPowers DEF q

\* The word of four bytes, and its halves.
Pair(b0, b1) == b0 + ByteSize * b1
Four(b0, b1, b2, b3) == Pair(b0, b1) + (ByteSize * ByteSize) * Pair(b2, b3)

\* Bytes make halves, from which they can be taken again.
LEMMA PairBytes ==
  ASSUME NEW b0 \in 0 .. ByteSize - 1, NEW b1 \in 0 .. ByteSize - 1
  PROVE  /\ Pair(b0, b1) \in 0 .. ByteSize * ByteSize - 1
         /\ ByteOf(Pair(b0, b1), 0) = b0 /\ ByteOf(Pair(b0, b1), 1) = b1
         /\ ByteOf(b0, 0) = b0
<1> DEFINE B == ByteSize
<1>1. B \in Nat \ {0}
  BY ByteSizes
<1>2. Pair(b0, b1) \in 0 .. B * B - 1
  BY <1>1, TwoDigits DEF Pair
<1>3. ByteOf(Pair(b0, b1), 0) = b0 /\ ByteOf(Pair(b0, b1), 1) = b1 /\ ByteOf(b0, 0) = b0
  <2>1. b0 \in Int /\ b1 \in Int /\ b0 \in 0 .. B - 1 /\ b1 \in 0 .. B - 1
    BY <1>1
  <2>2. Pair(b0, b1) = B * b1 + b0 /\ Pair(b0, b1) \in Int
    BY <1>1, <2>1 DEF Pair
  <2> HIDE DEF B
  <2>3. (B * b1 + b0) \div B = b1 /\ (B * b1 + b0) % B = b0
    BY <1>1, <2>1, DivisionUnique
  <2>4. b1 % B = b1 /\ b0 % B = b0
    BY <1>1, <2>1
  <2>5. Pair(b0, b1) \div 1 = Pair(b0, b1) /\ b0 \div 1 = b0
    BY <2>1, <2>2
  <2> QED BY <2>2, <2>3, <2>4, <2>5, BytePowers DEF ByteOf, B
<1> QED BY <1>2, <1>3

\* Halves make words.
LEMMA FourBytes ==
  ASSUME NEW b0 \in 0 .. ByteSize - 1, NEW b1 \in 0 .. ByteSize - 1,
         NEW b2 \in 0 .. ByteSize - 1, NEW b3 \in 0 .. ByteSize - 1
  PROVE  /\ Four(b0, b1, b2, b3) \in Words
         /\ ByteOf(Four(b0, b1, b2, b3), 0) = b0 /\ ByteOf(Four(b0, b1, b2, b3), 1) = b1
         /\ ByteOf(Four(b0, b1, b2, b3), 2) = b2 /\ ByteOf(Four(b0, b1, b2, b3), 3) = b3
<1> DEFINE B == ByteSize
           C == B * B
           lo == Pair(b0, b1)
           hi == Pair(b2, b3)
           w == Four(b0, b1, b2, b3)
<1>1. /\ B \in Nat \ {0} /\ C \in Nat \ {0} /\ Size = C * C /\ C = B * B
      /\ b0 \in 0 .. B - 1 /\ b1 \in 0 .. B - 1 /\ b2 \in 0 .. B - 1 /\ b3 \in 0 .. B - 1
      /\ b0 \in Int /\ b1 \in Int /\ b2 \in Int /\ b3 \in Int
  BY ByteSizes
<1>2. /\ lo \in 0 .. C - 1 /\ hi \in 0 .. C - 1 /\ lo = B * b1 + b0 /\ hi = B * b3 + b2
      /\ lo \in Int /\ hi \in Int
  BY <1>1, PairBytes DEF Pair
<1>3. w = C * hi + lo
  BY <1>1, <1>2 DEF Four
<1>4. Pow2[ByteBits * 0] = 1 /\ Pow2[ByteBits * 1] = B /\ Pow2[ByteBits * 2] = C /\ Pow2[ByteBits * 3] = B * C
  BY BytePowers
<1>5. ByteOf(hi, 0) = b2 /\ ByteOf(hi, 1) = b3
  BY PairBytes
<1> HIDE DEF B, C, lo, hi, w
<1>6. lo + C * hi \in 0 .. C * C - 1
  BY <1>1, <1>2, TwoDigits
<1>7. w \in Words /\ w \in Int
  BY <1>1, <1>2, <1>3, <1>6, WordSizes
<1>8. w \div C = hi
  <2>1. (C * hi + lo) \div C = hi
    <3>1. C \in Nat \ {0} /\ hi \in Int /\ lo \in 0 .. C - 1
      BY <1>1, <1>2
    <3> QED BY ONLY <3>1, DivisionUnique
  <2> QED BY <1>3, <2>1
<1>9. w \div 1 = w
  BY <1>7
<1>10. w % B = b0 /\ w \div B = B * hi + b1
  <2>1. w = B * (B * hi + b1) + b0
    BY <1>1, <1>2, <1>3
  <2>2. B * hi + b1 \in Int
    BY <1>1, <1>2
  <2> QED BY <1>1, <2>1, <2>2, DivisionUnique
<1>11. (B * hi + b1) % B = b1
  BY <1>1, <1>2, DivisionUnique
<1>12. hi % B = b2
  BY <1>1, <1>2, DivisionUnique
<1>13. w \div (B * C) = b3
  <2>1. lo + C * b2 \in 0 .. C * B - 1
    BY <1>1, <1>2, TwoDigits
  <2>2. w = (B * C) * b3 + (lo + C * b2)
    BY <1>1, <1>2, <1>3
  <2>3. B * C = C * B /\ B * C \in Nat \ {0}
    BY <1>1
  <2> QED BY <1>1, <2>1, <2>2, <2>3, DivisionUnique
<1>14. b3 % B = b3
  BY <1>1
<1> QED BY <1>4, <1>7, <1>8, <1>9, <1>10, <1>11, <1>12, <1>13, <1>14 DEF ByteOf, B, w

\* Signed, what is extended from n bytes is what the n bytes say.
LEMMA SignedExtended ==
  ASSUME NEW n \in {1, 2}, NEW x \in 0 .. Capacity(n) - 1
  PROVE  Signed(SignExtended(x, n)) = IF 2 * x >= Capacity(n) THEN x - Capacity(n) ELSE x
<1> DEFINE c == Capacity(n)
<1>1. c \in Nat \ {0} /\ Pow2[(XLEN \div 4) * n] = c
  BY CapacityType
<1>2. 2 * c <= Size
  <2>1. ByteSize \in Nat \ {0} /\ Size = (ByteSize * ByteSize) * (ByteSize * ByteSize)
    BY ByteSizes
  <2>2. ByteSize >= 2
    <3>1. ByteSize # 1
      BY <2>1, WordSizes
    <3> QED BY <2>1, <3>1
  <2>3. ByteSize * ByteSize >= 2 * ByteSize /\ ByteSize * ByteSize >= 2
    BY <2>1, <2>2
  <2> DEFINE C == ByteSize * ByteSize
  <2>4. C \in Nat /\ C >= 2
    BY <2>1, <2>3
  <2>5. c \in {ByteSize, C} /\ C >= 2 * ByteSize
    BY <2>3 DEF Capacity
  <2> HIDE DEF C
  <2>6. C * C >= 2 * C
    BY <2>4
  <2>7. Size = C * C
    BY <2>1 DEF C
  <2> QED BY <2>1, <2>4, <2>5, <2>6, <2>7
<1> HIDE DEF c
<1>3. x \in Int /\ 0 <= x /\ x < c
  BY <1>1 DEF c
<1> QED BY <1>1, <1>2, <1>3, WordSizes DEF SignExtended, Signed, c

\* Byte b of a has lo below it and hi above it; p is its weight, and q what is missing to
\* that of the top byte.
ByteIn(a, b, lo, hi, p, q) ==
    /\ a \in Words /\ lo \in Nat /\ b \in 0 .. ByteSize - 1 /\ hi \in Int
    /\ p \in Nat \ {0} /\ q \in Nat \ {0} /\ p * q = ByteSize * (ByteSize * ByteSize)
    /\ lo < p /\ a = lo + p * (b + ByteSize * hi)

\* A byte that is shifted to the top of a word and down again: lbu and lb.
LEMMA ShiftedByte ==
  ASSUME NEW a, NEW b, NEW lo, NEW hi, NEW p, NEW q, ByteIn(a, b, lo, hi, p, q)
  PROVE  /\ Wrap(a * q) \div (ByteSize * (ByteSize * ByteSize)) = b
         /\ Wrap(Signed(Wrap(a * q)) \div (ByteSize * (ByteSize * ByteSize))) = SignExtended(b, 1)
<1> DEFINE B == ByteSize
           D == ByteSize * (ByteSize * ByteSize)
           h == Pow2[ByteBits - 1]
<1>0. /\ a \in Words /\ lo \in Nat /\ b \in 0 .. ByteSize - 1 /\ hi \in Int
      /\ p \in Nat \ {0} /\ q \in Nat \ {0} /\ p * q = ByteSize * (ByteSize * ByteSize)
      /\ lo < p /\ a = lo + p * (b + ByteSize * hi)
  BY DEF ByteIn
<1>1. B \in Nat \ {0} /\ D \in Nat \ {0} /\ Size = B * D /\ p * q = D /\ b \in 0 .. B - 1 /\ b \in Int
  BY <1>0, ByteSizes
<1>2. h \in Nat \ {0} /\ B = 2 * h
  <2>1. ByteBits \in Nat /\ ByteBits >= 3 /\ ByteBits <= XLEN
    BY Widths DEF ByteBits
  <2>2. ByteBits - 1 \in 0 .. XLEN /\ 1 \in 0 .. XLEN /\ (ByteBits - 1) + 1 = ByteBits /\ ByteBits <= XLEN
    BY <2>1, Widths
  <2>3. Pow2[(ByteBits - 1) + 1] = Pow2[ByteBits - 1] * Pow2[1]
    BY <2>2, PowerSum
  <2>4. Pow2[ByteBits] = B
    BY DEF ByteSize, ByteBits
  <2> QED BY <2>2, <2>3, <2>4, PowerType, SmallPowers
<1>3. SignExtended(b, 1) = IF b >= h THEN b + Size - B ELSE b
  <2>1. Pow2[(XLEN \div 4) * 1] = B
    BY BytePowers DEF ByteBits
  <2> QED BY <1>1, <1>2, <2>1 DEF SignExtended
<1> HIDE DEF B, D, h
<1> DEFINE r == lo * q
<1>4. r \in Int /\ r \in 0 .. D - 1
  <2>1. lo * q <= (p - 1) * q
    BY <1>0, lo <= p - 1
  <2>2. (p - 1) * q = D - q
    BY <1>0, <1>1
  <2>3. lo * q \in Nat
    BY <1>0
  <2> QED BY <1>0, <1>1, <2>1, <2>2, <2>3
<1>5. a * q = (D * b + r) + hi * Size
  <2>1. a * q = lo * q + (p * q) * b + ((p * q) * B) * hi
    BY <1>0, <1>1 DEF B
  <2>2. (p * q) * B = Size
    BY <1>1
  <2> QED BY <1>0, <1>1, <2>1, <2>2
<1> HIDE DEF r
<1>6. D * b + r \in Words
  <2>1. r + D * b \in 0 .. D * B - 1
    BY <1>1, <1>4, TwoDigits
  <2> QED BY <1>1, <1>4, <2>1, WordSizes
<1>7. Wrap(a * q) = D * b + r
  <2>1. D * b + r \in Int
    BY <1>1, <1>4
  <2> QED BY <1>0, <1>5, <1>6, <2>1, WrapShift, WrapWord
<1>8. (D * b + r) \div D = b
  BY <1>1, <1>4, DivisionUnique
<1>9. Half = D * h
  BY <1>1, <1>2, WordSizes
<1>10. CASE b >= h
  <2>1. D * b >= D * h
    BY <1>1, <1>2, <1>10
  <2>2. D * b + r >= Half
    <3>1. D * b \in Int /\ D * h \in Int
      BY <1>1, <1>2
    <3> QED BY <1>4, <1>9, <2>1, <3>1
  <2>3. Signed(D * b + r) = D * (b - B) + r
    <3>1. D * (b - B) = D * b - Size
      BY <1>1
    <3>2. D * b \in Int /\ Size \in Int
      BY <1>1, WordSizes
    <3> QED BY <1>4, <2>2, <3>1, <3>2 DEF Signed
  <2>4. (D * (b - B) + r) \div D = b - B
    <3>1. b - B \in Int
      BY <1>1
    <3> QED BY <1>1, <1>4, <3>1, DivisionUnique
  <2>5. Wrap(b - B) = b + Size - B
    <3>1. B <= Size
      BY ByteSizes DEF B
    <3>2. b + Size - B \in Words /\ b - B \in Int
      BY <1>1, <3>1, WordSizes
    <3>3. Wrap((b - B) + 1 * Size) = Wrap(b - B)
      BY <3>2, WrapShift
    <3>4. (b - B) + 1 * Size = b + Size - B
      BY <1>1, WordSizes
    <3> QED BY <3>2, <3>3, <3>4, WrapWord
  <2> QED BY <1>3, <1>7, <1>8, <1>10, <2>3, <2>4, <2>5 DEF B, D
<1>11. CASE ~(b >= h)
  <2>1. D * b + r < D * h
    <3>1. r + D * b \in 0 .. D * h - 1
      BY <1>1, <1>2, <1>4, <1>11, TwoDigits
    <3> QED BY <1>1, <1>2, <1>4, <3>1
  <2>2. Signed(D * b + r) = D * b + r
    BY <1>9, <2>1, <1>1, <1>2, <1>4 DEF Signed
  <2>3. b \in Words
    BY <1>1, ByteSizes, WordSizes DEF B
  <2> QED BY <1>3, <1>7, <1>8, <1>11, <2>2, <2>3, WrapWord DEF B, D
<1> QED BY <1>10, <1>11

\* That is so for each byte of any word.
LEMMA TopByte ==
  ASSUME NEW a \in Words, NEW k \in 0 .. 3
  PROVE  /\ Wrap(a * Pow2[XLEN - (k + 1) * ByteBits]) \div Pow2[XLEN - ByteBits] = ByteOf(a, k)
         /\ Wrap(Signed(Wrap(a * Pow2[XLEN - (k + 1) * ByteBits])) \div Pow2[XLEN - ByteBits])
              = SignExtended(ByteOf(a, k), 1)
<1> DEFINE B == ByteSize
           i == ByteBits * k
           j == XLEN - (k + 1) * ByteBits
           t == XLEN - ByteBits
           p == Pow2[i]
           q == Pow2[j]
<1>1. i \in 0 .. XLEN /\ j \in 0 .. XLEN /\ t \in 0 .. XLEN /\ i + j = t /\ t = ByteBits * 3
  <2>1. ByteBits \in Nat /\ XLEN = 4 * ByteBits
    BY ONLY Widths DEF ByteBits
  <2> DEFINE w == ByteBits
  <2>2. w \in Nat /\ XLEN = 4 * w /\ k \in {0, 1, 2, 3}
    BY <2>1
  <2> HIDE DEF w
  <2>3. w * k \in 0 .. XLEN /\ XLEN - (k + 1) * w \in 0 .. XLEN /\ XLEN - w \in 0 .. XLEN
        /\ w * k + (XLEN - (k + 1) * w) = XLEN - w /\ XLEN - w = w * 3
    BY ONLY <2>2
  <2> QED BY <2>3 DEF w
<1> HIDE DEF i, j, t
<1>2. p \in Nat \ {0} /\ q \in Nat \ {0} /\ Pow2[t] = p * q
  <2>1. t <= XLEN
    BY <1>1, Widths
  <2> QED BY <1>1, <2>1, PowerType, PowerSum
<1>3. Pow2[t] = ByteSize * (ByteSize * ByteSize)
  BY <1>1, BytePowers
<1> DEFINE m == a \div p
           lo == a % p
           b == m % B
           hi == m \div B
<1>4. a \in Nat /\ B \in Nat \ {0}
  BY WordSizes, ByteSizes
<1> HIDE DEF p, q, B
<1>5. m \in Int /\ lo \in Nat /\ lo < p /\ a = lo + p * m
  BY <1>2, <1>4
<1> HIDE DEF m, lo
<1>6. b \in 0 .. B - 1 /\ hi \in Int /\ m = b + B * hi
  BY <1>4, <1>5
<1>7. ByteOf(a, k) = b
  BY DEF ByteOf, b, m, p, B, i
<1> HIDE DEF b, hi
<1>8. p * q = ByteSize * (ByteSize * ByteSize)
  BY <1>2, <1>3
<1>9. a = lo + p * (b + ByteSize * hi)
  BY <1>5, <1>6 DEF B
<1>10. /\ Wrap(a * q) \div (ByteSize * (ByteSize * ByteSize)) = b
       /\ Wrap(Signed(Wrap(a * q)) \div (ByteSize * (ByteSize * ByteSize))) = SignExtended(b, 1)
  <2>1. b \in 0 .. ByteSize - 1
    BY <1>6 DEF B
  <2>2. p \in Nat \ {0} /\ q \in Nat \ {0} /\ lo \in Nat /\ lo < p /\ hi \in Int /\ a \in Words
    BY <1>2, <1>5, <1>6
  <2>3. ByteIn(a, b, lo, hi, p, q)
    BY ONLY <1>8, <1>9, <2>1, <2>2 DEF ByteIn
  <2> QED BY <2>3, ShiftedByte
<1>11. Pow2[XLEN - ByteBits] = ByteSize * (ByteSize * ByteSize)
  BY <1>3 DEF t
<1>12. Pow2[XLEN - (k + 1) * ByteBits] = q
  BY DEF q, j
<1> QED BY <1>7, <1>10, <1>11, <1>12

\* The program on bytes.  What byte j of its word becomes, and the word and its halves.
PatchedByte(w, v, k, j) == IF j = k THEN v % ByteSize ELSE ByteOf(w, j)
PatchedLow(w, v, k)  == Pair(PatchedByte(w, v, k, 0), PatchedByte(w, v, k, 1))
PatchedHigh(w, v, k) == Pair(PatchedByte(w, v, k, 2), PatchedByte(w, v, k, 3))
Patched(w, v, k)     == Four(PatchedByte(w, v, k, 0), PatchedByte(w, v, k, 1),
                             PatchedByte(w, v, k, 2), PatchedByte(w, v, k, 3))
\* Its byte k at the top.
Distance(k)     == k * ByteBits
Room(k)         == XLEN - (k + 1) * ByteBits
Top             == XLEN - ByteBits
Topped(w, v, k) == Wrap(Patched(w, v, k) * Pow2[Room(k)])
\* What the loads and shifts make of it.
NewByte(v)           == v % ByteSize
Doubled(w, v, k)     == PatchedHigh(w, v, k) + (ByteSize * ByteSize) * PatchedHigh(w, v, k)
Moved(w, v, k)       == Patched(w, v, k) \div Pow2[Distance(k)]
Lowered(w, v, k)     == Topped(w, v, k) \div Pow2[Top]
SignLowered(w, v, k) == Wrap(Signed(Topped(w, v, k)) \div Pow2[Top])

\* They fit, and the word has these bytes.
LEMMA PatchedParts ==
  ASSUME NEW w \in Words, NEW v \in Words, NEW k \in 0 .. 3
  PROVE  /\ \A j \in 0 .. 3 : /\ PatchedByte(w, v, k, j) \in 0 .. ByteSize - 1
                              /\ ByteOf(Patched(w, v, k), j) = PatchedByte(w, v, k, j)
         /\ PatchedLow(w, v, k) \in 0 .. ByteSize * ByteSize - 1
         /\ PatchedHigh(w, v, k) \in 0 .. ByteSize * ByteSize - 1
         /\ ByteOf(PatchedHigh(w, v, k), 0) = PatchedByte(w, v, k, 2)
         /\ ByteOf(PatchedHigh(w, v, k), 1) = PatchedByte(w, v, k, 3)
         /\ Patched(w, v, k) = PatchedLow(w, v, k) + (ByteSize * ByteSize) * PatchedHigh(w, v, k)
         /\ Patched(w, v, k) \in Words
         /\ PatchedByte(w, v, k, k) = v % ByteSize /\ ByteOf(v, 0) = v % ByteSize
<1>1. ASSUME NEW j \in 0 .. 3 PROVE PatchedByte(w, v, k, j) \in 0 .. ByteSize - 1
  <2>1. v \in Nat /\ w \in Nat /\ ByteSize \in Nat \ {0}
    BY WordSizes, ByteSizes
  <2>2. Pow2[ByteBits * j] \in Nat \ {0}
    <3>1. j \in {0, 1, 2, 3}
      OBVIOUS
    <3>2. ByteSize * ByteSize \in Nat \ {0} /\ ByteSize * (ByteSize * ByteSize) \in Nat \ {0}
      BY <2>1
    <3> QED BY <2>1, <3>1, <3>2, BytePowers
  <2>3. w \div Pow2[ByteBits * j] \in Int
    BY <2>1, <2>2
  <2> QED BY <2>1, <2>3 DEF PatchedByte, ByteOf
<1>2. /\ PatchedByte(w, v, k, 0) \in 0 .. ByteSize - 1 /\ PatchedByte(w, v, k, 1) \in 0 .. ByteSize - 1
      /\ PatchedByte(w, v, k, 2) \in 0 .. ByteSize - 1 /\ PatchedByte(w, v, k, 3) \in 0 .. ByteSize - 1
  BY <1>1
<1>3. \A j \in 0 .. 3 : ByteOf(Patched(w, v, k), j) = PatchedByte(w, v, k, j)
  <2>1. ASSUME NEW j \in 0 .. 3 PROVE ByteOf(Patched(w, v, k), j) = PatchedByte(w, v, k, j)
    <3>1. j \in {0, 1, 2, 3}
      OBVIOUS
    <3> QED BY <1>2, <3>1, FourBytes DEF Patched
  <2> QED BY <2>1
<1>4. PatchedByte(w, v, k, k) = v % ByteSize
  BY DEF PatchedByte
<1>5. ByteOf(v, 0) = v % ByteSize
  <2>1. v \div 1 = v
    BY WordSizes
  <2> QED BY <2>1, BytePowers DEF ByteOf
<1> QED BY <1>1, <1>2, <1>3, <1>4, <1>5, PairBytes, FourBytes
        DEF Patched, PatchedLow, PatchedHigh, Four

\* A whole word has no sign to extend.
LEMMA PatchedWhole ==
  ASSUME NEW w \in Words, NEW v \in Words, NEW k \in 0 .. 3
  PROVE  /\ SignExtended(Patched(w, v, k), 4) = Patched(w, v, k)
         /\ SignExtended(Doubled(w, v, k), 4) = Doubled(w, v, k)
<1>1. Pow2[(XLEN \div 4) * 4] = Size /\ Size \in Int
  <2>1. Capacity(4) = Size
    BY DEF Capacity
  <2> QED BY <2>1, CapacityType
<1>2. \A x \in Int : SignExtended(x, 4) = x
  BY <1>1 DEF SignExtended
<1>3. PatchedHigh(w, v, k) \in Int /\ ByteSize \in Int /\ Patched(w, v, k) \in Int
  <2>1. \A x \in Words : x \in Int
    BY WordSizes
  <2>2. \A x \in 0 .. ByteSize * ByteSize - 1 : x \in Int
    OBVIOUS
  <2> QED BY <2>1, <2>2, PatchedParts, ByteSizes
<1>4. Doubled(w, v, k) \in Int
  BY <1>3 DEF Doubled
<1> QED BY <1>2, <1>3, <1>4

\* The bytes in the memory: of the word, of the patched word, of its copy, and of the
\* upper half twice.
WordLaid(w)         == \A j \in 0 .. 3 : Byte(DATA + j) = ByteOf(w, j)
PatchLaid(w, v, k)  == \A j \in 0 .. 3 : Byte(DATA + j) = PatchedByte(w, v, k, j)
CopyLaid(w, v, k)   == \A j \in 0 .. 3 : Byte((DATA + 4) + j) = PatchedByte(w, v, k, j)
HalvesLaid(w, v, k) ==
    /\ Byte(DATA + 4) = PatchedByte(w, v, k, 2) /\ Byte((DATA + 4) + 1) = PatchedByte(w, v, k, 3)
    /\ Byte((DATA + 4) + 2) = PatchedByte(w, v, k, 2) /\ Byte((DATA + 4) + 3) = PatchedByte(w, v, k, 3)

\* An instruction that leaves the memory alone leaves these.
MemoryKept(w, v, k) ==
    /\ WordLaid(w) => WordLaid(w)'
    /\ PatchLaid(w, v, k) => PatchLaid(w, v, k)'
    /\ CopyLaid(w, v, k) => CopyLaid(w, v, k)'
    /\ HalvesLaid(w, v, k) => HalvesLaid(w, v, k)'

\* The data lie inside the memory.
DataFits(n) == DATA \in Nat /\ DATA % 4 = 0 /\ DATA + n <= MemSize

\* Accesses to them by s0.
LEMMA DataNames ==
  ASSUME DataFits(8), regs[S0] = DATA, NEW imm \in 0 .. 7, NEW n \in {1, 2, 4},
         imm % n = 0, imm + n <= 8
  PROVE  Names(S0, imm, DATA + imm, n)
<1>1. /\ imm \in Int /\ -2048 <= imm /\ imm < 2048 /\ DATA \in Nat /\ DATA % 4 = 0
      /\ MemSize \in Nat /\ DATA + 8 <= MemSize /\ MemSize < Size
  BY SMT, MemoryAssumption, WordSizes DEF DataFits
<1>2. DATA + imm \in Words
  BY <1>1, WordSizes
<1>3. Wrap(regs[S0] + imm) = DATA + imm
  BY <1>2, WrapWord
<1>4. (DATA + imm) % n = 0
  <2>1. CASE n = 1
    BY ONLY <1>1, <2>1
  <2>2. CASE n = 2
    BY ONLY <1>1, <2>2, imm % n = 0
  <2>3. CASE n = 4
    BY ONLY <1>1, <2>3, imm % n = 0
  <2> QED BY <2>1, <2>2, <2>3
<1> QED BY <1>1, <1>2, <1>3, <1>4 DEF Names

\* Distances to shift.
ShiftCount(c) == c \in 0 .. 31 /\ c \in Words /\ c % XLEN = c /\ Wrap(0 + Wrap(c)) = c

\* The distances of the shifts of a program are within a word.
LEMMA ShiftCounts ==
  ASSUME XLEN <= 32, NEW k \in 0 .. 3
  PROVE  /\ ShiftCount(k * ByteBits) /\ ShiftCount(XLEN - (k + 1) * ByteBits)
         /\ ShiftCount(XLEN - ByteBits)
<1>1. \A c \in 0 .. XLEN - 1 : ShiftCount(c)
  <2>1. XLEN \in Nat
    BY Widths
  <2>2. ASSUME NEW c \in 0 .. XLEN - 1 PROVE ShiftCount(c)
    <3>1. c \in Words
      BY <2>1, WordSizes
    <3>2. c % XLEN = c /\ c \in 0 .. 31 /\ 0 + c = c
      BY <2>1
    <3>3. Wrap(c) = c
      BY <3>1, WrapWord
    <3> QED BY <3>1, <3>2, <3>3 DEF ShiftCount
  <2> QED BY <2>2
<1>2. ByteBits \in Nat /\ XLEN = 4 * ByteBits /\ ByteBits >= 3
  BY ONLY Widths DEF ByteBits
<1> DEFINE b == ByteBits
<1>3. b \in Nat /\ XLEN = 4 * b /\ b >= 3 /\ k \in {0, 1, 2, 3}
  BY <1>2
<1> HIDE DEF b
<1>4. k * b \in 0 .. XLEN - 1 /\ XLEN - (k + 1) * b \in 0 .. XLEN - 1 /\ XLEN - b \in 0 .. XLEN - 1
  BY ONLY <1>3
<1> QED BY <1>1, <1>4 DEF b

\* Its words.
PatchText(c, w, v, k) ==
    /\ Holds(c, TEXT, Lui(T0, w))
    /\ Holds(c, TEXT + 4, Addi(T0, w))
    /\ Holds(c, TEXT + 8, Lui(T1, v))
    /\ Holds(c, TEXT + 12, Addi(T1, v))
    /\ Holds(c, TEXT + 16, Lui(S0, DATA))
    /\ Holds(c, TEXT + 20, Addi(S0, DATA))
    /\ Holds(c, TEXT + 24, enc_s(0, T0, S0, 2, OP_STORE))
    /\ Holds(c, TEXT + 28, enc_s(k, T1, S0, 0, OP_STORE))
    /\ Holds(c, TEXT + 32, enc_i(0, S0, 2, A0, OP_LOAD))
    /\ Holds(c, TEXT + 36, enc_i(0, S0, 5, A1, OP_LOAD))
    /\ Holds(c, TEXT + 40, enc_i(2, S0, 5, A2, OP_LOAD))
    /\ Holds(c, TEXT + 44, enc_i(2, S0, 1, S2, OP_LOAD))
    /\ Holds(c, TEXT + 48, enc_i(k, S0, 0, S3, OP_LOAD))
    /\ Holds(c, TEXT + 52, enc_i(0, S0, 2, 1, OP_LOAD_FP))
    /\ Holds(c, TEXT + 56, enc_s(4, 1, S0, 2, OP_STORE_FP))
    /\ Holds(c, TEXT + 60, enc_i(4 + k, S0, 4, T3, OP_LOAD))
    /\ Holds(c, TEXT + 64, enc_s(4, A2, S0, 1, OP_STORE))
    /\ Holds(c, TEXT + 68, enc_i(4, S0, 2, T4, OP_LOAD))
    /\ Holds(c, TEXT + 72, enc_i(k * ByteBits, 0, 0, T2, OP_ALUI))
    /\ Holds(c, TEXT + 76, enc_r(0, T2, A0, 5, T5, OP_ALU))
    /\ Holds(c, TEXT + 80, enc_i(XLEN - (k + 1) * ByteBits, 0, 0, T2, OP_ALUI))
    /\ Holds(c, TEXT + 84, enc_r(0, T2, A0, 1, A3, OP_ALU))
    /\ Holds(c, TEXT + 88, enc_i(XLEN - ByteBits, 0, 0, T2, OP_ALUI))
    /\ Holds(c, TEXT + 92, enc_r(0, T2, A3, 5, A4, OP_ALU))
    /\ Holds(c, TEXT + 96, enc_r(32, T2, A3, 5, A5, OP_ALU))
    /\ Holds(c, TEXT + 100, EBREAK)

\* The assembler puts them there.
LEMMA PatchAssembled ==
  ASSUME TEXT \in Nat, NEW w, NEW v, NEW k
  PROVE  PatchText(assemble(patch(w, v, k), TEXT), w, v, k)
<1> DEFINE items == patch(w, v, k)
           c == assemble(items, TEXT)
<1>1. /\ Len(items) = 23
      /\ items[1] = li32(T0, w)
      /\ items[2] = li32(T1, v)
      /\ items[3] = li32(S0, DATA)
      /\ items[4] = Word(enc_s(0, T0, S0, 2, OP_STORE))
      /\ items[5] = Word(enc_s(k, T1, S0, 0, OP_STORE))
      /\ items[6] = Word(enc_i(0, S0, 2, A0, OP_LOAD))
      /\ items[7] = Word(enc_i(0, S0, 5, A1, OP_LOAD))
      /\ items[8] = Word(enc_i(2, S0, 5, A2, OP_LOAD))
      /\ items[9] = Word(enc_i(2, S0, 1, S2, OP_LOAD))
      /\ items[10] = Word(enc_i(k, S0, 0, S3, OP_LOAD))
      /\ items[11] = Word(enc_i(0, S0, 2, 1, OP_LOAD_FP))
      /\ items[12] = Word(enc_s(4, 1, S0, 2, OP_STORE_FP))
      /\ items[13] = Word(enc_i(4 + k, S0, 4, T3, OP_LOAD))
      /\ items[14] = Word(enc_s(4, A2, S0, 1, OP_STORE))
      /\ items[15] = Word(enc_i(4, S0, 2, T4, OP_LOAD))
      /\ items[16] = Word(enc_i(k * ByteBits, 0, 0, T2, OP_ALUI))
      /\ items[17] = Word(enc_r(0, T2, A0, 5, T5, OP_ALU))
      /\ items[18] = Word(enc_i(XLEN - (k + 1) * ByteBits, 0, 0, T2, OP_ALUI))
      /\ items[19] = Word(enc_r(0, T2, A0, 1, A3, OP_ALU))
      /\ items[20] = Word(enc_i(XLEN - ByteBits, 0, 0, T2, OP_ALUI))
      /\ items[21] = Word(enc_r(0, T2, A3, 5, A4, OP_ALU))
      /\ items[22] = Word(enc_r(32, T2, A3, 5, A5, OP_ALU))
      /\ items[23] = Word(EBREAK)
  BY DEF patch, sw, sb, lw, load, store, flw, fsw, li, addi, op, system, ebreak, EBREAK, Special
<1> HIDE DEF items
<1>3. /\ Holds(c, TEXT, Lui(T0, w)) /\ Holds(c, TEXT + 4, Addi(T0, w))
      /\ ItemAt(items, TEXT, 2, 8)
  <2>1. items[1] = li32(T0, w) /\ Len(items) \in Nat /\ Len(items) >= 1 /\ TEXT \in Int
    BY <1>1
  <2> QED BY ONLY <2>1, FirstConstant
<1>4. /\ Holds(c, TEXT + 8, Lui(T1, v)) /\ Holds(c, TEXT + 12, Addi(T1, v))
      /\ ItemAt(items, TEXT, 3, 16)
  <2>1. items[2] = li32(T1, v) /\ 2 <= Len(items) /\ TEXT \in Int
    BY <1>1
  <2> QED BY ONLY <1>3, <2>1, NextConstant
<1>5. /\ Holds(c, TEXT + 16, Lui(S0, DATA)) /\ Holds(c, TEXT + 20, Addi(S0, DATA))
      /\ ItemAt(items, TEXT, 4, 24)
  <2>1. items[3] = li32(S0, DATA) /\ 3 <= Len(items) /\ TEXT \in Int
    BY <1>1
  <2> QED BY ONLY <1>4, <2>1, NextConstant
<1>6. Holds(c, TEXT + 24, enc_s(0, T0, S0, 2, OP_STORE)) /\ ItemAt(items, TEXT, 5, 28)
  <2>1. items[4] = Word(enc_s(0, T0, S0, 2, OP_STORE)) /\ 4 <= Len(items) /\ TEXT \in Int
    BY <1>1
  <2> QED BY ONLY <1>5, <2>1, NextWord
<1>7. Holds(c, TEXT + 28, enc_s(k, T1, S0, 0, OP_STORE)) /\ ItemAt(items, TEXT, 6, 32)
  <2>1. items[5] = Word(enc_s(k, T1, S0, 0, OP_STORE)) /\ 5 <= Len(items) /\ TEXT \in Int
    BY <1>1
  <2> QED BY ONLY <1>6, <2>1, NextWord
<1>8. Holds(c, TEXT + 32, enc_i(0, S0, 2, A0, OP_LOAD)) /\ ItemAt(items, TEXT, 7, 36)
  <2>1. items[6] = Word(enc_i(0, S0, 2, A0, OP_LOAD)) /\ 6 <= Len(items) /\ TEXT \in Int
    BY <1>1
  <2> QED BY ONLY <1>7, <2>1, NextWord
<1>9. Holds(c, TEXT + 36, enc_i(0, S0, 5, A1, OP_LOAD)) /\ ItemAt(items, TEXT, 8, 40)
  <2>1. items[7] = Word(enc_i(0, S0, 5, A1, OP_LOAD)) /\ 7 <= Len(items) /\ TEXT \in Int
    BY <1>1
  <2> QED BY ONLY <1>8, <2>1, NextWord
<1>10. Holds(c, TEXT + 40, enc_i(2, S0, 5, A2, OP_LOAD)) /\ ItemAt(items, TEXT, 9, 44)
  <2>1. items[8] = Word(enc_i(2, S0, 5, A2, OP_LOAD)) /\ 8 <= Len(items) /\ TEXT \in Int
    BY <1>1
  <2> QED BY ONLY <1>9, <2>1, NextWord
<1>11. Holds(c, TEXT + 44, enc_i(2, S0, 1, S2, OP_LOAD)) /\ ItemAt(items, TEXT, 10, 48)
  <2>1. items[9] = Word(enc_i(2, S0, 1, S2, OP_LOAD)) /\ 9 <= Len(items) /\ TEXT \in Int
    BY <1>1
  <2> QED BY ONLY <1>10, <2>1, NextWord
<1>12. Holds(c, TEXT + 48, enc_i(k, S0, 0, S3, OP_LOAD)) /\ ItemAt(items, TEXT, 11, 52)
  <2>1. items[10] = Word(enc_i(k, S0, 0, S3, OP_LOAD)) /\ 10 <= Len(items) /\ TEXT \in Int
    BY <1>1
  <2> QED BY ONLY <1>11, <2>1, NextWord
<1>13. Holds(c, TEXT + 52, enc_i(0, S0, 2, 1, OP_LOAD_FP)) /\ ItemAt(items, TEXT, 12, 56)
  <2>1. items[11] = Word(enc_i(0, S0, 2, 1, OP_LOAD_FP)) /\ 11 <= Len(items) /\ TEXT \in Int
    BY <1>1
  <2> QED BY ONLY <1>12, <2>1, NextWord
<1>14. Holds(c, TEXT + 56, enc_s(4, 1, S0, 2, OP_STORE_FP)) /\ ItemAt(items, TEXT, 13, 60)
  <2>1. items[12] = Word(enc_s(4, 1, S0, 2, OP_STORE_FP)) /\ 12 <= Len(items) /\ TEXT \in Int
    BY <1>1
  <2> QED BY ONLY <1>13, <2>1, NextWord
<1>15. Holds(c, TEXT + 60, enc_i(4 + k, S0, 4, T3, OP_LOAD)) /\ ItemAt(items, TEXT, 14, 64)
  <2>1. items[13] = Word(enc_i(4 + k, S0, 4, T3, OP_LOAD)) /\ 13 <= Len(items) /\ TEXT \in Int
    BY <1>1
  <2> QED BY ONLY <1>14, <2>1, NextWord
<1>16. Holds(c, TEXT + 64, enc_s(4, A2, S0, 1, OP_STORE)) /\ ItemAt(items, TEXT, 15, 68)
  <2>1. items[14] = Word(enc_s(4, A2, S0, 1, OP_STORE)) /\ 14 <= Len(items) /\ TEXT \in Int
    BY <1>1
  <2> QED BY ONLY <1>15, <2>1, NextWord
<1>17. Holds(c, TEXT + 68, enc_i(4, S0, 2, T4, OP_LOAD)) /\ ItemAt(items, TEXT, 16, 72)
  <2>1. items[15] = Word(enc_i(4, S0, 2, T4, OP_LOAD)) /\ 15 <= Len(items) /\ TEXT \in Int
    BY <1>1
  <2> QED BY ONLY <1>16, <2>1, NextWord
<1>18. Holds(c, TEXT + 72, enc_i(k * ByteBits, 0, 0, T2, OP_ALUI)) /\ ItemAt(items, TEXT, 17, 76)
  <2>1. items[16] = Word(enc_i(k * ByteBits, 0, 0, T2, OP_ALUI)) /\ 16 <= Len(items) /\ TEXT \in Int
    BY <1>1
  <2> QED BY ONLY <1>17, <2>1, NextWord
<1>19. Holds(c, TEXT + 76, enc_r(0, T2, A0, 5, T5, OP_ALU)) /\ ItemAt(items, TEXT, 18, 80)
  <2>1. items[17] = Word(enc_r(0, T2, A0, 5, T5, OP_ALU)) /\ 17 <= Len(items) /\ TEXT \in Int
    BY <1>1
  <2> QED BY ONLY <1>18, <2>1, NextWord
<1>20. Holds(c, TEXT + 80, enc_i(XLEN - (k + 1) * ByteBits, 0, 0, T2, OP_ALUI)) /\ ItemAt(items, TEXT, 19, 84)
  <2>1. items[18] = Word(enc_i(XLEN - (k + 1) * ByteBits, 0, 0, T2, OP_ALUI)) /\ 18 <= Len(items) /\ TEXT \in Int
    BY <1>1
  <2> QED BY ONLY <1>19, <2>1, NextWord
<1>21. Holds(c, TEXT + 84, enc_r(0, T2, A0, 1, A3, OP_ALU)) /\ ItemAt(items, TEXT, 20, 88)
  <2>1. items[19] = Word(enc_r(0, T2, A0, 1, A3, OP_ALU)) /\ 19 <= Len(items) /\ TEXT \in Int
    BY <1>1
  <2> QED BY ONLY <1>20, <2>1, NextWord
<1>22. Holds(c, TEXT + 88, enc_i(XLEN - ByteBits, 0, 0, T2, OP_ALUI)) /\ ItemAt(items, TEXT, 21, 92)
  <2>1. items[20] = Word(enc_i(XLEN - ByteBits, 0, 0, T2, OP_ALUI)) /\ 20 <= Len(items) /\ TEXT \in Int
    BY <1>1
  <2> QED BY ONLY <1>21, <2>1, NextWord
<1>23. Holds(c, TEXT + 92, enc_r(0, T2, A3, 5, A4, OP_ALU)) /\ ItemAt(items, TEXT, 22, 96)
  <2>1. items[21] = Word(enc_r(0, T2, A3, 5, A4, OP_ALU)) /\ 21 <= Len(items) /\ TEXT \in Int
    BY <1>1
  <2> QED BY ONLY <1>22, <2>1, NextWord
<1>24. Holds(c, TEXT + 96, enc_r(32, T2, A3, 5, A5, OP_ALU)) /\ ItemAt(items, TEXT, 23, 100)
  <2>1. items[22] = Word(enc_r(32, T2, A3, 5, A5, OP_ALU)) /\ 22 <= Len(items) /\ TEXT \in Int
    BY <1>1
  <2> QED BY ONLY <1>23, <2>1, NextWord
<1>25. Holds(c, TEXT + 100, EBREAK) /\ ItemAt(items, TEXT, 24, 104)
  <2>1. items[23] = Word(EBREAK) /\ 23 <= Len(items) /\ TEXT \in Int
    BY <1>1
  <2> QED BY ONLY <1>24, <2>1, NextWord
<1> QED BY <1>3, <1>4, <1>5, <1>6, <1>7, <1>8, <1>9, <1>10, <1>11, <1>12, <1>13, <1>14, <1>15,
  <1>16, <1>17, <1>18, <1>19, <1>20, <1>21, <1>22, <1>23, <1>24, <1>25
  DEF PatchText, items

\* What the registers and the memory hold, step by step.
PatchFacts(w, v, k) ==
    /\ OnLine(26)
    /\ mtime = 1 => regs[T0] = Wrap(Immediate(Lui(T0, w)))
    /\ mtime >= 2 => regs[T0] = w
    /\ mtime = 3 => regs[T1] = Wrap(Immediate(Lui(T1, v)))
    /\ mtime >= 4 => regs[T1] = v
    /\ mtime = 5 => regs[S0] = Wrap(Immediate(Lui(S0, DATA)))
    /\ mtime >= 6 => regs[S0] = DATA
    /\ mtime = 7 => WordLaid(w)
    /\ mtime \in 8 .. 13 => PatchLaid(w, v, k)
    /\ mtime >= 9 => regs[A0] = Patched(w, v, k)
    /\ mtime >= 10 => regs[A1] = PatchedLow(w, v, k)
    /\ mtime >= 11 => regs[A2] = PatchedHigh(w, v, k)
    /\ mtime >= 12 => regs[S2] = SignExtended(PatchedHigh(w, v, k), 2)
    /\ mtime >= 13 => regs[S3] = SignExtended(NewByte(v), 1)
    /\ mtime >= 14 => fregs[1] = Patched(w, v, k)
    /\ mtime \in 15 .. 16 => CopyLaid(w, v, k)
    /\ mtime >= 16 => regs[T3] = NewByte(v)
    /\ mtime >= 17 => HalvesLaid(w, v, k)
    /\ mtime >= 18 => regs[T4] = Doubled(w, v, k)
    /\ mtime \in 19 .. 20 => regs[T2] = Distance(k)
    /\ mtime >= 20 => regs[T5] = Moved(w, v, k)
    /\ mtime \in 21 .. 22 => regs[T2] = Room(k)
    /\ mtime >= 22 => regs[A3] = Topped(w, v, k)
    /\ mtime >= 23 => regs[T2] = Top
    /\ mtime >= 24 => regs[A4] = Lowered(w, v, k)
    /\ mtime >= 25 => regs[A5] = SignLowered(w, v, k)

\* Every step of the program leaves them so.
LEMMA PatchStep ==
  ASSUME CInv, Step, XLEN <= 32, TextFits(26), DataFits(8),
         NEW w \in Words, NEW v \in Words, NEW k \in 0 .. 3,
         PatchText(boot.code, w, v, k), PatchFacts(w, v, k)
  PROVE  PatchFacts(w, v, k)'
<1>1. /\ state = "RUNNING" /\ mtime \in 0 .. 25 /\ pc = TEXT + 4 * mtime
      /\ TEXT \in Nat /\ TEXT % 2 = 0 /\ MemSize \in Nat /\ TEXT + 104 <= MemSize
      /\ regs \in [Registers -> Words] /\ regs[0] = 0 /\ fregs \in [Registers -> Words]
      /\ DATA \in Nat /\ DATA \in Words
  <2>1. state = "RUNNING" /\ mtime \in 0 .. 25 /\ pc = TEXT + 4 * mtime
    BY DEF Step, Going, PatchFacts, OnLine
  <2>2. regs \in [Registers -> Words] /\ regs[0] = 0 /\ fregs \in [Registers -> Words]
    BY DEF CInv, CTypeOK
  <2>3. TEXT \in Nat /\ TEXT % 2 = 0 /\ TEXT + 104 <= MemSize
    BY DEF TextFits
  <2>4. DATA \in Nat /\ DATA + 8 <= MemSize
    BY DEF DataFits
  <2>5. MemSize \in Nat /\ DATA \in Words
    BY ONLY <2>4, MemoryAssumption, WordSizes
  <2> QED BY ONLY <2>1, <2>2, <2>3, <2>4, <2>5
<1>2. ASSUME Advances, mtime < 25 PROVE mtime' = mtime + 1 /\ OnLine(26)'
  BY <1>1, <1>2 DEF Advances, OnLine
<1>3. ASSUME mem' = mem
      PROVE  MemoryKept(w, v, k)
  BY <1>3 DEF MemoryKept, WordLaid, PatchLaid, CopyLaid, HalvesLaid, Byte
<1>4. CASE mtime = 0
  <2>1. AtWord(Lui(T0, w))
    BY <1>1, <1>4 DEF PatchText, AtWord
  <2>2. Writes(T0, Wrap(Immediate(Lui(T0, w))))
    BY <1>1, <1>4, <2>1, LuiRuns, Named
  <2>5. mtime' = 1 /\ OnLine(26)' /\ regs' = [regs EXCEPT ![T0] = Wrap(Immediate(Lui(T0, w)))] /\ fregs' = fregs /\ mem' = mem
    BY <1>2, <1>4, <2>2 DEF Writes
  <2>6. MemoryKept(w, v, k)
    BY <1>3, <2>5
  <2>7. /\ regs'[T0] = Wrap(Immediate(Lui(T0, w))) /\ regs'[T1] = regs[T1] /\ regs'[S0] = regs[S0] /\ regs'[A0] = regs[A0]
        /\ regs'[A1] = regs[A1] /\ regs'[A2] = regs[A2] /\ regs'[S2] = regs[S2] /\ regs'[S3] = regs[S3]
        /\ regs'[T3] = regs[T3] /\ regs'[T4] = regs[T4] /\ regs'[T2] = regs[T2] /\ regs'[T5] = regs[T5]
        /\ regs'[A3] = regs[A3] /\ regs'[A4] = regs[A4] /\ regs'[A5] = regs[A5]
    BY <1>1, <2>5, Named DEF Registers
  <2> QED BY <1>4, <2>5, <2>6, <2>7 DEF PatchFacts, MemoryKept
<1>5. CASE mtime = 1
  <2>1. AtWord(Addi(T0, w))
    BY <1>1, <1>5 DEF PatchText, AtWord
  <2>2. Writes(T0, w)
    BY <1>1, <1>5, <2>1, AddiRuns, Named DEF PatchFacts
  <2>5. mtime' = 2 /\ OnLine(26)' /\ regs' = [regs EXCEPT ![T0] = w] /\ fregs' = fregs /\ mem' = mem
    BY <1>2, <1>5, <2>2 DEF Writes
  <2>6. MemoryKept(w, v, k)
    BY <1>3, <2>5
  <2>7. /\ regs'[T0] = w /\ regs'[T1] = regs[T1] /\ regs'[S0] = regs[S0] /\ regs'[A0] = regs[A0]
        /\ regs'[A1] = regs[A1] /\ regs'[A2] = regs[A2] /\ regs'[S2] = regs[S2] /\ regs'[S3] = regs[S3]
        /\ regs'[T3] = regs[T3] /\ regs'[T4] = regs[T4] /\ regs'[T2] = regs[T2] /\ regs'[T5] = regs[T5]
        /\ regs'[A3] = regs[A3] /\ regs'[A4] = regs[A4] /\ regs'[A5] = regs[A5]
    BY <1>1, <2>5, Named DEF Registers
  <2> QED BY <1>5, <2>5, <2>6, <2>7 DEF PatchFacts, MemoryKept
<1>6. CASE mtime = 2
  <2>1. AtWord(Lui(T1, v))
    BY <1>1, <1>6 DEF PatchText, AtWord
  <2>2. Writes(T1, Wrap(Immediate(Lui(T1, v))))
    BY <1>1, <1>6, <2>1, LuiRuns, Named
  <2>5. mtime' = 3 /\ OnLine(26)' /\ regs' = [regs EXCEPT ![T1] = Wrap(Immediate(Lui(T1, v)))] /\ fregs' = fregs /\ mem' = mem
    BY <1>2, <1>6, <2>2 DEF Writes
  <2>6. MemoryKept(w, v, k)
    BY <1>3, <2>5
  <2>7. /\ regs'[T1] = Wrap(Immediate(Lui(T1, v))) /\ regs'[T0] = regs[T0] /\ regs'[S0] = regs[S0] /\ regs'[A0] = regs[A0]
        /\ regs'[A1] = regs[A1] /\ regs'[A2] = regs[A2] /\ regs'[S2] = regs[S2] /\ regs'[S3] = regs[S3]
        /\ regs'[T3] = regs[T3] /\ regs'[T4] = regs[T4] /\ regs'[T2] = regs[T2] /\ regs'[T5] = regs[T5]
        /\ regs'[A3] = regs[A3] /\ regs'[A4] = regs[A4] /\ regs'[A5] = regs[A5]
    BY <1>1, <2>5, Named DEF Registers
  <2> QED BY <1>6, <2>5, <2>6, <2>7 DEF PatchFacts, MemoryKept
<1>7. CASE mtime = 3
  <2>1. AtWord(Addi(T1, v))
    BY <1>1, <1>7 DEF PatchText, AtWord
  <2>2. Writes(T1, v)
    BY <1>1, <1>7, <2>1, AddiRuns, Named DEF PatchFacts
  <2>5. mtime' = 4 /\ OnLine(26)' /\ regs' = [regs EXCEPT ![T1] = v] /\ fregs' = fregs /\ mem' = mem
    BY <1>2, <1>7, <2>2 DEF Writes
  <2>6. MemoryKept(w, v, k)
    BY <1>3, <2>5
  <2>7. /\ regs'[T1] = v /\ regs'[T0] = regs[T0] /\ regs'[S0] = regs[S0] /\ regs'[A0] = regs[A0]
        /\ regs'[A1] = regs[A1] /\ regs'[A2] = regs[A2] /\ regs'[S2] = regs[S2] /\ regs'[S3] = regs[S3]
        /\ regs'[T3] = regs[T3] /\ regs'[T4] = regs[T4] /\ regs'[T2] = regs[T2] /\ regs'[T5] = regs[T5]
        /\ regs'[A3] = regs[A3] /\ regs'[A4] = regs[A4] /\ regs'[A5] = regs[A5]
    BY <1>1, <2>5, Named DEF Registers
  <2> QED BY <1>7, <2>5, <2>6, <2>7 DEF PatchFacts, MemoryKept
<1>8. CASE mtime = 4
  <2>1. AtWord(Lui(S0, DATA))
    BY <1>1, <1>8 DEF PatchText, AtWord
  <2>2. Writes(S0, Wrap(Immediate(Lui(S0, DATA))))
    BY <1>1, <1>8, <2>1, LuiRuns, Named
  <2>5. mtime' = 5 /\ OnLine(26)' /\ regs' = [regs EXCEPT ![S0] = Wrap(Immediate(Lui(S0, DATA)))] /\ fregs' = fregs /\ mem' = mem
    BY <1>2, <1>8, <2>2 DEF Writes
  <2>6. MemoryKept(w, v, k)
    BY <1>3, <2>5
  <2>7. /\ regs'[S0] = Wrap(Immediate(Lui(S0, DATA))) /\ regs'[T0] = regs[T0] /\ regs'[T1] = regs[T1] /\ regs'[A0] = regs[A0]
        /\ regs'[A1] = regs[A1] /\ regs'[A2] = regs[A2] /\ regs'[S2] = regs[S2] /\ regs'[S3] = regs[S3]
        /\ regs'[T3] = regs[T3] /\ regs'[T4] = regs[T4] /\ regs'[T2] = regs[T2] /\ regs'[T5] = regs[T5]
        /\ regs'[A3] = regs[A3] /\ regs'[A4] = regs[A4] /\ regs'[A5] = regs[A5]
    BY <1>1, <2>5, Named DEF Registers
  <2> QED BY <1>8, <2>5, <2>6, <2>7 DEF PatchFacts, MemoryKept
<1>9. CASE mtime = 5
  <2>1. AtWord(Addi(S0, DATA))
    BY <1>1, <1>9 DEF PatchText, AtWord
  <2>2. Writes(S0, DATA)
    BY <1>1, <1>9, <2>1, AddiRuns, Named DEF PatchFacts
  <2>5. mtime' = 6 /\ OnLine(26)' /\ regs' = [regs EXCEPT ![S0] = DATA] /\ fregs' = fregs /\ mem' = mem
    BY <1>2, <1>9, <2>2 DEF Writes
  <2>6. MemoryKept(w, v, k)
    BY <1>3, <2>5
  <2>7. /\ regs'[S0] = DATA /\ regs'[T0] = regs[T0] /\ regs'[T1] = regs[T1] /\ regs'[A0] = regs[A0]
        /\ regs'[A1] = regs[A1] /\ regs'[A2] = regs[A2] /\ regs'[S2] = regs[S2] /\ regs'[S3] = regs[S3]
        /\ regs'[T3] = regs[T3] /\ regs'[T4] = regs[T4] /\ regs'[T2] = regs[T2] /\ regs'[T5] = regs[T5]
        /\ regs'[A3] = regs[A3] /\ regs'[A4] = regs[A4] /\ regs'[A5] = regs[A5]
    BY <1>1, <2>5, Named DEF Registers
  <2> QED BY <1>9, <2>5, <2>6, <2>7 DEF PatchFacts, MemoryKept
<1>10. CASE mtime = 6
  <2>1. AtWord(enc_s(0, T0, S0, 2, OP_STORE))
    BY <1>1, <1>10 DEF PatchText, AtWord
  <2>2. regs[S0] = DATA /\ regs[T0] = w
    BY <1>10 DEF PatchFacts
  <2>b. BytesOf(2) = 4
    BY DEF BytesOf
  <2>3. Names(S0, 0, DATA + 0, 4)
    <3>1. 0 \in 0 .. 7 /\ (0) % 4 = 0 /\ (0) + 4 <= 8
      OBVIOUS
    <3> QED BY <2>2, <3>1, DataNames
  <2>n. Names(S0, 0, DATA + 0, BytesOf(2)) /\ 2 \in 0 .. 2 /\ T0 \in Registers /\ S0 \in Registers
    BY <2>b, <2>3, InRange
  <2>p. Puts(DATA + 0, 4, regs[T0])
    <3>1. Puts(DATA + 0, BytesOf(2), regs[T0])
      BY <2>1, <2>n, StoreRuns
    <3> QED BY <2>b, <3>1
  <2>4. Puts(DATA + 0, 4, w)
    BY <2>2, <2>p
  <2>5. mtime' = 7 /\ OnLine(26)' /\ regs' = regs /\ fregs' = fregs /\ mem' = Stored(DATA + 0, 4, w)
    BY <1>2, <1>10, <2>4 DEF Puts
  <2>6. /\ \A j \in 0 .. 4 - 1 : Byte((DATA + 0) + j)' = ByteOf(w, j)
        /\ \A x : x \notin (DATA + 0) .. (DATA + 0) + 4 - 1 => Byte(x)' = Byte(x)
    <3>1. DATA + 0 \in Int /\ 4 \in Int
      BY <1>1
    <3> QED BY <2>5, <3>1, StoredBytes DEF ByteOf, ByteBits
  <2>7. WordLaid(w)'
    <3>1. DATA + 0 = DATA
      BY <1>1
    <3> QED BY <2>6, <3>1 DEF WordLaid
  <2> QED BY <1>1, <1>10, <2>5, <2>7 DEF PatchFacts
<1>11. CASE mtime = 7
  <2>1. AtWord(enc_s(k, T1, S0, 0, OP_STORE))
    BY <1>1, <1>11 DEF PatchText, AtWord
  <2>2. regs[S0] = DATA /\ regs[T1] = v /\ WordLaid(w)
    BY <1>11 DEF PatchFacts
  <2>b. BytesOf(0) = 1
    BY DEF BytesOf
  <2>3. Names(S0, k, DATA + k, 1)
    <3>1. k \in 0 .. 7 /\ (k) % 1 = 0 /\ (k) + 1 <= 8
      OBVIOUS
    <3> QED BY <2>2, <3>1, DataNames
  <2>n. Names(S0, k, DATA + k, BytesOf(0)) /\ 0 \in 0 .. 2 /\ T1 \in Registers /\ S0 \in Registers
    BY <2>b, <2>3, InRange
  <2>p. Puts(DATA + k, 1, regs[T1])
    <3>1. Puts(DATA + k, BytesOf(0), regs[T1])
      BY <2>1, <2>n, StoreRuns
    <3> QED BY <2>b, <3>1
  <2>4. Puts(DATA + k, 1, v)
    BY <2>2, <2>p
  <2>5. mtime' = 8 /\ OnLine(26)' /\ regs' = regs /\ fregs' = fregs /\ mem' = Stored(DATA + k, 1, v)
    BY <1>2, <1>11, <2>4 DEF Puts
  <2>6. /\ \A j \in 0 .. 1 - 1 : Byte((DATA + k) + j)' = ByteOf(v, j)
        /\ \A x : x \notin (DATA + k) .. (DATA + k) + 1 - 1 => Byte(x)' = Byte(x)
    <3>1. DATA + k \in Int /\ 1 \in Int
      BY <1>1
    <3> QED BY <2>5, <3>1, StoredBytes DEF ByteOf, ByteBits
  <2>7. PatchLaid(w, v, k)'
    <3> SUFFICES ASSUME NEW j \in 0 .. 3 PROVE Byte(DATA + j)' = PatchedByte(w, v, k, j)
      BY DEF PatchLaid
    <3>1. CASE j = k
      <4>1. (DATA + k) + 0 = DATA + k /\ 0 \in 0 .. 1 - 1
        BY <1>1
      <4>2. Byte((DATA + k) + 0)' = ByteOf(v, 0)
        BY <2>6, <4>1
      <4> QED BY <3>1, <4>1, <4>2, PatchedParts
    <3>2. CASE j # k
      <4>1. DATA + j \notin (DATA + k) .. (DATA + k) + 1 - 1
        BY <1>1, <3>2
      <4> QED BY <2>2, <2>6, <3>2, <4>1 DEF WordLaid, PatchedByte
    <3> QED BY <3>1, <3>2
  <2> QED BY <1>1, <1>11, <2>5, <2>7 DEF PatchFacts
<1>12. CASE mtime = 8
  <2>1. AtWord(enc_i(0, S0, 2, A0, OP_LOAD))
    BY <1>1, <1>12 DEF PatchText, AtWord
  <2>2. regs[S0] = DATA /\ BytesOf(2) = 4
    BY <1>12 DEF PatchFacts, BytesOf
  <2>3. Names(S0, 0, DATA + 0, 4)
    <3>1. 0 \in 0 .. 7 /\ (0) % 4 = 0 /\ (0) + 4 <= 8
      OBVIOUS
    <3> QED BY <2>2, <3>1, DataNames
  <2>4. Writes(A0, SignExtended(Value(DATA + 0, 4), 4))
    BY <2>1, <2>2, <2>3, LoadRuns, InRange
  <2>v. Value(DATA + 0, 4) = Patched(w, v, k)
    <3>1. PatchLaid(w, v, k)
      BY <1>12 DEF PatchFacts
    <3>2. /\ Byte(DATA + 0) = PatchedByte(w, v, k, 0) /\ Byte((DATA + 0) + 1) = PatchedByte(w, v, k, 1)
          /\ Byte((DATA + 0) + 2) = PatchedByte(w, v, k, 2) /\ Byte((DATA + 0) + 3) = PatchedByte(w, v, k, 3)
      <4>1. DATA + 0 = DATA
        BY <1>1
      <4> QED BY <3>1, <4>1 DEF PatchLaid
    <3> QED BY <3>2, ByteSizes DEF Value, Patched, Four, Pair
  <2>s. SignExtended(Value(DATA + 0, 4), 4) = Value(DATA + 0, 4)
    BY <2>v, PatchedWhole
  <2>z. Writes(A0, Patched(w, v, k))
    BY <2>4, <2>v, <2>s
  <2>5. mtime' = 9 /\ OnLine(26)' /\ regs' = [regs EXCEPT ![A0] = Patched(w, v, k)] /\ fregs' = fregs /\ mem' = mem
    BY <1>2, <1>12, <2>z DEF Writes
  <2>6. MemoryKept(w, v, k)
    BY <1>3, <2>5
  <2>7. /\ regs'[A0] = Patched(w, v, k) /\ regs'[T0] = regs[T0] /\ regs'[T1] = regs[T1] /\ regs'[S0] = regs[S0]
        /\ regs'[A1] = regs[A1] /\ regs'[A2] = regs[A2] /\ regs'[S2] = regs[S2] /\ regs'[S3] = regs[S3]
        /\ regs'[T3] = regs[T3] /\ regs'[T4] = regs[T4] /\ regs'[T2] = regs[T2] /\ regs'[T5] = regs[T5]
        /\ regs'[A3] = regs[A3] /\ regs'[A4] = regs[A4] /\ regs'[A5] = regs[A5]
    BY <1>1, <2>5, Named DEF Registers
  <2> QED BY <1>12, <2>5, <2>6, <2>7 DEF PatchFacts, MemoryKept
<1>13. CASE mtime = 9
  <2>1. AtWord(enc_i(0, S0, 5, A1, OP_LOAD))
    BY <1>1, <1>13 DEF PatchText, AtWord
  <2>2. regs[S0] = DATA /\ BytesOf(5) = 2
    BY <1>13 DEF PatchFacts, BytesOf
  <2>3. Names(S0, 0, DATA + 0, 2)
    <3>1. 0 \in 0 .. 7 /\ (0) % 2 = 0 /\ (0) + 2 <= 8
      OBVIOUS
    <3> QED BY <2>2, <3>1, DataNames
  <2>4. Writes(A1, Value(DATA + 0, 2))
    BY <2>1, <2>2, <2>3, LoadRuns, InRange
  <2>v. Value(DATA + 0, 2) = PatchedLow(w, v, k)
    <3>1. PatchLaid(w, v, k)
      BY <1>13 DEF PatchFacts
    <3>2. Byte(DATA + 0) = PatchedByte(w, v, k, 0) /\ Byte((DATA + 0) + 1) = PatchedByte(w, v, k, 1)
      <4>1. DATA + 0 = DATA /\ (DATA + 0) + 1 = DATA + 1
        BY <1>1
      <4> QED BY <3>1, <4>1 DEF PatchLaid
    <3>3. PatchedByte(w, v, k, 0) \in Int /\ PatchedByte(w, v, k, 1) \in Int /\ ByteSize \in Int
      BY PatchedParts, ByteSizes
    <3>4. ByteSize * PatchedByte(w, v, k, 1) \in Int
      BY <3>3
    <3> QED BY <3>2, <3>3, <3>4 DEF Value, PatchedLow, Pair
  <2>z. Writes(A1, PatchedLow(w, v, k))
    BY <2>4, <2>v
  <2>5. mtime' = 10 /\ OnLine(26)' /\ regs' = [regs EXCEPT ![A1] = PatchedLow(w, v, k)] /\ fregs' = fregs /\ mem' = mem
    BY <1>2, <1>13, <2>z DEF Writes
  <2>6. MemoryKept(w, v, k)
    BY <1>3, <2>5
  <2>7. /\ regs'[A1] = PatchedLow(w, v, k) /\ regs'[T0] = regs[T0] /\ regs'[T1] = regs[T1] /\ regs'[S0] = regs[S0]
        /\ regs'[A0] = regs[A0] /\ regs'[A2] = regs[A2] /\ regs'[S2] = regs[S2] /\ regs'[S3] = regs[S3]
        /\ regs'[T3] = regs[T3] /\ regs'[T4] = regs[T4] /\ regs'[T2] = regs[T2] /\ regs'[T5] = regs[T5]
        /\ regs'[A3] = regs[A3] /\ regs'[A4] = regs[A4] /\ regs'[A5] = regs[A5]
    BY <1>1, <2>5, Named DEF Registers
  <2> QED BY <1>13, <2>5, <2>6, <2>7 DEF PatchFacts, MemoryKept
<1>14. CASE mtime = 10
  <2>1. AtWord(enc_i(2, S0, 5, A2, OP_LOAD))
    BY <1>1, <1>14 DEF PatchText, AtWord
  <2>2. regs[S0] = DATA /\ BytesOf(5) = 2
    BY <1>14 DEF PatchFacts, BytesOf
  <2>3. Names(S0, 2, DATA + 2, 2)
    <3>1. 2 \in 0 .. 7 /\ (2) % 2 = 0 /\ (2) + 2 <= 8
      OBVIOUS
    <3> QED BY <2>2, <3>1, DataNames
  <2>4. Writes(A2, Value(DATA + 2, 2))
    BY <2>1, <2>2, <2>3, LoadRuns, InRange
  <2>v. Value(DATA + 2, 2) = PatchedHigh(w, v, k)
    <3>1. PatchLaid(w, v, k)
      BY <1>14 DEF PatchFacts
    <3>2. Byte(DATA + 2) = PatchedByte(w, v, k, 2) /\ Byte((DATA + 2) + 1) = PatchedByte(w, v, k, 3)
      <4>1. DATA + 0 = DATA /\ (DATA + 2) + 1 = DATA + 3
        BY <1>1
      <4> QED BY <3>1, <4>1 DEF PatchLaid
    <3>3. PatchedByte(w, v, k, 2) \in Int /\ PatchedByte(w, v, k, 3) \in Int /\ ByteSize \in Int
      BY PatchedParts, ByteSizes
    <3>4. ByteSize * PatchedByte(w, v, k, 3) \in Int
      BY <3>3
    <3> QED BY <3>2, <3>3, <3>4 DEF Value, PatchedHigh, Pair
  <2>z. Writes(A2, PatchedHigh(w, v, k))
    BY <2>4, <2>v
  <2>5. mtime' = 11 /\ OnLine(26)' /\ regs' = [regs EXCEPT ![A2] = PatchedHigh(w, v, k)] /\ fregs' = fregs /\ mem' = mem
    BY <1>2, <1>14, <2>z DEF Writes
  <2>6. MemoryKept(w, v, k)
    BY <1>3, <2>5
  <2>7. /\ regs'[A2] = PatchedHigh(w, v, k) /\ regs'[T0] = regs[T0] /\ regs'[T1] = regs[T1] /\ regs'[S0] = regs[S0]
        /\ regs'[A0] = regs[A0] /\ regs'[A1] = regs[A1] /\ regs'[S2] = regs[S2] /\ regs'[S3] = regs[S3]
        /\ regs'[T3] = regs[T3] /\ regs'[T4] = regs[T4] /\ regs'[T2] = regs[T2] /\ regs'[T5] = regs[T5]
        /\ regs'[A3] = regs[A3] /\ regs'[A4] = regs[A4] /\ regs'[A5] = regs[A5]
    BY <1>1, <2>5, Named DEF Registers
  <2> QED BY <1>14, <2>5, <2>6, <2>7 DEF PatchFacts, MemoryKept
<1>15. CASE mtime = 11
  <2>1. AtWord(enc_i(2, S0, 1, S2, OP_LOAD))
    BY <1>1, <1>15 DEF PatchText, AtWord
  <2>2. regs[S0] = DATA /\ BytesOf(1) = 2
    BY <1>15 DEF PatchFacts, BytesOf
  <2>3. Names(S0, 2, DATA + 2, 2)
    <3>1. 2 \in 0 .. 7 /\ (2) % 2 = 0 /\ (2) + 2 <= 8
      OBVIOUS
    <3> QED BY <2>2, <3>1, DataNames
  <2>4. Writes(S2, SignExtended(Value(DATA + 2, 2), 2))
    BY <2>1, <2>2, <2>3, LoadRuns, InRange
  <2>v. Value(DATA + 2, 2) = PatchedHigh(w, v, k)
    <3>1. PatchLaid(w, v, k)
      BY <1>15 DEF PatchFacts
    <3>2. Byte(DATA + 2) = PatchedByte(w, v, k, 2) /\ Byte((DATA + 2) + 1) = PatchedByte(w, v, k, 3)
      <4>1. DATA + 0 = DATA /\ (DATA + 2) + 1 = DATA + 3
        BY <1>1
      <4> QED BY <3>1, <4>1 DEF PatchLaid
    <3>3. PatchedByte(w, v, k, 2) \in Int /\ PatchedByte(w, v, k, 3) \in Int /\ ByteSize \in Int
      BY PatchedParts, ByteSizes
    <3>4. ByteSize * PatchedByte(w, v, k, 3) \in Int
      BY <3>3
    <3> QED BY <3>2, <3>3, <3>4 DEF Value, PatchedHigh, Pair
  <2>z. Writes(S2, SignExtended(PatchedHigh(w, v, k), 2))
    BY <2>4, <2>v
  <2>5. mtime' = 12 /\ OnLine(26)' /\ regs' = [regs EXCEPT ![S2] = SignExtended(PatchedHigh(w, v, k), 2)] /\ fregs' = fregs /\ mem' = mem
    BY <1>2, <1>15, <2>z DEF Writes
  <2>6. MemoryKept(w, v, k)
    BY <1>3, <2>5
  <2>7. /\ regs'[S2] = SignExtended(PatchedHigh(w, v, k), 2) /\ regs'[T0] = regs[T0] /\ regs'[T1] = regs[T1] /\ regs'[S0] = regs[S0]
        /\ regs'[A0] = regs[A0] /\ regs'[A1] = regs[A1] /\ regs'[A2] = regs[A2] /\ regs'[S3] = regs[S3]
        /\ regs'[T3] = regs[T3] /\ regs'[T4] = regs[T4] /\ regs'[T2] = regs[T2] /\ regs'[T5] = regs[T5]
        /\ regs'[A3] = regs[A3] /\ regs'[A4] = regs[A4] /\ regs'[A5] = regs[A5]
    BY <1>1, <2>5, Named DEF Registers
  <2> QED BY <1>15, <2>5, <2>6, <2>7 DEF PatchFacts, MemoryKept
<1>16. CASE mtime = 12
  <2>1. AtWord(enc_i(k, S0, 0, S3, OP_LOAD))
    BY <1>1, <1>16 DEF PatchText, AtWord
  <2>2. regs[S0] = DATA /\ BytesOf(0) = 1
    BY <1>16 DEF PatchFacts, BytesOf
  <2>3. Names(S0, k, DATA + k, 1)
    <3>1. k \in 0 .. 7 /\ (k) % 1 = 0 /\ (k) + 1 <= 8
      OBVIOUS
    <3> QED BY <2>2, <3>1, DataNames
  <2>4. Writes(S3, SignExtended(Value(DATA + k, 1), 1))
    BY <2>1, <2>2, <2>3, LoadRuns, InRange
  <2>v. Value(DATA + k, 1) = NewByte(v)
    <3>1. PatchLaid(w, v, k)
      BY <1>16 DEF PatchFacts
    <3>2. Byte(DATA + k) = PatchedByte(w, v, k, k)
      BY <3>1 DEF PatchLaid
    <3>3. PatchedByte(w, v, k, k) \in Int /\ PatchedByte(w, v, k, k) = NewByte(v)
      BY PatchedParts, ByteSizes DEF NewByte
    <3> QED BY <3>2, <3>3 DEF Value
  <2>z. Writes(S3, SignExtended(NewByte(v), 1))
    BY <2>4, <2>v
  <2>5. mtime' = 13 /\ OnLine(26)' /\ regs' = [regs EXCEPT ![S3] = SignExtended(NewByte(v), 1)] /\ fregs' = fregs /\ mem' = mem
    BY <1>2, <1>16, <2>z DEF Writes
  <2>6. MemoryKept(w, v, k)
    BY <1>3, <2>5
  <2>7. /\ regs'[S3] = SignExtended(NewByte(v), 1) /\ regs'[T0] = regs[T0] /\ regs'[T1] = regs[T1] /\ regs'[S0] = regs[S0]
        /\ regs'[A0] = regs[A0] /\ regs'[A1] = regs[A1] /\ regs'[A2] = regs[A2] /\ regs'[S2] = regs[S2]
        /\ regs'[T3] = regs[T3] /\ regs'[T4] = regs[T4] /\ regs'[T2] = regs[T2] /\ regs'[T5] = regs[T5]
        /\ regs'[A3] = regs[A3] /\ regs'[A4] = regs[A4] /\ regs'[A5] = regs[A5]
    BY <1>1, <2>5, Named DEF Registers
  <2> QED BY <1>16, <2>5, <2>6, <2>7 DEF PatchFacts, MemoryKept
<1>17. CASE mtime = 13
  <2>1. AtWord(enc_i(0, S0, 2, 1, OP_LOAD_FP))
    BY <1>1, <1>17 DEF PatchText, AtWord
  <2>2. regs[S0] = DATA /\ PatchLaid(w, v, k)
    BY <1>17 DEF PatchFacts
  <2>3. Names(S0, 0, DATA + 0, 4)
    BY <2>2, DataNames
  <2>4. Advances /\ fregs' = [fregs EXCEPT ![1] = Value(DATA + 0, 4)] /\ regs' = regs /\ mem' = mem
    <3>1. S0 \in Registers /\ 1 \in Registers
      BY InRange, NamedCodes
    <3> QED BY <2>1, <2>3, <3>1, FpLoadRuns
  <2>v. Value(DATA + 0, 4) = Patched(w, v, k)
    <3>2. /\ Byte(DATA + 0) = PatchedByte(w, v, k, 0) /\ Byte((DATA + 0) + 1) = PatchedByte(w, v, k, 1)
          /\ Byte((DATA + 0) + 2) = PatchedByte(w, v, k, 2) /\ Byte((DATA + 0) + 3) = PatchedByte(w, v, k, 3)
      <4>1. DATA + 0 = DATA
        BY <1>1
      <4> QED BY <2>2, <4>1 DEF PatchLaid
    <3> QED BY <3>2, ByteSizes DEF Value, Patched, Four, Pair
  <2>z. Advances /\ fregs' = [fregs EXCEPT ![1] = Patched(w, v, k)] /\ regs' = regs /\ mem' = mem
    BY <2>4, <2>v
  <2>5. mtime' = 14 /\ OnLine(26)' /\ regs' = regs /\ fregs' = [fregs EXCEPT ![1] = Patched(w, v, k)] /\ mem' = mem
    BY <1>2, <1>17, <2>z
  <2>6. MemoryKept(w, v, k)
    BY <1>3, <2>5
  <2>7. /\ fregs'[1] = Patched(w, v, k) /\ regs'[T0] = regs[T0] /\ regs'[T1] = regs[T1] /\ regs'[S0] = regs[S0]
        /\ regs'[A0] = regs[A0] /\ regs'[A1] = regs[A1] /\ regs'[A2] = regs[A2] /\ regs'[S2] = regs[S2]
        /\ regs'[S3] = regs[S3] /\ regs'[T3] = regs[T3] /\ regs'[T4] = regs[T4] /\ regs'[T2] = regs[T2]
        /\ regs'[T5] = regs[T5] /\ regs'[A3] = regs[A3] /\ regs'[A4] = regs[A4] /\ regs'[A5] = regs[A5]
    BY <1>1, <2>5 DEF Registers
  <2> QED BY <1>17, <2>5, <2>6, <2>7 DEF PatchFacts, MemoryKept
<1>18. CASE mtime = 14
  <2>1. AtWord(enc_s(4, 1, S0, 2, OP_STORE_FP))
    BY <1>1, <1>18 DEF PatchText, AtWord
  <2>2. regs[S0] = DATA /\ fregs[1] = Patched(w, v, k)
    BY <1>18 DEF PatchFacts
  <2>3. Names(S0, 4, DATA + 4, 4)
    <3>1. 4 \in 0 .. 7 /\ (4) % 4 = 0 /\ (4) + 4 <= 8
      OBVIOUS
    <3> QED BY <2>2, <3>1, DataNames
  <2>p. Puts(DATA + 4, 4, fregs[1])
    <3>1. S0 \in Registers /\ 1 \in Registers
      BY InRange, NamedCodes
    <3> QED BY <2>1, <2>3, <3>1, FpStoreRuns
  <2>4. Puts(DATA + 4, 4, Patched(w, v, k))
    BY <2>2, <2>p
  <2>5. mtime' = 15 /\ OnLine(26)' /\ regs' = regs /\ fregs' = fregs /\ mem' = Stored(DATA + 4, 4, Patched(w, v, k))
    BY <1>2, <1>18, <2>4 DEF Puts
  <2>6. /\ \A j \in 0 .. 4 - 1 : Byte((DATA + 4) + j)' = ByteOf(Patched(w, v, k), j)
        /\ \A x : x \notin (DATA + 4) .. (DATA + 4) + 4 - 1 => Byte(x)' = Byte(x)
    <3> DEFINE x == DATA + 4
               val == Patched(w, v, k)
    <3>1. x \in Int /\ 4 \in Int /\ mem' = Stored(x, 4, val)
      BY <1>1, <2>5
    <3> HIDE DEF x, val
    <3>2. /\ \A j \in 0 .. 4 - 1 : Byte(x + j)' = (val \div Pow2[(XLEN \div 4) * j]) % ByteSize
          /\ \A y : y \notin x .. x + 4 - 1 => Byte(y)' = Byte(y)
      BY ONLY <3>1, StoredBytes
    <3>3. /\ \A j \in 0 .. 4 - 1 : Byte(x + j)' = ByteOf(val, j)
          /\ \A y : y \notin x .. x + 4 - 1 => Byte(y)' = Byte(y)
      BY ONLY <3>2 DEF ByteOf, ByteBits
    <3> QED BY ONLY <3>3 DEF x, val
  <2>7. CopyLaid(w, v, k)'
    BY <2>6, PatchedParts DEF CopyLaid
  <2> QED BY <1>1, <1>18, <2>5, <2>7 DEF PatchFacts
<1>19. CASE mtime = 15
  <2>1. AtWord(enc_i(4 + k, S0, 4, T3, OP_LOAD))
    BY <1>1, <1>19 DEF PatchText, AtWord
  <2>2. regs[S0] = DATA /\ BytesOf(4) = 1
    BY <1>19 DEF PatchFacts, BytesOf
  <2>3. Names(S0, 4 + k, DATA + (4 + k), 1)
    <3>1. 4 + k \in 0 .. 7 /\ (4 + k) % 1 = 0 /\ (4 + k) + 1 <= 8
      OBVIOUS
    <3> QED BY <2>2, <3>1, DataNames
  <2>4. Writes(T3, Value(DATA + (4 + k), 1))
    BY <2>1, <2>2, <2>3, LoadRuns, InRange
  <2>v. Value(DATA + (4 + k), 1) = NewByte(v)
    <3>1. CopyLaid(w, v, k)
      BY <1>19 DEF PatchFacts
    <3>2. Byte(DATA + (4 + k)) = PatchedByte(w, v, k, k)
      <4>1. DATA + (4 + k) = (DATA + 4) + k
        BY <1>1
      <4> QED BY <3>1, <4>1 DEF CopyLaid
    <3>3. PatchedByte(w, v, k, k) \in Int /\ PatchedByte(w, v, k, k) = NewByte(v)
      BY PatchedParts, ByteSizes DEF NewByte
    <3> QED BY <3>2, <3>3 DEF Value
  <2>z. Writes(T3, NewByte(v))
    BY <2>4, <2>v
  <2>5. mtime' = 16 /\ OnLine(26)' /\ regs' = [regs EXCEPT ![T3] = NewByte(v)] /\ fregs' = fregs /\ mem' = mem
    BY <1>2, <1>19, <2>z DEF Writes
  <2>6. MemoryKept(w, v, k)
    BY <1>3, <2>5
  <2>7. /\ regs'[T3] = NewByte(v) /\ regs'[T0] = regs[T0] /\ regs'[T1] = regs[T1] /\ regs'[S0] = regs[S0]
        /\ regs'[A0] = regs[A0] /\ regs'[A1] = regs[A1] /\ regs'[A2] = regs[A2] /\ regs'[S2] = regs[S2]
        /\ regs'[S3] = regs[S3] /\ regs'[T4] = regs[T4] /\ regs'[T2] = regs[T2] /\ regs'[T5] = regs[T5]
        /\ regs'[A3] = regs[A3] /\ regs'[A4] = regs[A4] /\ regs'[A5] = regs[A5]
    BY <1>1, <2>5, Named DEF Registers
  <2> QED BY <1>19, <2>5, <2>6, <2>7 DEF PatchFacts, MemoryKept
<1>20. CASE mtime = 16
  <2>1. AtWord(enc_s(4, A2, S0, 1, OP_STORE))
    BY <1>1, <1>20 DEF PatchText, AtWord
  <2>2. regs[S0] = DATA /\ regs[A2] = PatchedHigh(w, v, k) /\ CopyLaid(w, v, k)
    BY <1>20 DEF PatchFacts
  <2>b. BytesOf(1) = 2
    BY DEF BytesOf
  <2>3. Names(S0, 4, DATA + 4, 2)
    <3>1. 4 \in 0 .. 7 /\ (4) % 2 = 0 /\ (4) + 2 <= 8
      OBVIOUS
    <3> QED BY <2>2, <3>1, DataNames
  <2>n. Names(S0, 4, DATA + 4, BytesOf(1)) /\ 1 \in 0 .. 2 /\ A2 \in Registers /\ S0 \in Registers
    BY <2>b, <2>3, InRange
  <2>p. Puts(DATA + 4, 2, regs[A2])
    <3>1. Puts(DATA + 4, BytesOf(1), regs[A2])
      BY <2>1, <2>n, StoreRuns
    <3> QED BY <2>b, <3>1
  <2>4. Puts(DATA + 4, 2, PatchedHigh(w, v, k))
    BY <2>2, <2>p
  <2>5. mtime' = 17 /\ OnLine(26)' /\ regs' = regs /\ fregs' = fregs /\ mem' = Stored(DATA + 4, 2, PatchedHigh(w, v, k))
    BY <1>2, <1>20, <2>4 DEF Puts
  <2>6. /\ \A j \in 0 .. 2 - 1 : Byte((DATA + 4) + j)' = ByteOf(PatchedHigh(w, v, k), j)
        /\ \A x : x \notin (DATA + 4) .. (DATA + 4) + 2 - 1 => Byte(x)' = Byte(x)
    <3>1. DATA + 4 \in Int /\ 2 \in Int
      BY <1>1
    <3> QED BY <2>5, <3>1, StoredBytes DEF ByteOf, ByteBits
  <2>7. HalvesLaid(w, v, k)'
    <3>1. /\ (DATA + 4) + 0 = DATA + 4 /\ 0 \in 0 .. 2 - 1 /\ 1 \in 0 .. 2 - 1
          /\ (DATA + 4) + 2 \notin (DATA + 4) .. (DATA + 4) + 2 - 1 /\ (DATA + 4) + 3 \notin (DATA + 4) .. (DATA + 4) + 2 - 1
      BY <1>1
    <3>2. Byte((DATA + 4) + 0)' = ByteOf(PatchedHigh(w, v, k), 0) /\ Byte((DATA + 4) + 1)' = ByteOf(PatchedHigh(w, v, k), 1)
      BY <2>6, <3>1
    <3>3. Byte((DATA + 4) + 2)' = Byte((DATA + 4) + 2) /\ Byte((DATA + 4) + 3)' = Byte((DATA + 4) + 3)
      BY <2>6, <3>1
    <3> QED BY <2>2, <3>1, <3>2, <3>3, PatchedParts DEF CopyLaid, HalvesLaid
  <2> QED BY <1>1, <1>20, <2>5, <2>7 DEF PatchFacts
<1>21. CASE mtime = 17
  <2>1. AtWord(enc_i(4, S0, 2, T4, OP_LOAD))
    BY <1>1, <1>21 DEF PatchText, AtWord
  <2>2. regs[S0] = DATA /\ BytesOf(2) = 4
    BY <1>21 DEF PatchFacts, BytesOf
  <2>3. Names(S0, 4, DATA + 4, 4)
    <3>1. 4 \in 0 .. 7 /\ (4) % 4 = 0 /\ (4) + 4 <= 8
      OBVIOUS
    <3> QED BY <2>2, <3>1, DataNames
  <2>4. Writes(T4, SignExtended(Value(DATA + 4, 4), 4))
    BY <2>1, <2>2, <2>3, LoadRuns, InRange
  <2>v. Value(DATA + 4, 4) = Doubled(w, v, k)
    <3>1. HalvesLaid(w, v, k)
      BY <1>21 DEF PatchFacts
    <3> QED BY <3>1, ByteSizes DEF Value, HalvesLaid, PatchedHigh, Pair, Doubled
  <2>s. SignExtended(Value(DATA + 4, 4), 4) = Value(DATA + 4, 4)
    BY <2>v, PatchedWhole
  <2>z. Writes(T4, Doubled(w, v, k))
    BY <2>4, <2>v, <2>s
  <2>5. mtime' = 18 /\ OnLine(26)' /\ regs' = [regs EXCEPT ![T4] = Doubled(w, v, k)] /\ fregs' = fregs /\ mem' = mem
    BY <1>2, <1>21, <2>z DEF Writes
  <2>6. MemoryKept(w, v, k)
    BY <1>3, <2>5
  <2>7. /\ regs'[T4] = Doubled(w, v, k) /\ regs'[T0] = regs[T0] /\ regs'[T1] = regs[T1] /\ regs'[S0] = regs[S0]
        /\ regs'[A0] = regs[A0] /\ regs'[A1] = regs[A1] /\ regs'[A2] = regs[A2] /\ regs'[S2] = regs[S2]
        /\ regs'[S3] = regs[S3] /\ regs'[T3] = regs[T3] /\ regs'[T2] = regs[T2] /\ regs'[T5] = regs[T5]
        /\ regs'[A3] = regs[A3] /\ regs'[A4] = regs[A4] /\ regs'[A5] = regs[A5]
    BY <1>1, <2>5, Named DEF Registers
  <2> QED BY <1>21, <2>5, <2>6, <2>7 DEF PatchFacts, MemoryKept
<1>22. CASE mtime = 18
  <2>1. AtWord(enc_i(k * ByteBits, 0, 0, T2, OP_ALUI))
    BY <1>1, <1>22 DEF PatchText, AtWord
  <2>2. k * ByteBits \in Int /\ -2048 <= k * ByteBits /\ k * ByteBits < 2048 /\ Wrap(0 + Wrap(k * ByteBits)) = k * ByteBits
    BY ShiftCounts DEF ShiftCount
  <2>3. Writes(T2, Wrap(regs[0] + Wrap(k * ByteBits)))
    <3>1. T2 \in 1 .. 31 /\ 0 \in Registers
      BY InRange, NamedCodes
    <3> QED BY <2>1, <2>2, <3>1, AddRuns
  <2>z. Writes(T2, Distance(k))
    BY <1>1, <2>2, <2>3 DEF Distance
  <2>5. mtime' = 19 /\ OnLine(26)' /\ regs' = [regs EXCEPT ![T2] = Distance(k)] /\ fregs' = fregs /\ mem' = mem
    BY <1>2, <1>22, <2>z DEF Writes
  <2>6. MemoryKept(w, v, k)
    BY <1>3, <2>5
  <2>7. /\ regs'[T2] = Distance(k) /\ regs'[T0] = regs[T0] /\ regs'[T1] = regs[T1] /\ regs'[S0] = regs[S0]
        /\ regs'[A0] = regs[A0] /\ regs'[A1] = regs[A1] /\ regs'[A2] = regs[A2] /\ regs'[S2] = regs[S2]
        /\ regs'[S3] = regs[S3] /\ regs'[T3] = regs[T3] /\ regs'[T4] = regs[T4] /\ regs'[T5] = regs[T5]
        /\ regs'[A3] = regs[A3] /\ regs'[A4] = regs[A4] /\ regs'[A5] = regs[A5]
    BY <1>1, <2>5, Named DEF Registers
  <2> QED BY <1>22, <2>5, <2>6, <2>7 DEF PatchFacts, MemoryKept
<1>23. CASE mtime = 19
  <2>1. AtWord(enc_r(0, T2, A0, 5, T5, OP_ALU))
    BY <1>1, <1>23 DEF PatchText, AtWord
  <2>2. 0 \in Codes7 /\ 5 \in Codes3
    BY DEF Codes7, Codes3
  <2>3. Writes(T5, op_alu(0, 5, regs[A0], regs[T2]))
    BY <2>1, <2>2, OpRuns, InRange
  <2>4. regs[A0] = Patched(w, v, k) /\ regs[T2] = Distance(k) /\ (Distance(k)) % XLEN = Distance(k)
    BY <1>23, ShiftCounts DEF PatchFacts, ShiftCount, Distance
  <2>v. op_alu(0, 5, regs[A0], regs[T2]) = Moved(w, v, k)
    BY <2>4 DEF op_alu, Arith, ShiftRight, Moved
  <2>z. Writes(T5, Moved(w, v, k))
    BY <2>3, <2>v
  <2>5. mtime' = 20 /\ OnLine(26)' /\ regs' = [regs EXCEPT ![T5] = Moved(w, v, k)] /\ fregs' = fregs /\ mem' = mem
    BY <1>2, <1>23, <2>z DEF Writes
  <2>6. MemoryKept(w, v, k)
    BY <1>3, <2>5
  <2>7. /\ regs'[T5] = Moved(w, v, k) /\ regs'[T0] = regs[T0] /\ regs'[T1] = regs[T1] /\ regs'[S0] = regs[S0]
        /\ regs'[A0] = regs[A0] /\ regs'[A1] = regs[A1] /\ regs'[A2] = regs[A2] /\ regs'[S2] = regs[S2]
        /\ regs'[S3] = regs[S3] /\ regs'[T3] = regs[T3] /\ regs'[T4] = regs[T4] /\ regs'[T2] = regs[T2]
        /\ regs'[A3] = regs[A3] /\ regs'[A4] = regs[A4] /\ regs'[A5] = regs[A5]
    BY <1>1, <2>5, Named DEF Registers
  <2> QED BY <1>23, <2>5, <2>6, <2>7 DEF PatchFacts, MemoryKept
<1>24. CASE mtime = 20
  <2>1. AtWord(enc_i(XLEN - (k + 1) * ByteBits, 0, 0, T2, OP_ALUI))
    BY <1>1, <1>24 DEF PatchText, AtWord
  <2>2. XLEN - (k + 1) * ByteBits \in Int /\ -2048 <= XLEN - (k + 1) * ByteBits /\ XLEN - (k + 1) * ByteBits < 2048 /\ Wrap(0 + Wrap(XLEN - (k + 1) * ByteBits)) = XLEN - (k + 1) * ByteBits
    BY ShiftCounts DEF ShiftCount
  <2>3. Writes(T2, Wrap(regs[0] + Wrap(XLEN - (k + 1) * ByteBits)))
    <3>1. T2 \in 1 .. 31 /\ 0 \in Registers
      BY InRange, NamedCodes
    <3> QED BY <2>1, <2>2, <3>1, AddRuns
  <2>z. Writes(T2, Room(k))
    BY <1>1, <2>2, <2>3 DEF Room
  <2>5. mtime' = 21 /\ OnLine(26)' /\ regs' = [regs EXCEPT ![T2] = Room(k)] /\ fregs' = fregs /\ mem' = mem
    BY <1>2, <1>24, <2>z DEF Writes
  <2>6. MemoryKept(w, v, k)
    BY <1>3, <2>5
  <2>7. /\ regs'[T2] = Room(k) /\ regs'[T0] = regs[T0] /\ regs'[T1] = regs[T1] /\ regs'[S0] = regs[S0]
        /\ regs'[A0] = regs[A0] /\ regs'[A1] = regs[A1] /\ regs'[A2] = regs[A2] /\ regs'[S2] = regs[S2]
        /\ regs'[S3] = regs[S3] /\ regs'[T3] = regs[T3] /\ regs'[T4] = regs[T4] /\ regs'[T5] = regs[T5]
        /\ regs'[A3] = regs[A3] /\ regs'[A4] = regs[A4] /\ regs'[A5] = regs[A5]
    BY <1>1, <2>5, Named DEF Registers
  <2> QED BY <1>24, <2>5, <2>6, <2>7 DEF PatchFacts, MemoryKept
<1>25. CASE mtime = 21
  <2>1. AtWord(enc_r(0, T2, A0, 1, A3, OP_ALU))
    BY <1>1, <1>25 DEF PatchText, AtWord
  <2>2. 0 \in Codes7 /\ 1 \in Codes3
    BY DEF Codes7, Codes3
  <2>3. Writes(A3, op_alu(0, 1, regs[A0], regs[T2]))
    BY <2>1, <2>2, OpRuns, InRange
  <2>4. regs[A0] = Patched(w, v, k) /\ regs[T2] = Room(k) /\ (Room(k)) % XLEN = Room(k)
    BY <1>25, ShiftCounts DEF PatchFacts, ShiftCount, Room
  <2>v. op_alu(0, 1, regs[A0], regs[T2]) = Topped(w, v, k)
    BY <2>4 DEF op_alu, Arith, ShiftRight, Topped
  <2>z. Writes(A3, Topped(w, v, k))
    BY <2>3, <2>v
  <2>5. mtime' = 22 /\ OnLine(26)' /\ regs' = [regs EXCEPT ![A3] = Topped(w, v, k)] /\ fregs' = fregs /\ mem' = mem
    BY <1>2, <1>25, <2>z DEF Writes
  <2>6. MemoryKept(w, v, k)
    BY <1>3, <2>5
  <2>7. /\ regs'[A3] = Topped(w, v, k) /\ regs'[T0] = regs[T0] /\ regs'[T1] = regs[T1] /\ regs'[S0] = regs[S0]
        /\ regs'[A0] = regs[A0] /\ regs'[A1] = regs[A1] /\ regs'[A2] = regs[A2] /\ regs'[S2] = regs[S2]
        /\ regs'[S3] = regs[S3] /\ regs'[T3] = regs[T3] /\ regs'[T4] = regs[T4] /\ regs'[T2] = regs[T2]
        /\ regs'[T5] = regs[T5] /\ regs'[A4] = regs[A4] /\ regs'[A5] = regs[A5]
    BY <1>1, <2>5, Named DEF Registers
  <2> QED BY <1>25, <2>5, <2>6, <2>7 DEF PatchFacts, MemoryKept
<1>26. CASE mtime = 22
  <2>1. AtWord(enc_i(XLEN - ByteBits, 0, 0, T2, OP_ALUI))
    BY <1>1, <1>26 DEF PatchText, AtWord
  <2>2. XLEN - ByteBits \in Int /\ -2048 <= XLEN - ByteBits /\ XLEN - ByteBits < 2048 /\ Wrap(0 + Wrap(XLEN - ByteBits)) = XLEN - ByteBits
    BY ShiftCounts DEF ShiftCount
  <2>3. Writes(T2, Wrap(regs[0] + Wrap(XLEN - ByteBits)))
    <3>1. T2 \in 1 .. 31 /\ 0 \in Registers
      BY InRange, NamedCodes
    <3> QED BY <2>1, <2>2, <3>1, AddRuns
  <2>z. Writes(T2, Top)
    BY <1>1, <2>2, <2>3 DEF Top
  <2>5. mtime' = 23 /\ OnLine(26)' /\ regs' = [regs EXCEPT ![T2] = Top] /\ fregs' = fregs /\ mem' = mem
    BY <1>2, <1>26, <2>z DEF Writes
  <2>6. MemoryKept(w, v, k)
    BY <1>3, <2>5
  <2>7. /\ regs'[T2] = Top /\ regs'[T0] = regs[T0] /\ regs'[T1] = regs[T1] /\ regs'[S0] = regs[S0]
        /\ regs'[A0] = regs[A0] /\ regs'[A1] = regs[A1] /\ regs'[A2] = regs[A2] /\ regs'[S2] = regs[S2]
        /\ regs'[S3] = regs[S3] /\ regs'[T3] = regs[T3] /\ regs'[T4] = regs[T4] /\ regs'[T5] = regs[T5]
        /\ regs'[A3] = regs[A3] /\ regs'[A4] = regs[A4] /\ regs'[A5] = regs[A5]
    BY <1>1, <2>5, Named DEF Registers
  <2> QED BY <1>26, <2>5, <2>6, <2>7 DEF PatchFacts, MemoryKept
<1>27. CASE mtime = 23
  <2>1. AtWord(enc_r(0, T2, A3, 5, A4, OP_ALU))
    BY <1>1, <1>27 DEF PatchText, AtWord
  <2>2. 0 \in Codes7 /\ 5 \in Codes3
    BY DEF Codes7, Codes3
  <2>3. Writes(A4, op_alu(0, 5, regs[A3], regs[T2]))
    BY <2>1, <2>2, OpRuns, InRange
  <2>4. regs[A3] = Topped(w, v, k) /\ regs[T2] = Top /\ (Top) % XLEN = Top
    BY <1>27, ShiftCounts DEF PatchFacts, ShiftCount, Top
  <2>v. op_alu(0, 5, regs[A3], regs[T2]) = Lowered(w, v, k)
    BY <2>4 DEF op_alu, Arith, ShiftRight, Lowered
  <2>z. Writes(A4, Lowered(w, v, k))
    BY <2>3, <2>v
  <2>5. mtime' = 24 /\ OnLine(26)' /\ regs' = [regs EXCEPT ![A4] = Lowered(w, v, k)] /\ fregs' = fregs /\ mem' = mem
    BY <1>2, <1>27, <2>z DEF Writes
  <2>6. MemoryKept(w, v, k)
    BY <1>3, <2>5
  <2>7. /\ regs'[A4] = Lowered(w, v, k) /\ regs'[T0] = regs[T0] /\ regs'[T1] = regs[T1] /\ regs'[S0] = regs[S0]
        /\ regs'[A0] = regs[A0] /\ regs'[A1] = regs[A1] /\ regs'[A2] = regs[A2] /\ regs'[S2] = regs[S2]
        /\ regs'[S3] = regs[S3] /\ regs'[T3] = regs[T3] /\ regs'[T4] = regs[T4] /\ regs'[T2] = regs[T2]
        /\ regs'[T5] = regs[T5] /\ regs'[A3] = regs[A3] /\ regs'[A5] = regs[A5]
    BY <1>1, <2>5, Named DEF Registers
  <2> QED BY <1>27, <2>5, <2>6, <2>7 DEF PatchFacts, MemoryKept
<1>28. CASE mtime = 24
  <2>1. AtWord(enc_r(32, T2, A3, 5, A5, OP_ALU))
    BY <1>1, <1>28 DEF PatchText, AtWord
  <2>2. 32 \in Codes7 /\ 5 \in Codes3
    BY DEF Codes7, Codes3
  <2>3. Writes(A5, op_alu(32, 5, regs[A3], regs[T2]))
    BY <2>1, <2>2, OpRuns, InRange
  <2>4. regs[A3] = Topped(w, v, k) /\ regs[T2] = Top /\ (Top) % XLEN = Top
    BY <1>28, ShiftCounts DEF PatchFacts, ShiftCount, Top
  <2>v. op_alu(32, 5, regs[A3], regs[T2]) = SignLowered(w, v, k)
    BY <2>4 DEF op_alu, Arith, ShiftRight, SignLowered
  <2>z. Writes(A5, SignLowered(w, v, k))
    BY <2>3, <2>v
  <2>5. mtime' = 25 /\ OnLine(26)' /\ regs' = [regs EXCEPT ![A5] = SignLowered(w, v, k)] /\ fregs' = fregs /\ mem' = mem
    BY <1>2, <1>28, <2>z DEF Writes
  <2>6. MemoryKept(w, v, k)
    BY <1>3, <2>5
  <2>7. /\ regs'[A5] = SignLowered(w, v, k) /\ regs'[T0] = regs[T0] /\ regs'[T1] = regs[T1] /\ regs'[S0] = regs[S0]
        /\ regs'[A0] = regs[A0] /\ regs'[A1] = regs[A1] /\ regs'[A2] = regs[A2] /\ regs'[S2] = regs[S2]
        /\ regs'[S3] = regs[S3] /\ regs'[T3] = regs[T3] /\ regs'[T4] = regs[T4] /\ regs'[T2] = regs[T2]
        /\ regs'[T5] = regs[T5] /\ regs'[A3] = regs[A3] /\ regs'[A4] = regs[A4]
    BY <1>1, <2>5, Named DEF Registers
  <2> QED BY <1>28, <2>5, <2>6, <2>7 DEF PatchFacts, MemoryKept
<1>29. CASE mtime = 25
  <2>1. AtWord(EBREAK)
    BY <1>1, <1>29 DEF PatchText, AtWord
  <2>2. mtime' = mtime + 1 /\ state' = "HALTED" /\ regs' = regs /\ fregs' = fregs /\ mem' = mem
    BY <1>29, <2>1, EbreakRuns
  <2>5. OnLine(26)' /\ mtime' = 26
    BY <1>29, <2>2 DEF OnLine
  <2>6. MemoryKept(w, v, k)
    BY <1>3, <2>2
  <2> QED BY <1>29, <2>2, <2>5, <2>6 DEF PatchFacts, MemoryKept
<1> QED BY <1>1, <1>4, <1>5, <1>6, <1>7, <1>8, <1>9, <1>10, <1>11, <1>12, <1>13, <1>14, <1>15,
  <1>16, <1>17, <1>18, <1>19, <1>20, <1>21, <1>22, <1>23, <1>24, <1>25, <1>26, <1>27, <1>28,
  <1>29
\* The program on bytes, and what its registers hold.
PatchInv ==
    boot.name = "patch" =>
        \E w, v \in Words, k \in 0 .. 3 :
            /\ boot.args = <<w, v, k>> /\ PatchText(boot.code, w, v, k)
            /\ PatchFacts(w, v, k)

\* Bytes moved to the top, and down from there.
LEMMA PatchShifts ==
  ASSUME NEW w \in Words, NEW v \in Words, NEW k \in 0 .. 3
  PROVE  /\ Lowered(w, v, k) = NewByte(v)
         /\ SignLowered(w, v, k) = SignExtended(NewByte(v), 1)
         /\ Moved(w, v, k) % ByteSize = NewByte(v)
<1>1. Patched(w, v, k) \in Words /\ ByteOf(Patched(w, v, k), k) = NewByte(v)
  <2>1. ByteOf(Patched(w, v, k), k) = PatchedByte(w, v, k, k) /\ Patched(w, v, k) \in Words
    BY PatchedParts
  <2> QED BY <2>1 DEF NewByte, PatchedByte
<1>2. k * ByteBits = ByteBits * k
  BY Widths DEF ByteBits
<1> QED BY <1>1, <1>2, TopByte
        DEF Lowered, SignLowered, Moved, Topped, Top, Room, Distance, ByteOf

\* What the program leaves, for any two words and any of the four bytes.
LEMMA PatchEnds ==
  ASSUME CInv, PatchInv
  PROVE  WordsAssemble
<1> SUFFICES ASSUME boot.name = "patch", state = "HALTED"
             PROVE  LET w == boot.args[1]
                        v == boot.args[2] % ByteSize
                        k == boot.args[3]
                        low == Pow2[XLEN \div 2] IN
                    /\ \A j \in 0 .. 3 : ByteOf(regs[A0], j) = IF j = k THEN v ELSE ByteOf(w, j)
                    /\ regs[A0] = regs[A1] + low * regs[A2]
                    /\ Signed(regs[S2]) = IF 2 * regs[A2] >= low THEN regs[A2] - low ELSE regs[A2]
                    /\ Signed(regs[S3]) = IF 2 * v >= ByteSize THEN v - ByteSize ELSE v
                    /\ regs[T3] = v
                    /\ regs[T4] = regs[A2] + low * regs[A2]
                    /\ regs[A4] = v /\ regs[A5] = regs[S3] /\ regs[T5] % ByteSize = v
  BY DEF WordsAssemble, Ended
<1>1. PICK w, v \in Words, k \in 0 .. 3 : boot.args = <<w, v, k>> /\ PatchFacts(w, v, k)
  BY DEF PatchInv
<1>2. mtime = 26
  BY <1>1 DEF PatchFacts, OnLine
<1> DEFINE b == ByteSize
           hi == PatchedHigh(w, v, k)
<1>3. /\ regs[A0] = Patched(w, v, k) /\ regs[A1] = PatchedLow(w, v, k) /\ regs[A2] = hi
      /\ regs[S2] = SignExtended(hi, 2) /\ regs[S3] = SignExtended(NewByte(v), 1)
      /\ regs[T3] = NewByte(v) /\ regs[T4] = Doubled(w, v, k) /\ regs[T5] = Moved(w, v, k)
      /\ regs[A4] = Lowered(w, v, k) /\ regs[A5] = SignLowered(w, v, k)
  BY <1>1, <1>2 DEF PatchFacts
<1>4. boot.args[1] = w /\ boot.args[2] = v /\ boot.args[3] = k
  BY <1>1
<1>5. /\ \A j \in 0 .. 3 : ByteOf(Patched(w, v, k), j) = IF j = k THEN v % b ELSE ByteOf(w, j)
      /\ Patched(w, v, k) = PatchedLow(w, v, k) + (b * b) * hi
      /\ hi \in 0 .. b * b - 1 /\ NewByte(v) = v % b /\ NewByte(v) \in 0 .. b - 1
  BY PatchedParts DEF PatchedByte, NewByte
<1>6. Capacity(1) = b /\ Capacity(2) = b * b /\ Pow2[XLEN \div 2] = b * b
  BY ByteSizes DEF Capacity
<1>7. Signed(SignExtended(hi, 2)) = IF 2 * hi >= b * b THEN hi - b * b ELSE hi
  BY <1>5, <1>6, SignedExtended
<1>8. Signed(SignExtended(NewByte(v), 1)) = IF 2 * NewByte(v) >= b THEN NewByte(v) - b ELSE NewByte(v)
  BY <1>5, <1>6, SignedExtended
<1>9. Doubled(w, v, k) = hi + (b * b) * hi
  BY DEF Doubled
<1> HIDE DEF hi
<1> QED BY <1>3, <1>4, <1>5, <1>6, <1>7, <1>8, <1>9, PatchShifts

\* On words of every width up to 32, for any two words and any byte of the first, memory
\* and registers agree on which bytes make up a word (memory.c, execute.c), whatever else
\* is booted.
THEOREM WordsStayAssembled ==
  ASSUME HostTyped, XLEN <= 32, TextFits(26), DataFits(8),
         \A b \in Boots : b.name = "patch" => b \in Patches(Words, Words)
  PROVE  Spec => []WordsAssemble
<1>1. Init => CInv
  BY InitType
<1>2. CInv /\ [Next]_vars => CInv'
  BY StepType
<1>3. Init => PatchInv
  <2> SUFFICES ASSUME Init, boot.name = "patch"
               PROVE  \E w, v \in Words, k \in 0 .. 3 :
                        /\ boot.args = <<w, v, k>> /\ PatchText(boot.code, w, v, k)
                        /\ PatchFacts(w, v, k)
    BY DEF PatchInv
  <2>1. boot \in Patches(Words, Words)
    BY DEF Init
  <2>2. PICK w, v \in Words, k \in 0 .. 3 : boot = Booted("patch", <<w, v, k>>, patch(w, v, k), 200)
    BY ONLY <2>1 DEF Patches
  <2>3. boot.args = <<w, v, k>> /\ boot.code = assemble(patch(w, v, k), TEXT) /\ boot.entry = TEXT
        /\ boot.mtime = 0
    BY <2>2 DEF Booted
  <2>4. PatchText(boot.code, w, v, k)
    BY <2>3, PatchAssembled DEF TextFits
  <2>5. mtime = 0 /\ state = "RUNNING" /\ pc = TEXT
    BY <2>3 DEF Init
  <2>6. PatchFacts(w, v, k)
    BY <2>5 DEF PatchFacts, OnLine, TextFits
  <2> QED BY <2>3, <2>4, <2>6
<1>4. CInv /\ PatchInv /\ [Next]_vars => PatchInv'
  <2> SUFFICES ASSUME CInv, PatchInv, [Next]_vars PROVE PatchInv'
    OBVIOUS
  <2>1. CASE UNCHANGED vars
    BY <2>1 DEF vars, PatchInv, PatchFacts, OnLine, WordLaid, PatchLaid, CopyLaid, HalvesLaid, Byte
  <2>2. CASE Step
    <3>1. boot' = boot
      BY <2>2 DEF Step
    <3>2. SUFFICES ASSUME boot.name = "patch"
                   PROVE  \E w, v \in Words, k \in 0 .. 3 :
                            /\ boot.args = <<w, v, k>> /\ PatchText(boot.code, w, v, k)
                            /\ PatchFacts(w, v, k)'
      BY <3>1 DEF PatchInv
    <3>3. PICK w, v \in Words, k \in 0 .. 3 :
            /\ boot.args = <<w, v, k>> /\ PatchText(boot.code, w, v, k) /\ PatchFacts(w, v, k)
      BY <3>2 DEF PatchInv
    <3>4. PatchFacts(w, v, k)'
      BY <2>2, <3>3, PatchStep
    <3> QED BY <3>3, <3>4
  <2> QED BY <2>1, <2>2 DEF Next, Returned
<1>5. CInv /\ PatchInv => WordsAssemble
  BY PatchEnds
<1> QED BY <1>1, <1>2, <1>3, <1>4, <1>5, PTL DEF Spec

-----------------------------------------------------------------------------
\* The timer program.

\* The program subtracts two registers.
Minus(rd, rs1, rs2) == enc_r(32, rs2, rs1, 0, rd, OP_ALU)

\* The words of a wait, from p.
WaitText(c, p, a) ==
    /\ Holds(c, p, enc_i(0, S0, 2, T0, OP_LOAD))
    /\ Holds(c, p + 4, Lui(T1, a))
    /\ Holds(c, p + 8, Addi(T1, a))
    /\ Holds(c, p + 12, Sum(T1, T1, T0))
    /\ Holds(c, p + 16, enc_s(0, T1, S1, 2, OP_STORE))
    /\ Holds(c, p + 20, CsrWord(2, T2, CSR_MIP, 0))
    /\ Holds(c, p + 24, enc_b(-4, 0, T2, 0, OP_BRANCH))
    /\ Holds(c, p + 28, enc_i(0, S0, 2, A0, OP_LOAD))
    /\ Holds(c, p + 32, Minus(A0, A0, T0))

\* The items of a wait begin at k.
WaitAt(items, k, a, name) ==
    /\ items[k] = Word(enc_i(0, S0, 2, T0, OP_LOAD))
    /\ items[k + 1] = li32(T1, a)
    /\ items[k + 2] = Word(Sum(T1, T1, T0))
    /\ items[k + 3] = Word(enc_s(0, T1, S1, 2, OP_STORE))
    /\ items[k + 4] = Label(name)
    /\ items[k + 5] = Word(CsrWord(2, T2, CSR_MIP, 0))
    /\ items[k + 6] = branch(0, T2, 0, name)
    /\ items[k + 7] = Word(enc_i(0, S0, 2, A0, OP_LOAD))
    /\ items[k + 8] = Word(Minus(A0, A0, T0))

\* The assembler puts its words there.
LEMMA WaitAssembled ==
  ASSUME NEW items, NEW base \in Int, NEW k \in Int, NEW n \in Int, NEW a, NEW name,
         ItemAt(items, base, k, n), k + 8 <= Len(items),
         WaitAt(items, k, a, name), Labels(items, name, k + 4)
  PROVE  WaitText(assemble(items, base), base + n, a) /\ ItemAt(items, base, k + 9, n + 36)
<1> DEFINE c == assemble(items, base)
           k0 == k + 0   k1 == k + 1   k2 == k + 2   k3 == k + 3   k4 == k + 4
           k5 == k + 5   k6 == k + 6   k7 == k + 7   k8 == k + 8   k9 == k + 9
           n0 == n + 0   n4 == n + 4   n8 == n + 8   n12 == n + 12   n16 == n + 16
           n20 == n + 20   n24 == n + 24   n28 == n + 28   n32 == n + 32   n36 == n + 36
           p0 == (base + n) + 0   p4 == (base + n) + 4   p8 == (base + n) + 8   p12 == (base + n) + 12   p16 == (base + n) + 16
           p20 == (base + n) + 20   p24 == (base + n) + 24   p28 == (base + n) + 28   p32 == (base + n) + 32   p36 == (base + n) + 36
<1>0. /\ Len(items) \in Nat /\ k0 \in Int /\ k1 \in Int
      /\ k2 \in Int /\ k3 \in Int /\ k4 \in Int
      /\ k5 \in Int /\ k6 \in Int /\ k7 \in Int
      /\ k8 \in Int /\ k9 \in Int /\ k0 <= Len(items)
      /\ k1 <= Len(items) /\ k2 <= Len(items) /\ k3 <= Len(items)
      /\ k4 <= Len(items) /\ k5 <= Len(items) /\ k6 <= Len(items)
      /\ k7 <= Len(items) /\ k8 <= Len(items) /\ k0 + 1 = k1
      /\ k1 + 1 = k2 /\ k2 + 1 = k3 /\ k3 + 1 = k4
      /\ k4 + 1 = k5 /\ k5 + 1 = k6 /\ k6 + 1 = k7
      /\ k7 + 1 = k8 /\ k8 + 1 = k9 /\ n0 \in Int
      /\ n4 \in Int /\ n8 \in Int /\ n12 \in Int
      /\ n16 \in Int /\ n20 \in Int /\ n24 \in Int
      /\ n28 \in Int /\ n32 \in Int /\ n36 \in Int
      /\ n0 + 4 = n4 /\ n4 + 4 = n8 /\ n8 + 4 = n12
      /\ n12 + 4 = n16 /\ n16 + 4 = n20 /\ n20 + 4 = n24
      /\ n24 + 4 = n28 /\ n28 + 4 = n32 /\ n32 + 4 = n36
      /\ n4 + 8 = n12 /\ n20 - n24 = -4 /\ base + n0 = p0
      /\ base + n4 = p4 /\ base + n8 = p8 /\ base + n12 = p12
      /\ base + n16 = p16 /\ base + n20 = p20 /\ base + n24 = p24
      /\ base + n28 = p28 /\ base + n32 = p32 /\ base + n36 = p36
  BY DEF ItemAt
<1>a. /\ ItemAt(items, base, k0, n0) /\ base \in Int /\ Labels(items, name, k4)
      /\ items[k0] = Word(enc_i(0, S0, 2, T0, OP_LOAD))
      /\ items[k1] = li32(T1, a)
      /\ items[k2] = Word(Sum(T1, T1, T0))
      /\ items[k3] = Word(enc_s(0, T1, S1, 2, OP_STORE))
      /\ items[k4] = Label(name)
      /\ items[k5] = Word(CsrWord(2, T2, CSR_MIP, 0))
      /\ items[k6] = branch(0, T2, 0, name)
      /\ items[k7] = Word(enc_i(0, S0, 2, A0, OP_LOAD))
      /\ items[k8] = Word(Minus(A0, A0, T0))
  <2>1. k + 0 = k /\ n + 0 = n
    OBVIOUS
  <2> QED BY <2>1 DEF WaitAt
<1> HIDE DEF c, k0, k1, k2, k3, k4, k5, k6, k7, k8, k9,
              n0, n4, n8, n12, n16, n20, n24, n28, n32, n36,
              p0, p4, p8, p12, p16, p20, p24, p28, p32, p36
<1>1. /\ Holds(c, p0, enc_i(0, S0, 2, T0, OP_LOAD))
      /\ ItemAt(items, base, k1, n4)
  BY ONLY <1>0, <1>a, NextWord DEF c
<1>2. /\ Holds(c, p4, Lui(T1, a))
      /\ Holds(c, p8, Addi(T1, a))
      /\ ItemAt(items, base, k2, n12)
  <2>1. /\ Holds(c, base + n4, Lui(T1, a))
        /\ Holds(c, base + (n4 + 4), Addi(T1, a))
        /\ ItemAt(items, base, k1 + 1, n4 + 8)
    <3>1. /\ base \in Int /\ k1 \in Int /\ n4 \in Int /\ k1 <= Len(items) /\ items[k1] = li32(T1, a)
      BY ONLY <1>0, <1>a
    <3> QED BY ONLY <3>1, <1>1, NextConstant DEF c
  <2> QED BY ONLY <1>0, <2>1
<1>3. /\ Holds(c, p12, Sum(T1, T1, T0))
      /\ ItemAt(items, base, k3, n16)
  BY ONLY <1>0, <1>a, <1>2, NextWord DEF c
<1>4. /\ Holds(c, p16, enc_s(0, T1, S1, 2, OP_STORE))
      /\ ItemAt(items, base, k4, n20)
  BY ONLY <1>0, <1>a, <1>3, NextWord DEF c
<1>5. ItemAt(items, base, k5, n20)
  BY ONLY <1>0, <1>a, <1>4, NextLabel DEF c
<1>6. /\ Holds(c, p20, CsrWord(2, T2, CSR_MIP, 0))
      /\ ItemAt(items, base, k6, n24)
  BY ONLY <1>0, <1>a, <1>5, NextWord DEF c
<1>7. /\ Holds(c, p24, enc_b(-4, 0, T2, 0, OP_BRANCH))
      /\ ItemAt(items, base, k7, n28)
  <2>1. /\ Holds(c, base + n24, enc_b(n20 - n24, 0, T2, 0, OP_BRANCH))
        /\ ItemAt(items, base, k6 + 1, n24 + 4)
    <3>1. /\ base \in Int /\ k6 \in Int /\ n24 \in Int /\ n20 \in Int /\ k6 <= Len(items)
          /\ items[k6] = branch(0, T2, 0, name) /\ Labels(items, name, k4)
      BY ONLY <1>0, <1>a
    <3> QED BY ONLY <3>1, <1>4, <1>6, NextBranch DEF c
  <2> QED BY ONLY <1>0, <2>1
<1>8. /\ Holds(c, p28, enc_i(0, S0, 2, A0, OP_LOAD))
      /\ ItemAt(items, base, k8, n32)
  BY ONLY <1>0, <1>a, <1>7, NextWord DEF c
<1>9. /\ Holds(c, p32, Minus(A0, A0, T0))
      /\ ItemAt(items, base, k9, n36)
  BY ONLY <1>0, <1>a, <1>8, NextWord DEF c
<1> QED BY <1>0, <1>1, <1>2, <1>3, <1>4, <1>5, <1>6, <1>7, <1>8, <1>9 DEF WaitText, c, k9, n36, p0, p4, p8, p12, p16, p20, p24, p28, p32, p36

\* The items of a wait.
LEMMA WaitItems ==
  ASSUME NEW a, NEW name
  PROVE  /\ wait(a, name) \in Seq({wait(a, name)[i] : i \in 1 .. 9}) /\ Len(wait(a, name)) = 9
         /\ WaitAt(wait(a, name), 1, a, name)
<1> DEFINE w == wait(a, name)
           T == {w[i] : i \in 1 .. 9}
<1>1. Len(w) = 9 /\ w \in Seq({w[1], w[2], w[3], w[4], w[5], w[6], w[7], w[8], w[9]})
  BY DEF wait
<1>2. WaitAt(w, 1, a, name)
  <2>1. /\ w[1] = Word(enc_i(0, S0, 2, T0, OP_LOAD)) /\ w[2] = li32(T1, a)
        /\ w[3] = Word(Sum(T1, T1, T0)) /\ w[4] = Word(enc_s(0, T1, S1, 2, OP_STORE))
        /\ w[5] = Label(name) /\ w[6] = Word(CsrWord(2, T2, CSR_MIP, 0))
        /\ w[7] = branch(0, T2, 0, name) /\ w[8] = Word(enc_i(0, S0, 2, A0, OP_LOAD))
        /\ w[9] = Word(Minus(A0, A0, T0))
    BY DEF wait, lw, load, add, sub, op, sw, store, csrr, csrrs, system, beq, Sum, Minus, CsrWord
  <2>2. 1 + 1 = 2 /\ 1 + 2 = 3 /\ 1 + 3 = 4 /\ 1 + 4 = 5 /\ 1 + 5 = 6 /\ 1 + 6 = 7 /\ 1 + 7 = 8
        /\ 1 + 8 = 9
    OBVIOUS
  <2> QED BY ONLY <2>1, <2>2 DEF WaitAt
<1> HIDE DEF w
<1>3. {w[1], w[2], w[3], w[4], w[5], w[6], w[7], w[8], w[9]} \subseteq T
  <2>1. {1, 2, 3, 4, 5, 6, 7, 8, 9} \subseteq 1 .. 9
    OBVIOUS
  <2> QED BY <2>1
<1> HIDE DEF T
<1>4. w \in Seq(T)
  BY <1>1, <1>3, SeqMonotonic
<1> QED BY <1>1, <1>2, <1>4 DEF w, T

\* They stay where they are when something is appended,
LEMMA WaitStays ==
  ASSUME NEW c, NEW p, NEW n \in Nat, NEW q, NEW m \in Nat, IsJoin(c, p, n, q, m),
         NEW k \in Nat \ {0}, k + 8 <= n, NEW a, NEW name, WaitAt(p, k, a, name)
  PROVE  WaitAt(c, k, a, name)
<1>1. /\ k \in 1 .. n /\ k + 1 \in 1 .. n /\ k + 2 \in 1 .. n /\ k + 3 \in 1 .. n /\ k + 4 \in 1 .. n
      /\ k + 5 \in 1 .. n /\ k + 6 \in 1 .. n /\ k + 7 \in 1 .. n /\ k + 8 \in 1 .. n
  OBVIOUS
<1>2. \A i \in 1 .. n : c[i] = p[i]
  BY DEF IsJoin
<1>3. /\ c[k] = p[k] /\ c[k + 1] = p[k + 1] /\ c[k + 2] = p[k + 2] /\ c[k + 3] = p[k + 3]
      /\ c[k + 4] = p[k + 4] /\ c[k + 5] = p[k + 5] /\ c[k + 6] = p[k + 6]
      /\ c[k + 7] = p[k + 7] /\ c[k + 8] = p[k + 8]
  BY ONLY <1>1, <1>2
<1> QED BY <1>3 DEF WaitAt

\* and follow what they are appended to.
LEMMA WaitFollows ==
  ASSUME NEW c, NEW p, NEW n \in Nat, NEW q, IsJoin(c, p, n, q, 9),
         NEW a, NEW name, WaitAt(q, 1, a, name)
  PROVE  WaitAt(c, n + 1, a, name)
<1>1. /\ {1, 2, 3, 4, 5, 6, 7, 8, 9} \subseteq 1 .. 9
      /\ 1 + 1 = 2 /\ 1 + 2 = 3 /\ 1 + 3 = 4 /\ 1 + 4 = 5 /\ 1 + 5 = 6 /\ 1 + 6 = 7 /\ 1 + 7 = 8
      /\ 1 + 8 = 9
      /\ (n + 1) + 1 = n + 2 /\ (n + 1) + 2 = n + 3 /\ (n + 1) + 3 = n + 4 /\ (n + 1) + 4 = n + 5
      /\ (n + 1) + 5 = n + 6 /\ (n + 1) + 6 = n + 7 /\ (n + 1) + 7 = n + 8 /\ (n + 1) + 8 = n + 9
  OBVIOUS
<1>2. \A i \in 1 .. 9 : c[n + i] = q[i]
  BY DEF IsJoin
<1>3. /\ c[n + 1] = q[1] /\ c[n + 2] = q[2] /\ c[n + 3] = q[3] /\ c[n + 4] = q[4] /\ c[n + 5] = q[5]
      /\ c[n + 6] = q[6] /\ c[n + 7] = q[7] /\ c[n + 8] = q[8] /\ c[n + 9] = q[9]
  BY ONLY <1>1, <1>2
<1>4. /\ q[1] = Word(enc_i(0, S0, 2, T0, OP_LOAD)) /\ q[2] = li32(T1, a)
      /\ q[3] = Word(Sum(T1, T1, T0)) /\ q[4] = Word(enc_s(0, T1, S1, 2, OP_STORE))
      /\ q[5] = Label(name) /\ q[6] = Word(CsrWord(2, T2, CSR_MIP, 0))
      /\ q[7] = branch(0, T2, 0, name) /\ q[8] = Word(enc_i(0, S0, 2, A0, OP_LOAD))
      /\ q[9] = Word(Minus(A0, A0, T0))
  BY ONLY <1>1, WaitAt(q, 1, a, name) DEF WaitAt
<1>5. /\ c[(n + 1) + 1] = q[2] /\ c[(n + 1) + 2] = q[3] /\ c[(n + 1) + 3] = q[4]
      /\ c[(n + 1) + 4] = q[5] /\ c[(n + 1) + 5] = q[6] /\ c[(n + 1) + 6] = q[7]
      /\ c[(n + 1) + 7] = q[8] /\ c[(n + 1) + 8] = q[9]
  BY ONLY <1>1, <1>3
<1> QED BY ONLY <1>3, <1>4, <1>5 DEF WaitAt

\* The items of the program.
LEMMA DelaysItems ==
  ASSUME NEW d, NEW e
  PROVE  /\ Len(delays(d, e)) = 22
         /\ delays(d, e)[1] = li32(S0, CLINT_MTIME_LO)
         /\ delays(d, e)[2] = li32(S1, CLINT_MTIMECMP_LO)
         /\ WaitAt(delays(d, e), 3, d, "first")
         /\ delays(d, e)[12] = Word(enc_i(0, A0, 0, S2, OP_ALUI))
         /\ WaitAt(delays(d, e), 13, e, "second")
         /\ delays(d, e)[22] = Word(EBREAK)
<1> DEFINE q0 == <<li32(S0, CLINT_MTIME_LO), li32(S1, CLINT_MTIMECMP_LO)>>
           w1 == wait(d, "first")
           q2 == <<mv(S2, A0)>>
           w3 == wait(e, "second")
           q4 == <<ebreak>>
           p1 == q0 \o w1   p2 == p1 \o q2   p3 == p2 \o w3   p4 == p3 \o q4
           K0 == {q0[1], q0[2]}
           K1 == {w1[i] : i \in 1 .. 9}
           K2 == {q2[1]}
           K3 == {w3[i] : i \in 1 .. 9}
           K4 == {q4[1]}
<1>1. delays(d, e) = p4
  BY DEF delays
<1>2. q0 \in Seq(K0) /\ Len(q0) = 2 /\ q2 \in Seq(K2) /\ Len(q2) = 1 /\ q4 \in Seq(K4) /\ Len(q4) = 1
  OBVIOUS
<1>3. /\ q0[1] = li32(S0, CLINT_MTIME_LO) /\ q0[2] = li32(S1, CLINT_MTIMECMP_LO)
      /\ q2[1] = Word(enc_i(0, A0, 0, S2, OP_ALUI)) /\ q4[1] = Word(EBREAK)
  BY EbreakIsWord DEF mv, addi, ebreak, system
<1> HIDE DEF q0, q2, q4, K0, K2, K4
<1>4. /\ w1 \in Seq(K1) /\ Len(w1) = 9 /\ WaitAt(w1, 1, d, "first")
      /\ w3 \in Seq(K3) /\ Len(w3) = 9 /\ WaitAt(w3, 1, e, "second")
  BY ONLY WaitItems
<1> HIDE DEF w1, w3, K1, K3
<1>5. IsJoin(p1, q0, 2, w1, 9) /\ p1 \in Seq(K0 \cup K1)
  BY ONLY <1>2, <1>4, Appended, JoinType
<1>6. Len(p1) = 11
  BY <1>5 DEF IsJoin
<1> HIDE DEF p1
<1>7. IsJoin(p2, p1, 11, q2, 1) /\ p2 \in Seq((K0 \cup K1) \cup K2)
  BY ONLY <1>2, <1>5, <1>6, Appended, JoinType
<1>8. Len(p2) = 12
  BY <1>7 DEF IsJoin
<1> HIDE DEF p2
<1>9. IsJoin(p3, p2, 12, w3, 9) /\ p3 \in Seq(((K0 \cup K1) \cup K2) \cup K3)
  BY ONLY <1>4, <1>7, <1>8, Appended, JoinType
<1>10. Len(p3) = 21
  BY <1>9 DEF IsJoin
<1> HIDE DEF p3
<1>11. IsJoin(p4, p3, 21, q4, 1)
  BY ONLY <1>2, <1>9, <1>10, Appended
<1>12. Len(p4) = 22
  BY <1>11 DEF IsJoin
<1> HIDE DEF p4
<1>13. WaitAt(p1, 3, d, "first") /\ p1[1] = q0[1] /\ p1[2] = q0[2]
  <2>1. WaitAt(p1, 2 + 1, d, "first")
    BY ONLY <1>4, <1>5, WaitFollows, 2 \in Nat
  <2>2. 2 + 1 = 3 /\ 1 \in 1 .. 2 /\ 2 \in 1 .. 2
    OBVIOUS
  <2> QED BY <1>5, <2>1, <2>2 DEF IsJoin
<1>14. WaitAt(p2, 3, d, "first") /\ p2[1] = q0[1] /\ p2[2] = q0[2] /\ p2[12] = q2[1]
  <2>1. /\ 11 + 1 = 12 /\ 1 \in 1 .. 11 /\ 2 \in 1 .. 11 /\ 1 \in 1 .. 1
        /\ 3 \in Nat \ {0} /\ 3 + 8 <= 11 /\ 11 \in Nat /\ 1 \in Nat
    OBVIOUS
  <2>2. WaitAt(p2, 3, d, "first")
    BY ONLY <1>7, <1>13, <2>1, WaitStays
  <2>3. p2[1] = p1[1] /\ p2[2] = p1[2] /\ p2[11 + 1] = q2[1]
    BY ONLY <1>7, <2>1 DEF IsJoin
  <2> QED BY ONLY <1>13, <2>1, <2>2, <2>3
<1>15. /\ WaitAt(p3, 3, d, "first") /\ p3[1] = q0[1] /\ p3[2] = q0[2] /\ p3[12] = q2[1]
       /\ WaitAt(p3, 13, e, "second")
  <2>1. /\ 12 + 1 = 13 /\ 1 \in 1 .. 12 /\ 2 \in 1 .. 12 /\ 12 \in 1 .. 12
        /\ 3 \in Nat \ {0} /\ 3 + 8 <= 12 /\ 12 \in Nat /\ 9 \in Nat
    OBVIOUS
  <2>2. WaitAt(p3, 3, d, "first")
    BY ONLY <1>9, <1>14, <2>1, WaitStays
  <2>3. p3[1] = p2[1] /\ p3[2] = p2[2] /\ p3[12] = p2[12]
    BY ONLY <1>9, <2>1 DEF IsJoin
  <2>4. WaitAt(p3, 12 + 1, e, "second")
    BY ONLY <1>4, <1>9, <2>1, WaitFollows
  <2> QED BY ONLY <1>14, <2>1, <2>2, <2>3, <2>4
<1>16. /\ WaitAt(p4, 3, d, "first") /\ p4[1] = q0[1] /\ p4[2] = q0[2] /\ p4[12] = q2[1]
       /\ WaitAt(p4, 13, e, "second") /\ p4[22] = q4[1]
  <2>1. /\ 21 + 1 = 22 /\ 1 \in 1 .. 21 /\ 2 \in 1 .. 21 /\ 12 \in 1 .. 21 /\ 1 \in 1 .. 1
        /\ 3 \in Nat \ {0} /\ 3 + 8 <= 21 /\ 13 \in Nat \ {0} /\ 13 + 8 <= 21 /\ 21 \in Nat /\ 1 \in Nat
    OBVIOUS
  <2>2. WaitAt(p4, 3, d, "first")
    BY ONLY <1>11, <1>15, <2>1, WaitStays
  <2>3. WaitAt(p4, 13, e, "second")
    BY ONLY <1>11, <1>15, <2>1, WaitStays
  <2>4. p4[1] = p3[1] /\ p4[2] = p3[2] /\ p4[12] = p3[12] /\ p4[21 + 1] = q4[1]
    BY ONLY <1>11, <2>1 DEF IsJoin
  <2> QED BY ONLY <1>15, <2>1, <2>2, <2>3, <2>4
<1> QED BY ONLY <1>1, <1>3, <1>12, <1>16

\* The words of the program.
DelaysText(c, d, e) ==
    /\ Holds(c, TEXT, Lui(S0, CLINT_MTIME_LO))
    /\ Holds(c, TEXT + 4, Addi(S0, CLINT_MTIME_LO))
    /\ Holds(c, TEXT + 8, Lui(S1, CLINT_MTIMECMP_LO))
    /\ Holds(c, TEXT + 12, Addi(S1, CLINT_MTIMECMP_LO))
    /\ WaitText(c, TEXT + 16, d)
    /\ Holds(c, TEXT + 52, enc_i(0, A0, 0, S2, OP_ALUI))
    /\ WaitText(c, TEXT + 56, e)
    /\ Holds(c, TEXT + 92, EBREAK)

\* The assembler puts them there.
LEMMA DelaysAssembled ==
  ASSUME TEXT \in Nat, NEW d, NEW e
  PROVE  DelaysText(assemble(delays(d, e), TEXT), d, e)
<1> DEFINE items == delays(d, e)
           c == assemble(items, TEXT)
<1>1. /\ Len(items) = 22 /\ Len(items) \in Nat /\ TEXT \in Int
      /\ items[1] = li32(S0, CLINT_MTIME_LO) /\ items[2] = li32(S1, CLINT_MTIMECMP_LO)
      /\ WaitAt(items, 3, d, "first") /\ items[12] = Word(enc_i(0, A0, 0, S2, OP_ALUI))
      /\ WaitAt(items, 13, e, "second") /\ items[22] = Word(EBREAK)
  BY DelaysItems
<1> HIDE DEF items, c
<1>2. /\ items[1].kind = "li32" /\ items[2].kind = "li32" /\ items[12].kind = "word"
      /\ items[22].kind = "word"
  BY <1>1 DEF li32, Word
<1>3. /\ 3 + 1 = 4 /\ 3 + 2 = 5 /\ 3 + 3 = 6 /\ 3 + 4 = 7 /\ 3 + 5 = 8 /\ 3 + 6 = 9 /\ 3 + 7 = 10
      /\ 3 + 8 = 11 /\ 13 + 1 = 14 /\ 13 + 2 = 15 /\ 13 + 3 = 16 /\ 13 + 4 = 17 /\ 13 + 5 = 18
      /\ 13 + 6 = 19 /\ 13 + 7 = 20 /\ 13 + 8 = 21
  OBVIOUS
<1>4. /\ items[3].kind = "word" /\ items[4].kind = "li32" /\ items[5].kind = "word"
      /\ items[6].kind = "word" /\ items[7] = Label("first") /\ items[8].kind = "word"
      /\ items[9].kind = "branch" /\ items[10].kind = "word" /\ items[11].kind = "word"
  BY ONLY <1>1, <1>3 DEF WaitAt, Word, li32, branch
<1>5. /\ items[13].kind = "word" /\ items[14].kind = "li32" /\ items[15].kind = "word"
      /\ items[16].kind = "word" /\ items[17] = Label("second") /\ items[18].kind = "word"
      /\ items[19].kind = "branch" /\ items[20].kind = "word" /\ items[21].kind = "word"
  BY ONLY <1>1, <1>3 DEF WaitAt, Word, li32, branch
<1>6. items[7].name = "first" /\ items[17].name = "second"
  BY <1>4, <1>5 DEF Label
<1>7. \A k \in 1 .. 22 : items[k].kind = "label" => k \in {7, 17}
  <2> SUFFICES ASSUME NEW k \in 1 .. 22, items[k].kind = "label" PROVE k \in {7, 17}
    OBVIOUS
  <2>1. k \in {1, 2, 3, 4, 5, 6, 7, 8, 9, 10, 11, 12, 13, 14, 15, 16, 17, 18, 19, 20, 21, 22}
    OBVIOUS
  <2> QED BY ONLY <1>2, <1>4, <1>5, <2>1, items[k].kind = "label"
<1>8. Labels(items, "first", 7) /\ Labels(items, "second", 17)
  <2>1. 7 \in 1 .. 22 /\ 17 \in 1 .. 22 /\ 7 # 17
    OBVIOUS
  <2> QED BY ONLY <1>1, <1>4, <1>5, <1>6, <1>7, <2>1 DEF Labels
<1>9. /\ Holds(c, TEXT, Lui(S0, CLINT_MTIME_LO)) /\ Holds(c, TEXT + 4, Addi(S0, CLINT_MTIME_LO))
      /\ ItemAt(items, TEXT, 2, 8)
  <2>1. Len(items) >= 1
    BY <1>1
  <2> QED BY ONLY <1>1, <2>1, FirstConstant DEF c
<1>10. /\ Holds(c, TEXT + 8, Lui(S1, CLINT_MTIMECMP_LO))
       /\ Holds(c, TEXT + 12, Addi(S1, CLINT_MTIMECMP_LO))
       /\ ItemAt(items, TEXT, 3, 16)
  <2>1. 2 <= Len(items)
    BY <1>1
  <2> QED BY ONLY <1>1, <1>9, <2>1, NextConstant DEF c
<1>11. WaitText(c, TEXT + 16, d) /\ ItemAt(items, TEXT, 12, 52)
  <2>1. 3 + 8 <= Len(items) /\ 3 + 4 = 7 /\ 3 + 9 = 12 /\ 16 + 36 = 52 /\ 3 \in Int /\ 16 \in Int
    BY <1>1
  <2>2. Labels(items, "first", 3 + 4)
    BY ONLY <1>8, <2>1
  <2>3. WaitText(c, TEXT + 16, d) /\ ItemAt(items, TEXT, 3 + 9, 16 + 36)
    <3>1. WaitAt(items, 3, d, "first") /\ ItemAt(items, TEXT, 3, 16) /\ TEXT \in Int
      BY ONLY <1>1, <1>10
    <3> QED BY ONLY <2>1, <2>2, <3>1, WaitAssembled DEF c
  <2> QED BY ONLY <2>1, <2>3
<1>12. Holds(c, TEXT + 52, enc_i(0, A0, 0, S2, OP_ALUI)) /\ ItemAt(items, TEXT, 13, 56)
  <2>1. 12 <= Len(items)
    BY <1>1
  <2> QED BY ONLY <1>1, <1>11, <2>1, NextWord DEF c
<1>13. WaitText(c, TEXT + 56, e) /\ ItemAt(items, TEXT, 22, 92)
  <2>1. 13 + 8 <= Len(items) /\ 13 + 4 = 17 /\ 13 + 9 = 22 /\ 56 + 36 = 92 /\ 13 \in Int /\ 56 \in Int
    BY <1>1
  <2>2. Labels(items, "second", 13 + 4)
    BY ONLY <1>8, <2>1
  <2>3. WaitText(c, TEXT + 56, e) /\ ItemAt(items, TEXT, 13 + 9, 56 + 36)
    <3>1. WaitAt(items, 13, e, "second") /\ ItemAt(items, TEXT, 13, 56) /\ TEXT \in Int
      BY ONLY <1>1, <1>12
    <3> QED BY ONLY <2>1, <2>2, <3>1, WaitAssembled DEF c
  <2> QED BY ONLY <2>1, <2>3
<1>14. Holds(c, TEXT + 92, EBREAK)
  <2>1. 22 <= Len(items)
    BY <1>1
  <2> QED BY ONLY <1>1, <1>13, <2>1, NextWord DEF c
<1> QED BY <1>9, <1>10, <1>11, <1>12, <1>13, <1>14 DEF DelaysText, items, c

-----------------------------------------------------------------------------
\* It subtracts.
LEMMA MinusRuns ==
  ASSUME CInv, Step, NEW rd \in 1 .. 31, NEW rs1 \in 1 .. 31, NEW rs2 \in 1 .. 31,
         AtWord(Minus(rd, rs1, rs2))
  PROVE  Writes(rd, Wrap(regs[rs1] - regs[rs2]))
<1>1. 0 \in Codes3 /\ 32 \in Codes7 /\ rs1 \in Registers /\ rs2 \in Registers
  BY DEF Codes3, Codes7, Registers
<1>2. Writes(rd, op_alu(32, 0, regs[rs1], regs[rs2]))
  BY <1>1, OpRuns DEF Minus
<1> QED BY <1>2 DEF op_alu, Arith, Sub

\* What a wait of a ticks may take.
Waited(a, w) == w \in Nat /\ w >= a /\ w <= (IF a < 5 THEN 5 ELSE a) + 3

\* Before word j of a wait of a ticks, t being the time it began at.  Up to the store
\* one tick passes with each word.  From then on the deadline is t + a, and the loop is
\* either in its first turn or not past the deadline by more than a turn.
Turn(j, a) ==
    LET t == regs[T0] IN
    /\ j \in 1 .. 7 => t > 0 /\ t <= mtime
    /\ j \in 1 .. 4 => mtime = t + (j - 1)
    /\ j = 2 => regs[T1] = Wrap(Immediate(Lui(T1, a)))
    /\ j = 3 => regs[T1] = a
    /\ j = 4 => regs[T1] = a + t
    /\ j \in 5 .. 7 => mtimecmp = t + a
    /\ j = 5 => mtime >= t + 4 /\ (mtime = t + 4 \/ mtime <= t + a)
    /\ j = 6 => /\ mtime >= t + 5
                /\ IF regs[T2] = 0 THEN mtime < t + a
                   ELSE mtime >= t + a /\ (mtime = t + 5 \/ mtime <= t + a + 1)
    /\ j = 7 => mtime >= t + a + 1 /\ (mtime = t + 6 \/ mtime <= t + a + 2)
    /\ j = 8 => t <= regs[A0] /\ Waited(a, regs[A0] - t)
    /\ j = 9 => Waited(a, regs[A0])

\* What a step of a wait leaves alone.
WaitKeeps ==
    /\ boot' = boot /\ mtime' = mtime + 1 /\ state' = "RUNNING" /\ mtimecmp' \in Words
    /\ regs'[S0] = regs[S0] /\ regs'[S1] = regs[S1] /\ regs'[S2] = regs[S2]

\* A step of a wait leads to its next word, or back to the look at mip.
LEMMA WaitStep ==
  ASSUME CInv, Step, XLEN <= 32, CLINT_MTIME_LO % 4 = 0, CLINT_MTIMECMP_LO % 4 = 0,
         NEW p \in Nat, p % 2 = 0, p + 36 <= MemSize, NEW a \in Words,
         NEW top \in Nat, mtime < top, top + a < Size,
         WaitText(boot.code, p, a), regs[S0] = CLINT_MTIME_LO, regs[S1] = CLINT_MTIMECMP_LO,
         mtimecmp \in Words, NEW j \in 0 .. 8, pc = p + 4 * j, Turn(j, a)
  PROVE  /\ WaitKeeps
         /\ \/ pc' = p + 4 * (j + 1) /\ Turn(j + 1, a)'
            \/ j = 6 /\ pc' = p + 4 * 5 /\ Turn(5, a)'
<1>0. /\ regs \in [Registers -> Words] /\ mtime \in Nat /\ mtime + 1 \in Nat /\ mtime + 1 < Size
      /\ Size \in Nat
      /\ a \in Nat /\ a < Size /\ mtimecmp \in Nat /\ regs[0] = 0 /\ MemSize \in Nat
      /\ {T0, T1, T2, A0, S0, S1, S2} \subseteq 1 .. 31
      /\ {T0, T1, T2, A0, S0, S1, S2} \subseteq Registers
      /\ \A r \in Registers : regs[r] \in Nat /\ regs[r] < Size
  <2>1. regs \in [Registers -> Words] /\ mtime \in Nat /\ regs[0] = 0
    BY DEF CInv, CTypeOK
  <2>2. /\ Size \in Nat /\ a \in Nat /\ a < Size /\ mtimecmp \in Nat
        /\ \A v \in Words : v \in Nat /\ v < Size
    BY WordSizes DEF Words
  <2>3. MemSize \in Nat
    BY MemoryAssumption
  <2>4. /\ {T0, T1, T2, A0, S0, S1, S2} \subseteq 1 .. 31
        /\ {T0, T1, T2, A0, S0, S1, S2} \subseteq Registers
    BY ONLY InRange
  <2>5. mtime + 1 \in Nat /\ mtime + 1 < Size
    BY <2>1, <2>2
  <2> QED BY ONLY <2>1, <2>2, <2>3, <2>4, <2>5
<1>1. \A v \in Nat : v < Size => Wrap(v) = v
  <2> SUFFICES ASSUME NEW v \in Nat, v < Size PROVE Wrap(v) = v
    OBVIOUS
  <2>1. v \in Words
    BY <1>0 DEF Words
  <2> QED BY <2>1, WrapWord
<1>2. ASSUME NEW w, Holds(boot.code, p + 4 * j, w) PROVE AtWord(w)
  BY <1>0, <1>2 DEF AtWord
<1>3. ASSUME NEW r \in {T0, T1, T2, A0}, NEW v, Writes(r, v)
      PROVE  /\ WaitKeeps /\ pc' = pc + 4 /\ mtimecmp' = mtimecmp /\ regs'[r] = v
             /\ \A q \in {T0, T1, T2, A0} : q # r => regs'[q] = regs[q]
  BY <1>0, <1>3, Named DEF Writes, Advances, WaitKeeps
<1>4. T0 # T1 /\ T0 # T2 /\ T0 # A0 /\ T1 # T2 /\ T1 # A0 /\ T2 # A0
  BY Named
<1>5. CASE j = 0
  <2>1. Holds(boot.code, p + 4 * 0, enc_i(0, S0, 2, T0, OP_LOAD))
    BY <1>0 DEF WaitText
  <2>2. Writes(T0, Wrap(mtime + 1))
    BY <1>0, <1>2, <1>5, <2>1, ClockRuns
  <2>3. Wrap(mtime + 1) = mtime + 1
    BY <1>0, <1>1
  <2>4. /\ WaitKeeps /\ pc' = pc + 4 /\ regs'[T0] = mtime + 1
    BY <1>3, <2>2, <2>3
  <2>5. Turn(1, a)'
    BY <1>0, <2>4 DEF Turn, WaitKeeps
  <2>6. pc' = p + 4 * (0 + 1) /\ 0 + 1 = 1
    BY <1>0, <1>5, <2>4
  <2> QED BY <1>5, <2>4, <2>5, <2>6
<1>6. CASE j = 1
  <2>1. Holds(boot.code, p + 4 * 1, Lui(T1, a))
    BY <1>0 DEF WaitText
  <2>2. Writes(T1, Wrap(Immediate(Lui(T1, a))))
    BY <1>0, <1>2, <1>6, <2>1, LuiRuns
  <2>3. /\ WaitKeeps /\ pc' = pc + 4 /\ regs'[T0] = regs[T0]
        /\ regs'[T1] = Wrap(Immediate(Lui(T1, a)))
    BY <1>3, <1>4, <2>2
  <2>4. regs[T0] > 0 /\ regs[T0] <= mtime /\ mtime = regs[T0] + (1 - 1)
    BY <1>6 DEF Turn
  <2>5. Turn(2, a)'
    BY <1>0, <2>3, <2>4 DEF Turn, WaitKeeps
  <2>6. pc' = p + 4 * (1 + 1) /\ 1 + 1 = 2
    BY <1>0, <1>6, <2>3
  <2> QED BY <1>6, <2>3, <2>5, <2>6
<1>7. CASE j = 2
  <2>1. Holds(boot.code, p + 4 * 2, Addi(T1, a))
    BY <1>0 DEF WaitText
  <2>2. /\ regs[T0] > 0 /\ regs[T0] <= mtime /\ mtime = regs[T0] + (2 - 1)
        /\ regs[T1] = Wrap(Immediate(Lui(T1, a)))
    BY <1>7 DEF Turn
  <2>3. Writes(T1, a)
    BY <1>0, <1>2, <1>7, <2>1, <2>2, AddiRuns
  <2>4. /\ WaitKeeps /\ pc' = pc + 4 /\ regs'[T0] = regs[T0] /\ regs'[T1] = a
    BY <1>3, <1>4, <2>3
  <2>5. Turn(3, a)'
    BY <1>0, <2>2, <2>4 DEF Turn, WaitKeeps
  <2>6. pc' = p + 4 * (2 + 1) /\ 2 + 1 = 3
    BY <1>0, <1>7, <2>4
  <2> QED BY <1>7, <2>4, <2>5, <2>6
<1>8. CASE j = 3
  <2>1. Holds(boot.code, p + 4 * 3, Sum(T1, T1, T0))
    BY <1>0 DEF WaitText
  <2>2. /\ regs[T0] > 0 /\ regs[T0] <= mtime /\ mtime = regs[T0] + (3 - 1) /\ regs[T1] = a
    BY <1>8 DEF Turn
  <2>3. Writes(T1, Wrap(regs[T1] + regs[T0]))
    BY <1>0, <1>2, <1>8, <2>1, SumRuns
  <2>4. Wrap(regs[T1] + regs[T0]) = a + regs[T0]
    <3>1. a + regs[T0] \in Nat /\ a + regs[T0] < Size
      BY <1>0, <2>2
    <3> QED BY <1>1, <2>2, <3>1
  <2>5. /\ WaitKeeps /\ pc' = pc + 4 /\ regs'[T0] = regs[T0] /\ regs'[T1] = a + regs[T0]
    BY <1>3, <1>4, <2>3, <2>4
  <2>6. Turn(4, a)'
    BY <1>0, <2>2, <2>5 DEF Turn, WaitKeeps
  <2>7. pc' = p + 4 * (3 + 1) /\ 3 + 1 = 4
    BY <1>0, <1>8, <2>5
  <2> QED BY <1>8, <2>5, <2>6, <2>7
<1>9. CASE j = 4
  <2>1. Holds(boot.code, p + 4 * 4, enc_s(0, T1, S1, 2, OP_STORE))
    BY <1>0 DEF WaitText
  <2>2. /\ regs[T0] > 0 /\ regs[T0] <= mtime /\ mtime = regs[T0] + (4 - 1)
        /\ regs[T1] = a + regs[T0]
    BY <1>9 DEF Turn
  <2>3. /\ Advances /\ mtimecmp' = Deadline(regs[T1])
        /\ UNCHANGED <<regs, fregs, fflags, mem, out>>
    BY <1>0, <1>2, <1>9, <2>1, AlarmRuns
  <2>4. Deadline(regs[T1]) = regs[T0] + a
    <3>1. Wrap(mtimecmp) = mtimecmp
      BY WrapWord
    <3> QED BY <1>0, <2>2, <3>1 DEF Deadline
  <2>5. regs[T0] + a \in Words
    BY <1>0, <2>2 DEF Words
  <2>6. WaitKeeps /\ pc' = pc + 4 /\ mtimecmp' = regs[T0] + a /\ regs' = regs
    BY <2>3, <2>4, <2>5 DEF WaitKeeps, Advances
  <2>7. Turn(5, a)'
    BY <1>0, <2>2, <2>6 DEF Turn, WaitKeeps
  <2>8. pc' = p + 4 * (4 + 1) /\ 4 + 1 = 5
    BY <1>0, <1>9, <2>6
  <2> QED BY <1>9, <2>6, <2>7, <2>8
<1>10. CASE j = 5
  <2>1. Holds(boot.code, p + 4 * 5, CsrWord(2, T2, CSR_MIP, 0))
    BY <1>0 DEF WaitText
  <2>2. /\ regs[T0] > 0 /\ regs[T0] <= mtime /\ mtimecmp = regs[T0] + a
        /\ mtime >= regs[T0] + 4 /\ (mtime = regs[T0] + 4 \/ mtime <= regs[T0] + a)
    BY <1>10 DEF Turn
  <2>3. /\ Advances
        /\ regs' = [regs EXCEPT ![T2] = IF mtimecmp # 0 /\ mtime + 1 >= mtimecmp
                                        THEN MIP_MTIP ELSE 0]
        /\ UNCHANGED <<fregs, mem, mtimecmp, out>>
    BY <1>0, <1>2, <1>10, <2>1, MipRuns
  <2>4. /\ regs'[T0] = regs[T0] /\ mtimecmp' = mtimecmp /\ pc' = pc + 4 /\ WaitKeeps
        /\ regs'[T2] = IF mtimecmp # 0 /\ mtime + 1 >= mtimecmp THEN MIP_MTIP ELSE 0
    BY <1>0, <2>3, Named DEF Advances, WaitKeeps
  <2>5. regs'[T2] = 0 <=> mtime + 1 < regs[T0] + a
    <3>1. mtimecmp # 0 /\ MIP_MTIP # 0
      BY <1>0, <2>2 DEF MIP_MTIP
    <3> QED BY <1>0, <2>2, <2>4, <3>1
  <2>6. Turn(6, a)'
    BY <1>0, <2>2, <2>4, <2>5 DEF Turn, WaitKeeps
  <2>7. pc' = p + 4 * (5 + 1) /\ 5 + 1 = 6
    BY <1>0, <1>10, <2>4
  <2> QED BY <1>10, <2>4, <2>6, <2>7
<1>11. CASE j = 6
  <2>1. Holds(boot.code, p + 4 * 6, enc_b(-4, 0, T2, 0, OP_BRANCH))
    BY <1>0 DEF WaitText
  <2>2. /\ regs[T0] > 0 /\ regs[T0] <= mtime /\ mtimecmp = regs[T0] + a
        /\ mtime >= regs[T0] + 5
        /\ IF regs[T2] = 0 THEN mtime < regs[T0] + a
           ELSE mtime >= regs[T0] + a /\ (mtime = regs[T0] + 5 \/ mtime <= regs[T0] + a + 1)
    BY <1>11 DEF Turn
  <2>3. pc + -4 \in Words /\ pc + -4 = p + 4 * 5 /\ pc + 4 = p + 4 * 7
    <3>1. MemSize < Size
      BY MemoryAssumption, WordSizes
    <3> QED BY <1>0, <1>11, <3>1 DEF Words
  <2>4. /\ mtime' = mtime + 1 /\ boot' = boot /\ state' = "RUNNING"
        /\ pc' = IF taken(0, regs[T2], regs[0]) THEN pc + -4 ELSE pc + 4
        /\ UNCHANGED <<regs, fregs, fflags, mem, mtimecmp, out>>
    <3>1. /\ -4 \in Int /\ -4096 <= -4 /\ -4 < 4096 /\ (-4) % 2 = 0 /\ 0 \in BranchKinds
          /\ 0 \in Registers /\ T2 \in Registers
      BY <1>0 DEF BranchKinds, Registers
    <3>2. AtWord(enc_b(-4, 0, T2, 0, OP_BRANCH))
      BY <1>2, <1>11, <2>1
    <3> QED BY ONLY CInv, Step, <2>3, <3>1, <3>2, BranchRuns
  <2>5. taken(0, regs[T2], regs[0]) <=> regs[T2] = 0
    BY <1>0 DEF taken
  <2>6. WaitKeeps
    BY <2>4 DEF WaitKeeps
  <2>7. CASE regs[T2] = 0
    <3>1. pc' = p + 4 * 5
      BY <2>3, <2>4, <2>5, <2>7
    <3>2. Turn(5, a)'
      BY <1>0, <2>2, <2>4, <2>7 DEF Turn
    <3> QED BY <1>11, <2>6, <3>1, <3>2
  <2>8. CASE regs[T2] # 0
    <3>1. pc' = p + 4 * (6 + 1) /\ 6 + 1 = 7
      BY <2>3, <2>4, <2>5, <2>8
    <3>2. Turn(7, a)'
      BY <1>0, <2>2, <2>4, <2>8 DEF Turn
    <3> QED BY <1>11, <2>6, <3>1, <3>2
  <2> QED BY <2>7, <2>8
<1>12. CASE j = 7
  <2>1. Holds(boot.code, p + 4 * 7, enc_i(0, S0, 2, A0, OP_LOAD))
    BY <1>0 DEF WaitText
  <2>2. /\ regs[T0] > 0 /\ regs[T0] <= mtime
        /\ mtime >= regs[T0] + a + 1 /\ (mtime = regs[T0] + 6 \/ mtime <= regs[T0] + a + 2)
    BY <1>12 DEF Turn
  <2>3. Writes(A0, Wrap(mtime + 1))
    BY <1>0, <1>2, <1>12, <2>1, ClockRuns
  <2>4. Wrap(mtime + 1) = mtime + 1
    BY <1>0, <1>1
  <2>5. WaitKeeps /\ pc' = pc + 4 /\ regs'[A0] = mtime + 1 /\ regs'[T0] = regs[T0]
    BY <1>3, <1>4, <2>3, <2>4
  <2>6. Turn(8, a)'
    BY <1>0, <2>2, <2>5 DEF Turn, Waited
  <2>7. pc' = p + 4 * (7 + 1) /\ 7 + 1 = 8
    BY <1>0, <1>12, <2>5
  <2> QED BY <1>12, <2>5, <2>6, <2>7
<1>13. CASE j = 8
  <2>1. Holds(boot.code, p + 4 * 8, Minus(A0, A0, T0))
    BY <1>0 DEF WaitText
  <2>2. regs[T0] <= regs[A0] /\ Waited(a, regs[A0] - regs[T0])
    BY <1>13 DEF Turn
  <2>3. Writes(A0, Wrap(regs[A0] - regs[T0]))
    BY <1>0, <1>2, <1>13, <2>1, MinusRuns
  <2>4. Wrap(regs[A0] - regs[T0]) = regs[A0] - regs[T0]
    <3>1. regs[A0] \in Nat /\ regs[T0] \in Nat /\ regs[A0] < Size
      BY <1>0
    <3>2. regs[A0] - regs[T0] \in Nat /\ regs[A0] - regs[T0] < Size
      BY <1>0, <2>2, <3>1
    <3> QED BY <1>1, <3>2
  <2>5. WaitKeeps /\ pc' = pc + 4 /\ regs'[A0] = regs[A0] - regs[T0]
    BY <1>3, <2>3, <2>4
  <2>6. Turn(9, a)'
    BY <2>2, <2>5 DEF Turn
  <2>7. pc' = p + 4 * (8 + 1) /\ 8 + 1 = 9
    BY <1>0, <1>13, <2>5
  <2> QED BY <1>13, <2>5, <2>6, <2>7
<1> QED BY <1>5, <1>6, <1>7, <1>8, <1>9, <1>10, <1>11, <1>12, <1>13

\* Before the first wait the two addresses are loaded.
Preparing(k) ==
    /\ k = 1 => regs[S0] = Wrap(Immediate(Lui(S0, CLINT_MTIME_LO)))
    /\ k \in {2, 3} => regs[S0] = CLINT_MTIME_LO
    /\ k = 3 => regs[S1] = Wrap(Immediate(Lui(S1, CLINT_MTIMECMP_LO)))

Prepared == regs[S0] = CLINT_MTIME_LO /\ regs[S1] = CLINT_MTIMECMP_LO

\* Where the program is: it prepares, it waits d ticks, or it has and waits e ticks.
Prepares == \E k \in 0 .. 3 : pc = TEXT + 4 * k /\ Preparing(k)
WaitsFirst(d) == Prepared /\ \E j \in 0 .. 9 : pc = (TEXT + 16) + 4 * j /\ Turn(j, d)
WaitsAgain(d, e) ==
    /\ Prepared /\ Waited(d, regs[S2])
    /\ \E j \in 0 .. 9 : pc = (TEXT + 56) + 4 * j /\ Turn(j, e)

DelayFacts(d, e) ==
    /\ mtime \in boot.mtime .. boot.mtime + 200 /\ mtimecmp \in Words
    /\ state = "RUNNING" => Prepares \/ WaitsFirst(d) \/ WaitsAgain(d, e)
    /\ state # "RUNNING" => state = "HALTED" /\ Waited(d, regs[S2]) /\ Waited(e, regs[A0])

\* A step of the preparation.
LEMMA PrepareStep ==
  ASSUME CInv, Step, XLEN <= 32, TextFits(24), NEW d, NEW e,
         DelaysText(boot.code, d, e), Prepares
  PROVE  /\ boot' = boot /\ mtime' = mtime + 1 /\ state' = "RUNNING" /\ mtimecmp' = mtimecmp
         /\ Prepares' \/ WaitsFirst(d)'
<1>1. PICK k \in 0 .. 3 : pc = TEXT + 4 * k /\ Preparing(k)
  BY DEF Prepares
<1>2. /\ TEXT \in Nat /\ TEXT % 2 = 0 /\ TEXT + 96 <= MemSize /\ MemSize \in Nat
      /\ CLINT_MTIME_LO \in Words /\ CLINT_MTIMECMP_LO \in Words
      /\ regs \in [Registers -> Words]
      /\ S0 \in 1 .. 31 /\ S1 \in 1 .. 31 /\ S0 \in Registers /\ S1 \in Registers /\ S0 # S1
  <2>1. TEXT \in Nat /\ TEXT % 2 = 0 /\ TEXT + 96 <= MemSize
    BY DEF TextFits
  <2>2. MemSize \in Nat
    BY MemoryAssumption
  <2>3. S0 # S1
    BY Named
  <2> QED BY <2>1, <2>2, <2>3, Outside, InRange DEF CInv, CTypeOK
<1>3. ASSUME NEW w, Holds(boot.code, TEXT + 4 * k, w) PROVE AtWord(w)
  BY <1>1, <1>2, <1>3 DEF AtWord
<1>4. ASSUME NEW r, NEW v, Writes(r, v)
      PROVE  /\ boot' = boot /\ mtime' = mtime + 1 /\ state' = "RUNNING" /\ mtimecmp' = mtimecmp
             /\ pc' = TEXT + 4 * (k + 1) /\ regs' = [regs EXCEPT ![r] = v]
  BY <1>1, <1>2, <1>4 DEF Writes, Advances
<1>5. CASE k = 0
  <2>1. Holds(boot.code, TEXT + 4 * 0, Lui(S0, CLINT_MTIME_LO))
    BY <1>2 DEF DelaysText
  <2>2. Writes(S0, Wrap(Immediate(Lui(S0, CLINT_MTIME_LO))))
    BY <1>2, <1>3, <1>5, <2>1, LuiRuns
  <2>3. pc' = TEXT + 4 * 1 /\ Preparing(1)'
    BY <1>2, <1>4, <1>5, <2>2 DEF Preparing
  <2>4. 1 \in 0 .. 3
    OBVIOUS
  <2> QED BY <1>4, <2>2, <2>3, <2>4 DEF Prepares
<1>6. CASE k = 1
  <2>1. Holds(boot.code, TEXT + 4 * 1, Addi(S0, CLINT_MTIME_LO))
    BY <1>2 DEF DelaysText
  <2>2. regs[S0] = Wrap(Immediate(Lui(S0, CLINT_MTIME_LO)))
    BY <1>1, <1>6 DEF Preparing
  <2>3. Writes(S0, CLINT_MTIME_LO)
    BY <1>2, <1>3, <1>6, <2>1, <2>2, AddiRuns
  <2>4. pc' = TEXT + 4 * 2 /\ Preparing(2)'
    BY <1>2, <1>4, <1>6, <2>3 DEF Preparing
  <2>5. 2 \in 0 .. 3
    OBVIOUS
  <2> QED BY <1>4, <2>3, <2>4, <2>5 DEF Prepares
<1>7. CASE k = 2
  <2>1. Holds(boot.code, TEXT + 4 * 2, Lui(S1, CLINT_MTIMECMP_LO))
    BY <1>2 DEF DelaysText
  <2>2. regs[S0] = CLINT_MTIME_LO
    BY <1>1, <1>7 DEF Preparing
  <2>3. Writes(S1, Wrap(Immediate(Lui(S1, CLINT_MTIMECMP_LO))))
    BY <1>2, <1>3, <1>7, <2>1, LuiRuns
  <2>4. pc' = TEXT + 4 * 3 /\ Preparing(3)'
    BY <1>2, <1>4, <1>7, <2>2, <2>3 DEF Preparing
  <2>5. 3 \in 0 .. 3
    OBVIOUS
  <2> QED BY <1>4, <2>3, <2>4, <2>5 DEF Prepares
<1>8. CASE k = 3
  <2>1. Holds(boot.code, TEXT + 4 * 3, Addi(S1, CLINT_MTIMECMP_LO))
    BY <1>2 DEF DelaysText
  <2>2. /\ regs[S0] = CLINT_MTIME_LO
        /\ regs[S1] = Wrap(Immediate(Lui(S1, CLINT_MTIMECMP_LO)))
    BY <1>1, <1>8 DEF Preparing
  <2>3. Writes(S1, CLINT_MTIMECMP_LO)
    BY <1>2, <1>3, <1>8, <2>1, <2>2, AddiRuns
  <2>4. pc' = (TEXT + 16) + 4 * 0 /\ Prepared'
    BY <1>2, <1>4, <1>8, <2>2, <2>3 DEF Prepared
  <2>5. Turn(0, d)' /\ 0 \in 0 .. 9
    BY DEF Turn
  <2> QED BY <1>4, <2>3, <2>4, <2>5 DEF WaitsFirst
<1> QED BY <1>5, <1>6, <1>7, <1>8

\* A step of a wait within the program.
LEMMA DelayTurn ==
  ASSUME CInv, Step, XLEN <= 32, CLINT_MTIME_LO % 4 = 0, CLINT_MTIMECMP_LO % 4 = 0,
         NEW p \in Nat, p % 2 = 0, p + 36 <= MemSize, NEW a \in Words,
         NEW top \in Nat, mtime < top, top + a < Size, Prepared,
         WaitText(boot.code, p, a), mtimecmp \in Words, NEW j \in 0 .. 8, pc = p + 4 * j, Turn(j, a)
  PROVE  /\ WaitKeeps /\ Prepared'
         /\ \E i \in 0 .. 9 : pc' = p + 4 * i /\ Turn(i, a)'
<1>1. /\ WaitKeeps
      /\ \/ pc' = p + 4 * (j + 1) /\ Turn(j + 1, a)'
         \/ j = 6 /\ pc' = p + 4 * 5 /\ Turn(5, a)'
  BY WaitStep DEF Prepared
<1>2. j + 1 \in 0 .. 9 /\ 5 \in 0 .. 9
  OBVIOUS
<1> QED BY <1>1, <1>2 DEF Prepared, WaitKeeps

\* Every step of the program keeps the facts.
LEMMA DelaysStep ==
  ASSUME CInv, Step, XLEN <= 32, TextFits(24), CLINT_MTIME_LO % 4 = 0, CLINT_MTIMECMP_LO % 4 = 0,
         NEW d \in Words, NEW e \in Words, boot.mtime \in Nat, boot.max_steps = 200,
         boot.mtime + 200 + d < Size, boot.mtime + 200 + e < Size,
         DelaysText(boot.code, d, e), DelayFacts(d, e)
  PROVE  DelayFacts(d, e)'
<1> DEFINE top == boot.mtime + 200
<1>1. /\ state = "RUNNING" /\ mtime \in Nat /\ mtime >= boot.mtime /\ mtime < top /\ top \in Nat
      /\ top + d < Size /\ top + e < Size /\ mtimecmp \in Words /\ boot' = boot
      /\ TEXT \in Nat /\ TEXT + 16 \in Nat /\ (TEXT + 16) % 2 = 0 /\ (TEXT + 16) + 36 <= MemSize
      /\ TEXT + 56 \in Nat /\ (TEXT + 56) % 2 = 0 /\ (TEXT + 56) + 36 <= MemSize
      /\ MemSize \in Nat /\ TEXT + 96 <= MemSize
  <2>1. state = "RUNNING" /\ mtime - boot.mtime < 200 /\ boot' = boot
    BY DEF Step, Going
  <2>2. mtime \in boot.mtime .. boot.mtime + 200 /\ mtimecmp \in Words
    BY DEF DelayFacts
  <2>3. TEXT \in Nat /\ TEXT % 2 = 0 /\ TEXT + 96 <= MemSize /\ MemSize \in Nat
    BY MemoryAssumption DEF TextFits
  <2> QED BY <2>1, <2>2, <2>3, WordSizes DEF Words
<1> HIDE DEF top
<1>2. ASSUME mtime' = mtime + 1 PROVE mtime' \in boot'.mtime .. boot'.mtime + 200
  BY <1>1, <1>2 DEF top
<1>3. WaitText(boot.code, TEXT + 16, d) /\ WaitText(boot.code, TEXT + 56, e)
  BY DEF DelaysText
<1>4. CASE Prepares
  <2>1. /\ boot' = boot /\ mtime' = mtime + 1 /\ state' = "RUNNING" /\ mtimecmp' = mtimecmp
        /\ Prepares' \/ WaitsFirst(d)'
    BY <1>4, PrepareStep
  <2> QED BY <1>1, <1>2, <2>1 DEF DelayFacts
<1>5. CASE WaitsFirst(d)
  <2>1. PICK j \in 0 .. 9 : pc = (TEXT + 16) + 4 * j /\ Turn(j, d)
    BY <1>5 DEF WaitsFirst
  <2>2. Prepared
    BY <1>5 DEF WaitsFirst
  <2>3. CASE j \in 0 .. 8
    <3>1. /\ WaitKeeps /\ Prepared'
          /\ \E i \in 0 .. 9 : pc' = (TEXT + 16) + 4 * i /\ Turn(i, d)'
      BY <1>1, <1>3, <2>1, <2>2, <2>3, DelayTurn
    <3>2. WaitsFirst(d)'
      BY <3>1 DEF WaitsFirst
    <3> QED BY <1>2, <3>1, <3>2 DEF DelayFacts, WaitKeeps
  <2>4. CASE j = 9
    <3>1. pc = TEXT + 52 /\ Waited(d, regs[A0])
      BY <1>1, <2>1, <2>4 DEF Turn
    <3>2. Holds(boot.code, TEXT + 52, enc_i(0, A0, 0, S2, OP_ALUI))
      BY DEF DelaysText
    <3>3. AtWord(enc_i(0, A0, 0, S2, OP_ALUI))
      BY <1>1, <3>1, <3>2 DEF AtWord
    <3>4. Writes(S2, Wrap(regs[A0] + Wrap(0)))
      <4>1. S2 \in 1 .. 31 /\ A0 \in Registers /\ 0 \in Int /\ -2048 <= 0 /\ 0 < 2048
        BY InRange
      <4> QED BY <3>3, <4>1, AddRuns
    <3>5. Wrap(regs[A0] + Wrap(0)) = regs[A0]
      <4>1. regs[A0] \in Words /\ 0 \in Words
        BY InRange, WordSizes DEF CInv, CTypeOK
      <4>2. Wrap(0) = 0 /\ Wrap(regs[A0]) = regs[A0] /\ regs[A0] + 0 = regs[A0]
        BY <4>1, WrapWord DEF Words
      <4> QED BY <4>2
    <3>6. /\ mtime' = mtime + 1 /\ state' = "RUNNING" /\ pc' = pc + 4 /\ mtimecmp' = mtimecmp
          /\ regs' = [regs EXCEPT ![S2] = regs[A0]]
      BY <3>4, <3>5 DEF Writes, Advances
    <3>7. /\ regs'[S2] = regs[A0] /\ regs'[S0] = regs[S0] /\ regs'[S1] = regs[S1]
      BY <3>6, InRange, Named DEF CInv, CTypeOK
    <3>8. pc' = (TEXT + 56) + 4 * 0
      BY <1>1, <3>1, <3>6
    <3>9. Turn(0, e)' /\ 0 \in 0 .. 9
      BY DEF Turn
    <3>10. WaitsAgain(d, e)'
      BY <2>2, <3>1, <3>7, <3>8, <3>9 DEF WaitsAgain, Prepared
    <3> QED BY <1>1, <1>2, <3>6, <3>10 DEF DelayFacts
  <2> QED BY <2>1, <2>3, <2>4
<1>6. CASE WaitsAgain(d, e)
  <2>1. PICK j \in 0 .. 9 : pc = (TEXT + 56) + 4 * j /\ Turn(j, e)
    BY <1>6 DEF WaitsAgain
  <2>2. Prepared /\ Waited(d, regs[S2])
    BY <1>6 DEF WaitsAgain
  <2>3. CASE j \in 0 .. 8
    <3>1. /\ WaitKeeps /\ Prepared'
          /\ \E i \in 0 .. 9 : pc' = (TEXT + 56) + 4 * i /\ Turn(i, e)'
      BY <1>1, <1>3, <2>1, <2>2, <2>3, DelayTurn
    <3>2. WaitsAgain(d, e)'
      BY <2>2, <3>1 DEF WaitsAgain, WaitKeeps
    <3> QED BY <1>2, <3>1, <3>2 DEF DelayFacts, WaitKeeps
  <2>4. CASE j = 9
    <3>1. pc = TEXT + 92 /\ Waited(e, regs[A0])
      BY <1>1, <2>1, <2>4 DEF Turn
    <3>2. Holds(boot.code, TEXT + 92, EBREAK)
      BY DEF DelaysText
    <3>3. AtWord(EBREAK)
      BY <1>1, <3>1, <3>2 DEF AtWord
    <3>4. /\ mtime' = mtime + 1 /\ state' = "HALTED" /\ regs' = regs /\ mtimecmp' = mtimecmp
      BY <3>3, EbreakRuns
    <3> QED BY <1>1, <1>2, <2>2, <3>1, <3>4 DEF DelayFacts
  <2> QED BY <2>1, <2>3, <2>4
<1> QED BY <1>1, <1>4, <1>5, <1>6 DEF DelayFacts

\* What is known of the program at any time.
DelayInv ==
    boot.name = "delays" =>
        \E d, e \in Words :
            /\ boot.args = <<d, e>> /\ DelaysText(boot.code, d, e)
            /\ boot.mtime \in Nat /\ boot.max_steps = 200
            /\ boot.mtime + 200 + d < Size /\ boot.mtime + 200 + e < Size
            /\ DelayFacts(d, e)

\* On words of every width up to 32, at whatever time it is booted and whatever the two
\* delays are, the timer program waits as long as it was asked to and at most one turn of its
\* loop more, and the interrupt still pending from the first wait does not cut the second one
\* short (trap.c:100-111, execute.c:211, execute.c:286), whatever else is booted.  Time and
\* deadline must fit the low words of the two registers: the program reads and writes no more.
THEOREM WaitsEndInTime ==
  ASSUME HostTyped, XLEN <= 32, TextFits(24), CLINT_MTIME_LO % 4 = 0, CLINT_MTIMECMP_LO % 4 = 0,
         NEW ds \in SUBSET Words, NEW starts \in SUBSET Nat,
         \A d \in ds, s \in starts : s + 200 + d < Size,
         \A b \in Boots : b.name = "delays" => b \in Delays(ds, starts)
  PROVE  Spec => []WaitsAsAsked
<1>1. Init => CInv
  BY InitType
<1>2. CInv /\ [Next]_vars => CInv'
  BY StepType
<1>3. Init => DelayInv
  <2> SUFFICES ASSUME Init, boot.name = "delays"
               PROVE  \E d, e \in Words :
                        /\ boot.args = <<d, e>> /\ DelaysText(boot.code, d, e)
                        /\ boot.mtime \in Nat /\ boot.max_steps = 200
                        /\ boot.mtime + 200 + d < Size /\ boot.mtime + 200 + e < Size
                        /\ DelayFacts(d, e)
    BY DEF DelayInv
  <2>1. boot \in Delays(ds, starts)
    BY DEF Init
  <2>2. PICK d \in ds, e \in ds, s \in starts :
            boot = [Booted("delays", <<d, e>>, delays(d, e), 200) EXCEPT !.mtime = s]
    BY ONLY <2>1 DEF Delays
  <2>3. /\ boot.args = <<d, e>> /\ boot.code = assemble(delays(d, e), TEXT) /\ boot.entry = TEXT
        /\ boot.mtime = s /\ boot.max_steps = 200
    BY <2>2 DEF Booted
  <2>4. DelaysText(boot.code, d, e)
    BY <2>3, DelaysAssembled DEF TextFits
  <2>5. mtime = s /\ pc = TEXT /\ state = "RUNNING" /\ TEXT \in Nat /\ s \in Nat /\ mtimecmp = 0
    BY <2>3 DEF Init, TextFits
  <2>6. DelayFacts(d, e)
    <3>1. pc = TEXT + 4 * 0 /\ 0 \in 0 .. 3 /\ mtimecmp \in Words
      BY <2>5, WordSizes
    <3>2. Preparing(0)
      BY DEF Preparing
    <3>3. mtime \in boot.mtime .. boot.mtime + 200
      BY <2>3, <2>5
    <3>4. Prepares
      BY <3>1, <3>2 DEF Prepares
    <3> QED BY <2>5, <3>1, <3>3, <3>4 DEF DelayFacts
  <2>7. d \in Words /\ e \in Words /\ s + 200 + d < Size /\ s + 200 + e < Size
    OBVIOUS
  <2> QED BY <2>3, <2>4, <2>5, <2>6, <2>7
<1>4. CInv /\ DelayInv /\ [Next]_vars => DelayInv'
  <2> SUFFICES ASSUME CInv, DelayInv, [Next]_vars PROVE DelayInv'
    OBVIOUS
  <2>1. CASE UNCHANGED vars
    BY <2>1 DEF vars, DelayInv, DelayFacts, Prepares, Preparing, WaitsFirst, WaitsAgain, Prepared, Turn
  <2>2. CASE Step
    <3>1. boot' = boot
      BY <2>2 DEF Step
    <3> SUFFICES ASSUME boot.name = "delays" PROVE DelayInv'
      BY <3>1 DEF DelayInv
    <3>2. PICK d, e \in Words : /\ boot.args = <<d, e>> /\ DelaysText(boot.code, d, e)
                                /\ boot.mtime \in Nat /\ boot.max_steps = 200
                                /\ boot.mtime + 200 + d < Size /\ boot.mtime + 200 + e < Size
                                /\ DelayFacts(d, e)
      BY DEF DelayInv
    <3>3. DelayFacts(d, e)'
      BY <2>2, <3>2, DelaysStep
    <3> QED BY <3>1, <3>2, <3>3 DEF DelayInv
  <2> QED BY <2>1, <2>2 DEF Next, Returned
<1>5. CInv /\ DelayInv => WaitsAsAsked
  <2> SUFFICES ASSUME DelayInv, boot.name = "delays", state = "HALTED", NEW k \in 1 .. 2
               PROVE  /\ regs[<<S2, A0>>[k]] >= boot.args[k]
                      /\ regs[<<S2, A0>>[k]] <= (IF boot.args[k] < 5 THEN 5 ELSE boot.args[k]) + 3
    BY DEF WaitsAsAsked, Ended
  <2>1. PICK d, e \in Words : boot.args = <<d, e>> /\ DelayFacts(d, e)
    BY DEF DelayInv
  <2>2. Waited(d, regs[S2]) /\ Waited(e, regs[A0])
    BY <2>1 DEF DelayFacts
  <2>3. CASE k = 1
    BY <2>1, <2>2, <2>3 DEF Waited
  <2>4. CASE k = 2
    BY <2>1, <2>2, <2>4 DEF Waited
  <2> QED BY <2>3, <2>4
<1> QED BY <1>1, <1>2, <1>3, <1>4, <1>5, PTL DEF Spec
=============================================================================
