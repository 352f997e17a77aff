---------------------------- MODULE OutputProofs ----------------------------
(***************************************************************************)
(* What the programs that write promise, for every argument and every width of *)
(* words up to 32.  Two of them have loops, so their facts are indexed by the    *)
(* word at pc: for each part of a program there is a predicate on the state      *)
(* before each of its words, and a lemma that a step leads from one to the       *)
(* next.  The facts of the third, which calls, are indexed by the time.          *)
(***************************************************************************)
EXTENDS FirmwareProofs

-----------------------------------------------------------------------------
\* The program that fills memory and prints it.

\* The words of the program.
PrintText(c, a, n, len) ==
    /\ Holds(c, TEXT, Lui(A1, a))
    /\ Holds(c, TEXT + 4, Addi(A1, a))
    /\ Holds(c, TEXT + 8, enc_i(0, A1, 0, T0, OP_ALUI))
    /\ Holds(c, TEXT + 12, Lui(T1, 1))
    /\ Holds(c, TEXT + 16, Addi(T1, 1))
    /\ Holds(c, TEXT + 20, Lui(T2, n + 1))
    /\ Holds(c, TEXT + 24, Addi(T2, n + 1))
    /\ Holds(c, TEXT + 28, enc_s(0, T1, T0, 0, OP_STORE))
    /\ Holds(c, TEXT + 32, enc_i(1, T0, 0, T0, OP_ALUI))
    /\ Holds(c, TEXT + 36, enc_i(1, T1, 0, T1, OP_ALUI))
    /\ Holds(c, TEXT + 40, enc_b(-12, T2, T1, 1, OP_BRANCH))
    /\ Holds(c, TEXT + 44, Lui(A2, len))
    /\ Holds(c, TEXT + 48, Addi(A2, len))
    /\ Holds(c, TEXT + 52, Lui(A7, 64))
    /\ Holds(c, TEXT + 56, Addi(A7, 64))
    /\ Holds(c, TEXT + 60, ECALL)
    /\ Holds(c, TEXT + 64, enc_b(16, 0, A0, 0, OP_BRANCH))
    /\ Holds(c, TEXT + 68, Sum(A1, A1, A0))
    /\ Holds(c, TEXT + 72, Minus(A2, A2, A0))
    /\ Holds(c, TEXT + 76, enc_b(-16, 0, A2, 1, OP_BRANCH))
    /\ Holds(c, TEXT + 80, EBREAK)

\* The assembler puts them there.
LEMMA PrintAssembled ==
  ASSUME TEXT \in Nat, NEW a, NEW n, NEW len
  PROVE  PrintText(assemble(print(a, n, len), TEXT), a, n, len)
<1> DEFINE items == print(a, n, len)
           c == assemble(items, TEXT)
<1>1. /\ Len(items) = 19
      /\ items[1] = li32(A1, a)
      /\ items[2] = Word(enc_i(0, A1, 0, T0, OP_ALUI))
      /\ items[3] = li32(T1, 1)
      /\ items[4] = li32(T2, n + 1)
      /\ items[5] = Label("fill")
      /\ items[6] = Word(enc_s(0, T1, T0, 0, OP_STORE))
      /\ items[7] = Word(enc_i(1, T0, 0, T0, OP_ALUI))
      /\ items[8] = Word(enc_i(1, T1, 0, T1, OP_ALUI))
      /\ items[9] = branch(1, T1, T2, "fill")
      /\ items[10] = li32(A2, len)
      /\ items[11] = li32(A7, 64)
      /\ items[12] = Label("more")
      /\ items[13] = Word(ECALL)
      /\ items[14] = branch(0, A0, 0, "done")
      /\ items[15] = Word(Sum(A1, A1, A0))
      /\ items[16] = Word(Minus(A2, A2, A0))
      /\ items[17] = branch(1, A2, 0, "more")
      /\ items[18] = Label("done")
      /\ items[19] = Word(EBREAK)
  BY EcallIsWord, EbreakIsWord DEF print, mv, addi, sb, store, bne, beq, bnez, add, sub, op, Sum, Minus,
       ecall, ebreak, system
<1> HIDE DEF items
<1>2. /\ items[1].kind = "li32"
      /\ items[2].kind = "word"
      /\ items[3].kind = "li32"
      /\ items[4].kind = "li32"
      /\ items[5].kind = "label" /\ items[5].name = "fill"
      /\ items[6].kind = "word"
      /\ items[7].kind = "word"
      /\ items[8].kind = "word"
      /\ items[9].kind = "branch"
      /\ items[10].kind = "li32"
      /\ items[11].kind = "li32"
      /\ items[12].kind = "label" /\ items[12].name = "more"
      /\ items[13].kind = "word"
      /\ items[14].kind = "branch"
      /\ items[15].kind = "word"
      /\ items[16].kind = "word"
      /\ items[17].kind = "branch"
      /\ items[18].kind = "label" /\ items[18].name = "done"
      /\ items[19].kind = "word"
  BY <1>1 DEF li32, Word, Label, branch
<1>3. \A k \in 1 .. 19 : items[k].kind = "label" => k \in {5, 12, 18}
  <2> SUFFICES ASSUME NEW k \in 1 .. 19, items[k].kind = "label" PROVE k \in {5, 12, 18}
    OBVIOUS
  <2>1. k \in {1, 2, 3, 4, 5, 6, 7, 8, 9, 10, 11, 12, 13, 14, 15, 16, 17, 18, 19}
    OBVIOUS
  <2> QED BY ONLY <1>2, <2>1, items[k].kind = "label"
<1>4. /\ Labels(items, "fill", 5)
      /\ Labels(items, "more", 12)
      /\ Labels(items, "done", 18)
  <2>1. 5 \in 1 .. 19 /\ 12 \in 1 .. 19 /\ 18 \in 1 .. 19
    OBVIOUS
  <2> QED BY ONLY <1>1, <1>2, <1>3, <2>1 DEF Labels
<1>5. /\ Holds(c, TEXT, Lui(A1, a))
      /\ Holds(c, TEXT + 4, Addi(A1, a))
      /\ ItemAt(items, TEXT, 2, 8)
  <2>1. items[1] = li32(A1, a) /\ Len(items) \in Nat /\ Len(items) >= 1 /\ TEXT \in Int
    BY ONLY <1>1, TEXT \in Nat
  <2> QED BY ONLY <2>1, FirstConstant DEF c
<1>6. Holds(c, TEXT + 8, enc_i(0, A1, 0, T0, OP_ALUI)) /\ ItemAt(items, TEXT, 3, 12)
  <2>1. items[2] = Word(enc_i(0, A1, 0, T0, OP_ALUI)) /\ 2 <= Len(items) /\ TEXT \in Int
    BY ONLY <1>1, TEXT \in Nat
  <2> QED BY ONLY <1>5, <2>1, NextWord DEF c
<1>7. /\ Holds(c, TEXT + 12, Lui(T1, 1))
      /\ Holds(c, TEXT + 16, Addi(T1, 1))
      /\ ItemAt(items, TEXT, 4, 20)
  <2>1. items[3] = li32(T1, 1) /\ 3 <= Len(items) /\ TEXT \in Int
    BY ONLY <1>1, TEXT \in Nat
  <2> QED BY ONLY <1>6, <2>1, NextConstant DEF c
<1>8. /\ Holds(c, TEXT + 20, Lui(T2, n + 1))
      /\ Holds(c, TEXT + 24, Addi(T2, n + 1))
      /\ ItemAt(items, TEXT, 5, 28)
  <2>1. items[4] = li32(T2, n + 1) /\ 4 <= Len(items) /\ TEXT \in Int
    BY ONLY <1>1, TEXT \in Nat
  <2> QED BY ONLY <1>7, <2>1, NextConstant DEF c
<1>9. ItemAt(items, TEXT, 6, 28)
  <2>1. items[5] = Label("fill") /\ 5 <= Len(items) /\ TEXT \in Int
    BY ONLY <1>1, TEXT \in Nat
  <2> QED BY ONLY <1>8, <2>1, NextLabel DEF c
<1>10. Holds(c, TEXT + 28, enc_s(0, T1, T0, 0, OP_STORE)) /\ ItemAt(items, TEXT, 7, 32)
  <2>1. items[6] = Word(enc_s(0, T1, T0, 0, OP_STORE)) /\ 6 <= Len(items) /\ TEXT \in Int
    BY ONLY <1>1, TEXT \in Nat
  <2> QED BY ONLY <1>9, <2>1, NextWord DEF c
<1>11. Holds(c, TEXT + 32, enc_i(1, T0, 0, T0, OP_ALUI)) /\ ItemAt(items, TEXT, 8, 36)
  <2>1. items[7] = Word(enc_i(1, T0, 0, T0, OP_ALUI)) /\ 7 <= Len(items) /\ TEXT \in Int
    BY ONLY <1>1, TEXT \in Nat
  <2> QED BY ONLY <1>10, <2>1, NextWord DEF c
<1>12. Holds(c, TEXT + 36, enc_i(1, T1, 0, T1, OP_ALUI)) /\ ItemAt(items, TEXT, 9, 40)
  <2>1. items[8] = Word(enc_i(1, T1, 0, T1, OP_ALUI)) /\ 8 <= Len(items) /\ TEXT \in Int
    BY ONLY <1>1, TEXT \in Nat
  <2> QED BY ONLY <1>11, <2>1, NextWord DEF c
<1>13. /\ Holds(c, TEXT + 40, enc_b(-12, T2, T1, 1, OP_BRANCH))
      /\ ItemAt(items, TEXT, 10, 44)
  <2>1. items[9] = branch(1, T1, T2, "fill") /\ 9 <= Len(items) /\ TEXT \in Int
    BY ONLY <1>1, TEXT \in Nat
  <2>2. /\ Holds(c, TEXT + 40, enc_b(28 - 40, T2, T1, 1, OP_BRANCH))
        /\ ItemAt(items, TEXT, 9 + 1, 40 + 4)
    <3>1. Labels(items, "fill", 5) /\ 9 \in Int /\ 40 \in Int /\ 28 \in Int
      BY ONLY <1>4
    <3> QED BY ONLY <1>12, <1>8, <2>1, <3>1, NextBranch DEF c
  <2>3. 28 - 40 = -12 /\ 9 + 1 = 10 /\ 40 + 4 = 44
    OBVIOUS
  <2> QED BY ONLY <2>2, <2>3
<1>14. /\ Holds(c, TEXT + 44, Lui(A2, len))
      /\ Holds(c, TEXT + 48, Addi(A2, len))
      /\ ItemAt(items, TEXT, 11, 52)
  <2>1. items[10] = li32(A2, len) /\ 10 <= Len(items) /\ TEXT \in Int
    BY ONLY <1>1, TEXT \in Nat
  <2> QED BY ONLY <1>13, <2>1, NextConstant DEF c
<1>15. /\ Holds(c, TEXT + 52, Lui(A7, 64))
      /\ Holds(c, TEXT + 56, Addi(A7, 64))
      /\ ItemAt(items, TEXT, 12, 60)
  <2>1. items[11] = li32(A7, 64) /\ 11 <= Len(items) /\ TEXT \in Int
    BY ONLY <1>1, TEXT \in Nat
  <2> QED BY ONLY <1>14, <2>1, NextConstant DEF c
<1>16. ItemAt(items, TEXT, 13, 60)
  <2>1. items[12] = Label("more") /\ 12 <= Len(items) /\ TEXT \in Int
    BY ONLY <1>1, TEXT \in Nat
  <2> QED BY ONLY <1>15, <2>1, NextLabel DEF c
<1>17. Holds(c, TEXT + 60, ECALL) /\ ItemAt(items, TEXT, 14, 64)
  <2>1. items[13] = Word(ECALL) /\ 13 <= Len(items) /\ TEXT \in Int
    BY ONLY <1>1, TEXT \in Nat
  <2> QED BY ONLY <1>16, <2>1, NextWord DEF c
<1>18. ItemAt(items, TEXT, 15, 68)
  <2>1. items[14] = branch(0, A0, 0, "done") /\ 14 <= Len(items) /\ TEXT \in Int
    BY ONLY <1>1, TEXT \in Nat
  <2> QED BY ONLY <1>17, <2>1, PastBranch DEF c
<1>19. Holds(c, TEXT + 68, Sum(A1, A1, A0)) /\ ItemAt(items, TEXT, 16, 72)
  <2>1. items[15] = Word(Sum(A1, A1, A0)) /\ 15 <= Len(items) /\ TEXT \in Int
    BY ONLY <1>1, TEXT \in Nat
  <2> QED BY ONLY <1>18, <2>1, NextWord DEF c
<1>20. Holds(c, TEXT + 72, Minus(A2, A2, A0)) /\ ItemAt(items, TEXT, 17, 76)
  <2>1. items[16] = Word(Minus(A2, A2, A0)) /\ 16 <= Len(items) /\ TEXT \in Int
    BY ONLY <1>1, TEXT \in Nat
  <2> QED BY ONLY <1>19, <2>1, NextWord DEF c
<1>21. /\ Holds(c, TEXT + 76, enc_b(-16, 0, A2, 1, OP_BRANCH))
      /\ ItemAt(items, TEXT, 18, 80)
  <2>1. items[17] = branch(1, A2, 0, "more") /\ 17 <= Len(items) /\ TEXT \in Int
    BY ONLY <1>1, TEXT \in Nat
  <2>2. /\ Holds(c, TEXT + 76, enc_b(60 - 76, 0, A2, 1, OP_BRANCH))
        /\ ItemAt(items, TEXT, 17 + 1, 76 + 4)
    <3>1. Labels(items, "more", 12) /\ 17 \in Int /\ 76 \in Int /\ 60 \in Int
      BY ONLY <1>4
    <3> QED BY ONLY <1>20, <1>15, <2>1, <3>1, NextBranch DEF c
  <2>3. 60 - 76 = -16 /\ 17 + 1 = 18 /\ 76 + 4 = 80
    OBVIOUS
  <2> QED BY ONLY <2>2, <2>3
<1>22. ItemAt(items, TEXT, 19, 80)
  <2>1. items[18] = Label("done") /\ 18 <= Len(items) /\ TEXT \in Int
    BY ONLY <1>1, TEXT \in Nat
  <2> QED BY ONLY <1>21, <2>1, NextLabel DEF c
<1>23. Holds(c, TEXT + 80, EBREAK) /\ ItemAt(items, TEXT, 20, 84)
  <2>1. items[19] = Word(EBREAK) /\ 19 <= Len(items) /\ TEXT \in Int
    BY ONLY <1>1, TEXT \in Nat
  <2> QED BY ONLY <1>22, <2>1, NextWord DEF c
<1>24. Holds(c, TEXT + 64, enc_b(16, 0, A0, 0, OP_BRANCH))
  <2>1. items[14] = branch(0, A0, 0, "done") /\ 14 <= Len(items) /\ TEXT \in Int
    BY ONLY <1>1, TEXT \in Nat
  <2>2. Holds(c, TEXT + 64, enc_b(80 - 64, 0, A0, 0, OP_BRANCH))
    <3>1. Labels(items, "done", 18) /\ 14 \in Int /\ 64 \in Int /\ 80 \in Int
      BY ONLY <1>4
    <3> QED BY ONLY <1>17, <1>21, <2>1, <3>1, NextBranch DEF c
  <2>3. 80 - 64 = 16
    OBVIOUS
  <2> QED BY ONLY <2>2, <2>3
<1> QED BY <1>5, <1>6, <1>7, <1>8, <1>10, <1>11, <1>12, <1>13, <1>14, <1>15, <1>17, <1>19,
           <1>20, <1>21, <1>23, <1>24
        DEF PrintText, items

\* What the program is asked to print: n bytes from a, of which len are written.  Either
\* they are all there are, or memory ends behind them.
PrintArgs(a, n, len) ==
    /\ n \in 1 .. ByteSize - 1 /\ a \in Nat /\ a + n <= MemSize
    /\ len \in Words /\ n <= len /\ (len = n \/ a + n = MemSize)

\* The numbers from 1 to m, in the output and in the memory from a.
Counting(m) == [j \in 1 .. m |-> j]
Filled(a, m) == \A i \in 0 .. m - 1 : Byte(a + i) = i + 1

\* Before word k of the part that prepares the registers of the first loop,
Ready(k, a, n) ==
    /\ out = <<>>
    /\ k = 1 => regs[A1] = Wrap(Immediate(Lui(A1, a)))
    /\ k >= 2 => regs[A1] = a
    /\ k >= 3 => regs[T0] = a
    /\ k = 4 => regs[T1] = Wrap(Immediate(Lui(T1, 1)))
    /\ k >= 5 => regs[T1] = 1
    /\ k = 6 => regs[T2] = Wrap(Immediate(Lui(T2, n + 1)))
    /\ k = 7 => regs[T2] = n + 1

\* of that loop, whose next byte is the number in T1 and belongs to the address in T0,
Fill(k, a, n) ==
    LET m == regs[T1] IN
    /\ out = <<>> /\ regs[A1] = a /\ regs[T2] = n + 1
    /\ k \in 7 .. 9 => m \in 1 .. n
    /\ k = 10 => m \in 2 .. n + 1
    /\ k \in {7, 8, 10} => regs[T0] = a + (m - 1)
    /\ k = 9 => regs[T0] = a + m
    /\ k \in {7, 10} => Filled(a, m - 1)
    /\ k \in {8, 9} => Filled(a, m)
    /\ k = 11 => Filled(a, n)

\* of the part that loads the arguments of write,
LoadCall(k, a, n, len) ==
    /\ out = <<>> /\ regs[A1] = a /\ Filled(a, n)
    /\ k = 12 => regs[A2] = Wrap(Immediate(Lui(A2, len)))
    /\ k >= 13 => regs[A2] = len
    /\ k = 14 => regs[A7] = Wrap(Immediate(Lui(A7, 64)))
    /\ k = 15 => regs[A7] = 64

\* and of the loop that calls it: what is out ends where A1 points, once the last
\* result is added to it, and A2 tells what is left.
Call(k, a, n, len) ==
    LET m == regs[A1] - a IN
    /\ Filled(a, n) /\ regs[A7] = 64 /\ m \in 0 .. n
    /\ k \in {15, 18, 19} => out = Counting(m)
    /\ k \in {16, 17} => /\ regs[A0] = Writable(regs[A1], regs[A2])
                         /\ m + regs[A0] <= n /\ out = Counting(m + regs[A0])
    /\ k \in {15, 16, 17, 19} => regs[A2] = len - m
    /\ k = 18 => regs[A2] = (len - m) + regs[A0]
    /\ k \in {15, 16} => regs[A2] # 0
    /\ k = 20 => out = Counting(n)

\* The numbers of the program are words.
LEMMA PrintNumbers ==
  ASSUME CInv, TextFits(21), NEW a, NEW n, NEW len, PrintArgs(a, n, len)
  PROVE  /\ regs \in [Registers -> Words] /\ regs[0] = 0 /\ Words = 0 .. Size - 1
         /\ \A r \in Registers : regs[r] \in Nat /\ regs[r] < Size
         /\ Size \in Nat /\ MemSize \in Nat /\ MemSize < Size
         /\ TEXT \in Nat /\ TEXT % 2 = 0 /\ TEXT + 84 <= MemSize
         /\ n \in Nat /\ n >= 1 /\ n < ByteSize /\ ByteSize \in Nat /\ n + 1 < Size
         /\ a \in Nat /\ a < Size /\ len \in Nat /\ len < Size /\ n <= len
         /\ a + n <= MemSize /\ (len = n \/ a + n = MemSize)
         /\ 1 \in Words /\ 64 \in Words /\ n + 1 \in Words /\ a \in Words /\ len \in Words
<1>1. regs \in [Registers -> Words] /\ regs[0] = 0
  BY DEF CInv, CTypeOK
<1>2. /\ Words = 0 .. Size - 1 /\ Size \in Nat /\ Size >= 4096
      /\ MemSize \in Nat /\ MemSize < Size
  BY MemoryAssumption, WordSizes
<1>3. \A r \in Registers : regs[r] \in Nat /\ regs[r] < Size
  BY <1>1, <1>2
<1>4. ByteSize \in Nat /\ ByteSize <= Size
  BY ByteSizes
<1>5. n \in Nat /\ n >= 1 /\ n < ByteSize
  BY <1>4 DEF PrintArgs
<1>6. n + 1 < Size
  <2>1. CASE ByteSize < Size
    BY <1>2, <1>4, <1>5, <2>1
  <2>2. CASE ByteSize = Size
    <3>1. ByteSize * ByteSize <= Size /\ ByteSize >= 2
      BY <1>2, <2>2, ByteSizes
    <3>2. ByteSize * ByteSize >= 2 * ByteSize
      BY <1>4, <3>1
    <3> QED BY <1>2, <1>4, <2>2, <3>1, <3>2
  <2> QED BY <1>2, <1>4, <2>1, <2>2
<1>7. /\ TEXT \in Nat /\ TEXT % 2 = 0 /\ TEXT + 84 <= MemSize
  BY DEF TextFits
<1>8. /\ a \in Nat /\ a < Size /\ len \in Nat /\ len < Size /\ n <= len /\ len \in Words
      /\ a + n <= MemSize /\ (len = n \/ a + n = MemSize)
  BY <1>2, <1>5 DEF PrintArgs
<1> QED BY ONLY <1>1, <1>2, <1>3, <1>4, <1>5, <1>6, <1>7, <1>8

\* An immediate is added to a register.
LEMMA BumpRuns ==
  ASSUME CInv, Step, NEW rd \in 1 .. 31, NEW rs \in Registers,
         NEW imm \in Int, -2048 <= imm, imm < 2048,
         AtWord(enc_i(imm, rs, 0, rd, OP_ALUI)), regs[rs] + imm \in Words
  PROVE  Writes(rd, regs[rs] + imm)
<1>1. Writes(rd, Wrap(regs[rs] + Wrap(imm)))
  BY AddRuns
<1>2. regs[rs] \in Int
  BY WordSizes DEF CInv, CTypeOK
<1>3. Wrap(imm) \in Int
  BY WrapType, WordSizes
<1>4. Wrap(regs[rs] + Wrap(imm)) = Wrap(regs[rs] + imm)
  <2> DEFINE x == regs[rs]
  <2>1. x \in Int /\ imm \in Int
    BY <1>2
  <2> HIDE DEF x
  <2>2. Wrap(Wrap(imm) + x) = Wrap(imm + x)
    BY ONLY <2>1, WrapSum
  <2>3. x + Wrap(imm) = Wrap(imm) + x /\ x + imm = imm + x
    BY ONLY <1>3, <2>1
  <2> QED BY ONLY <2>2, <2>3 DEF x
<1>5. Wrap(regs[rs] + Wrap(imm)) = regs[rs] + imm
  BY <1>4, WrapWord
<1> QED BY <1>1, <1>5

\* Counting on.
LEMMA CountingOn ==
  ASSUME NEW m \in Nat, NEW w \in Nat, NEW s, s = [k \in 1 .. w |-> m + k]
  PROVE  Counting(m) \o s = Counting(m + w)
<1>1. Counting(m) \in Seq(Nat) /\ Len(Counting(m)) = m
  BY DEF Counting
<1>2. s \in Seq(Nat) /\ Len(s) = w
  OBVIOUS
<1>3. Counting(m + w) \in Seq(Nat) /\ Len(Counting(m + w)) = m + w
  BY DEF Counting
<1>4. /\ Counting(m) \o s \in Seq(Nat) /\ Len(Counting(m) \o s) = m + w
      /\ \A i \in 1 .. m + w : (Counting(m) \o s)[i] =
             IF i <= m THEN Counting(m)[i] ELSE s[i - m]
  <2> DEFINE c == Counting(m)
  <2>1. c \in Seq(Nat) /\ s \in Seq(Nat) /\ Len(c) = m /\ Len(s) = w
    BY <1>1, <1>2
  <2> HIDE DEF c
  <2>2. /\ c \o s \in Seq(Nat) /\ Len(c \o s) = Len(c) + Len(s)
        /\ \A i \in 1 .. Len(c) + Len(s) : (c \o s)[i] = IF i <= Len(c) THEN c[i] ELSE s[i - Len(c)]
    BY ONLY <2>1, ConcatProperties
  <2> QED BY ONLY <2>1, <2>2 DEF c
<1>5. ASSUME NEW i \in 1 .. m + w PROVE (Counting(m) \o s)[i] = Counting(m + w)[i]
  <2>1. CASE i <= m
    BY <1>4, <2>1 DEF Counting
  <2>2. CASE ~(i <= m)
    <3>1. i - m \in 1 .. w /\ m + (i - m) = i
      BY <2>2
    <3> QED BY <1>4, <2>2, <3>1 DEF Counting
  <2> QED BY <2>1, <2>2
<1> QED BY <1>3, <1>4, <1>5, SeqEqual

\* A step of the first part.
LEMMA ReadyStep ==
  ASSUME CInv, Step, XLEN <= 32, TextFits(21), NEW a, NEW n, NEW len, PrintArgs(a, n, len),
         PrintText(boot.code, a, n, len), NEW k \in 0 .. 6, pc = TEXT + 4 * k,
         Ready(k, a, n)
  PROVE  pc' = TEXT + 4 * (k + 1) /\ Ready(k + 1, a, n)' /\ state' = "RUNNING" /\ boot' = boot
<1>0. /\ regs \in [Registers -> Words] /\ regs[0] = 0 /\ Words = 0 .. Size - 1
      /\ \A r \in Registers : regs[r] \in Nat /\ regs[r] < Size
      /\ Size \in Nat /\ MemSize \in Nat /\ MemSize < Size
      /\ TEXT \in Nat /\ TEXT % 2 = 0 /\ TEXT + 84 <= MemSize
      /\ n \in Nat /\ n >= 1 /\ n < ByteSize /\ ByteSize \in Nat /\ n + 1 < Size
      /\ a \in Nat /\ a < Size /\ len \in Nat /\ len < Size /\ n <= len
      /\ a + n <= MemSize /\ (len = n \/ a + n = MemSize)
      /\ 1 \in Words /\ 64 \in Words /\ n + 1 \in Words /\ a \in Words /\ len \in Words
  BY ONLY CInv, TextFits(21), PrintArgs(a, n, len), PrintNumbers
<1>1. ASSUME NEW w, Holds(boot.code, TEXT + 4 * k, w) PROVE AtWord(w)
  BY ONLY <1>0, <1>1, k \in 0 .. 6, pc = TEXT + 4 * k DEF AtWord
<1>2. /\ {T0, T1, T2, A0, A1, A2, A7} \subseteq 1 .. 31
      /\ {T0, T1, T2, A0, A1, A2, A7} \subseteq Registers
  BY ONLY InRange
<1>3. ASSUME NEW r \in {T0, T1, T2, A0, A1, A2, A7}, NEW v, Writes(r, v)
      PROVE  /\ mtime' = mtime + 1 /\ boot' = boot /\ state' = "RUNNING" /\ pc' = pc + 4
             /\ mem' = mem /\ out' = out
             /\ regs'[r] = v
             /\ \A q \in {T0, T1, T2, A0, A1, A2, A7} : q # r => regs'[q] = regs[q]
  BY ONLY <1>0, <1>2, <1>3 DEF Writes, Advances
<1>4. /\ T0 # T1 /\ T0 # T2 /\ T0 # A1 /\ T1 # T2 /\ T1 # A1 /\ T2 # A1
      /\ A0 # A1 /\ A0 # A2 /\ A0 # A7 /\ A1 # A2 /\ A1 # A7 /\ A2 # A7
  BY ONLY Named
<1>5. CASE k = 0
  <2>1. AtWord(Lui(A1, a))
    <3>1. Holds(boot.code, TEXT, Lui(A1, a)) /\ TEXT + 4 * k = TEXT
      BY <1>0, <1>5 DEF PrintText
    <3> QED BY <1>1, <3>1
  <2>2. out = <<>>
    BY <1>0, <1>5 DEF Ready
  <2>3. PICK v : v = Wrap(Immediate(Lui(A1, a))) /\ Writes(A1, v)
    BY <1>0, <1>2, <2>1, <2>2, LuiRuns
  <2>4. Ready(1, a, n)'
    BY ONLY <1>0, <1>3, <1>4, <2>2, <2>3 DEF Ready
  <2>5. pc' = TEXT + 4 * 1 /\ 0 + 1 = 1 /\ state' = "RUNNING" /\ boot' = boot
    BY ONLY <1>0, <1>3, <1>5, <2>3, pc = TEXT + 4 * k
  <2> QED BY <1>5, <2>4, <2>5
<1>6. CASE k = 1
  <2>1. AtWord(Addi(A1, a))
    <3>1. Holds(boot.code, TEXT + 4, Addi(A1, a)) /\ TEXT + 4 * k = TEXT + 4
      BY <1>0, <1>6 DEF PrintText
    <3> QED BY <1>1, <3>1
  <2>2. out = <<>> /\ regs[A1] = Wrap(Immediate(Lui(A1, a)))
    BY <1>0, <1>6 DEF Ready
  <2>3. PICK v : v = a /\ Writes(A1, v)
    <3>1. A1 \in 1 .. 31 /\ a \in Words
      BY ONLY <1>0, <1>2
    <3>2. regs[A1] = Wrap(Immediate(Lui(A1, a)))
      BY ONLY <2>2
    <3>3. Writes(A1, a)
      BY ONLY CInv, Step, XLEN <= 32, <2>1, <3>1, <3>2, AddiRuns
    <3> QED BY ONLY <3>3
  <2>4. Ready(2, a, n)'
    BY ONLY <1>0, <1>3, <1>4, <2>2, <2>3 DEF Ready
  <2>5. pc' = TEXT + 4 * 2 /\ 1 + 1 = 2 /\ state' = "RUNNING" /\ boot' = boot
    BY ONLY <1>0, <1>3, <1>6, <2>3, pc = TEXT + 4 * k
  <2> QED BY <1>6, <2>4, <2>5
<1>7. CASE k = 2
  <2>1. AtWord(enc_i(0, A1, 0, T0, OP_ALUI))
    <3>1. Holds(boot.code, TEXT + 8, enc_i(0, A1, 0, T0, OP_ALUI)) /\ TEXT + 4 * k = TEXT + 8
      BY <1>0, <1>7 DEF PrintText
    <3> QED BY <1>1, <3>1
  <2>2. out = <<>> /\ regs[A1] = a /\ regs[A1] + 0 = a
    BY <1>0, <1>7 DEF Ready
  <2>3. PICK v : v = regs[A1] + 0 /\ Writes(T0, v)
    <3>1. /\ 0 \in Int /\ -2048 <= 0 /\ 0 < 2048 /\ regs[A1] + 0 \in Words
          /\ A1 \in Registers /\ T0 \in 1 .. 31
      BY ONLY <1>0, <1>2, <2>2
    <3>2. Writes(T0, regs[A1] + 0)
      BY ONLY CInv, Step, <2>1, <3>1, BumpRuns
    <3> QED BY <3>2
  <2>4. Ready(3, a, n)'
    BY ONLY <1>0, <1>3, <1>4, <2>2, <2>3 DEF Ready
  <2>5. pc' = TEXT + 4 * 3 /\ 2 + 1 = 3 /\ state' = "RUNNING" /\ boot' = boot
    BY ONLY <1>0, <1>3, <1>7, <2>3, pc = TEXT + 4 * k
  <2> QED BY <1>7, <2>4, <2>5
<1>8. CASE k = 3
  <2>1. AtWord(Lui(T1, 1))
    <3>1. Holds(boot.code, TEXT + 12, Lui(T1, 1)) /\ TEXT + 4 * k = TEXT + 12
      BY <1>0, <1>8 DEF PrintText
    <3> QED BY <1>1, <3>1
  <2>2. out = <<>> /\ regs[A1] = a /\ regs[T0] = a
    BY <1>0, <1>8 DEF Ready
  <2>3. PICK v : v = Wrap(Immediate(Lui(T1, 1))) /\ Writes(T1, v)
    BY <1>0, <1>2, <2>1, <2>2, LuiRuns
  <2>4. Ready(4, a, n)'
    BY ONLY <1>0, <1>3, <1>4, <2>2, <2>3 DEF Ready
  <2>5. pc' = TEXT + 4 * 4 /\ 3 + 1 = 4 /\ state' = "RUNNING" /\ boot' = boot
    BY ONLY <1>0, <1>3, <1>8, <2>3, pc = TEXT + 4 * k
  <2> QED BY <1>8, <2>4, <2>5
<1>9. CASE k = 4
  <2>1. AtWord(Addi(T1, 1))
    <3>1. Holds(boot.code, TEXT + 16, Addi(T1, 1)) /\ TEXT + 4 * k = TEXT + 16
      BY <1>0, <1>9 DEF PrintText
    <3> QED BY <1>1, <3>1
  <2>2. out = <<>> /\ regs[A1] = a /\ regs[T0] = a /\ regs[T1] = Wrap(Immediate(Lui(T1, 1)))
    BY <1>0, <1>9 DEF Ready
  <2>3. PICK v : v = 1 /\ Writes(T1, v)
    <3>1. T1 \in 1 .. 31 /\ 1 \in Words
      BY ONLY <1>0, <1>2
    <3>2. regs[T1] = Wrap(Immediate(Lui(T1, 1)))
      BY ONLY <2>2
    <3>3. Writes(T1, 1)
      BY ONLY CInv, Step, XLEN <= 32, <2>1, <3>1, <3>2, AddiRuns
    <3> QED BY ONLY <3>3
  <2>4. Ready(5, a, n)'
    BY ONLY <1>0, <1>3, <1>4, <2>2, <2>3 DEF Ready
  <2>5. pc' = TEXT + 4 * 5 /\ 4 + 1 = 5 /\ state' = "RUNNING" /\ boot' = boot
    BY ONLY <1>0, <1>3, <1>9, <2>3, pc = TEXT + 4 * k
  <2> QED BY <1>9, <2>4, <2>5
<1>10. CASE k = 5
  <2>1. AtWord(Lui(T2, n + 1))
    <3>1. Holds(boot.code, TEXT + 20, Lui(T2, n + 1)) /\ TEXT + 4 * k = TEXT + 20
      BY <1>0, <1>10 DEF PrintText
    <3> QED BY <1>1, <3>1
  <2>2. out = <<>> /\ regs[A1] = a /\ regs[T0] = a /\ regs[T1] = 1
    BY <1>0, <1>10 DEF Ready
  <2>3. PICK v : v = Wrap(Immediate(Lui(T2, n + 1))) /\ Writes(T2, v)
    BY <1>0, <1>2, <2>1, <2>2, LuiRuns
  <2>4. Ready(6, a, n)'
    BY ONLY <1>0, <1>3, <1>4, <2>2, <2>3 DEF Ready
  <2>5. pc' = TEXT + 4 * 6 /\ 5 + 1 = 6 /\ state' = "RUNNING" /\ boot' = boot
    BY ONLY <1>0, <1>3, <1>10, <2>3, pc = TEXT + 4 * k
  <2> QED BY <1>10, <2>4, <2>5
<1>11. CASE k = 6
  <2>1. AtWord(Addi(T2, n + 1))
    <3>1. Holds(boot.code, TEXT + 24, Addi(T2, n + 1)) /\ TEXT + 4 * k = TEXT + 24
      BY <1>0, <1>11 DEF PrintText
    <3> QED BY <1>1, <3>1
  <2>2. out = <<>> /\ regs[A1] = a /\ regs[T0] = a /\ regs[T1] = 1 /\ regs[T2] = Wrap(Immediate(Lui(T2, n + 1)))
    BY <1>0, <1>11 DEF Ready
  <2>3. PICK v : v = n + 1 /\ Writes(T2, v)
    <3>1. T2 \in 1 .. 31 /\ n + 1 \in Words
      BY ONLY <1>0, <1>2
    <3>2. regs[T2] = Wrap(Immediate(Lui(T2, n + 1)))
      BY ONLY <2>2
    <3>3. Writes(T2, n + 1)
      BY ONLY CInv, Step, XLEN <= 32, <2>1, <3>1, <3>2, AddiRuns
    <3> QED BY ONLY <3>3
  <2>4. Ready(7, a, n)'
    BY ONLY <1>0, <1>3, <1>4, <2>2, <2>3 DEF Ready
  <2>5. pc' = TEXT + 4 * 7 /\ 6 + 1 = 7 /\ state' = "RUNNING" /\ boot' = boot
    BY ONLY <1>0, <1>3, <1>11, <2>3, pc = TEXT + 4 * k
  <2> QED BY <1>11, <2>4, <2>5
<1> QED BY <1>5, <1>6, <1>7, <1>8, <1>9, <1>10, <1>11

\* A step of the first loop leads to its next word, or back to its beginning.
LEMMA FillStep ==
  ASSUME CInv, Step, XLEN <= 32, TextFits(21), NEW a, NEW n, NEW len, PrintArgs(a, n, len),
         PrintText(boot.code, a, n, len), NEW k \in 7 .. 10, pc = TEXT + 4 * k,
         Fill(k, a, n)
  PROVE  /\ state' = "RUNNING" /\ boot' = boot
         /\ \/ pc' = TEXT + 4 * (k + 1) /\ Fill(k + 1, a, n)'
            \/ k = 10 /\ pc' = TEXT + 4 * 7 /\ Fill(7, a, n)'
<1>0. /\ regs \in [Registers -> Words] /\ regs[0] = 0 /\ Words = 0 .. Size - 1
      /\ \A r \in Registers : regs[r] \in Nat /\ regs[r] < Size
      /\ Size \in Nat /\ MemSize \in Nat /\ MemSize < Size
      /\ TEXT \in Nat /\ TEXT % 2 = 0 /\ TEXT + 84 <= MemSize
      /\ n \in Nat /\ n >= 1 /\ n < ByteSize /\ ByteSize \in Nat /\ n + 1 < Size
      /\ a \in Nat /\ a < Size /\ len \in Nat /\ len < Size /\ n <= len
      /\ a + n <= MemSize /\ (len = n \/ a + n = MemSize)
      /\ 1 \in Words /\ 64 \in Words /\ n + 1 \in Words /\ a \in Words /\ len \in Words
  BY ONLY CInv, TextFits(21), PrintArgs(a, n, len), PrintNumbers
<1>1. ASSUME NEW w, Holds(boot.code, TEXT + 4 * k, w) PROVE AtWord(w)
  BY ONLY <1>0, <1>1, k \in 7 .. 10, pc = TEXT + 4 * k DEF AtWord
<1>2. /\ {T0, T1, T2, A0, A1, A2, A7} \subseteq 1 .. 31
      /\ {T0, T1, T2, A0, A1, A2, A7} \subseteq Registers
  BY ONLY InRange
<1>3. ASSUME NEW r \in {T0, T1, T2, A0, A1, A2, A7}, NEW v, Writes(r, v)
      PROVE  /\ mtime' = mtime + 1 /\ boot' = boot /\ state' = "RUNNING" /\ pc' = pc + 4
             /\ mem' = mem /\ out' = out
             /\ regs'[r] = v
             /\ \A q \in {T0, T1, T2, A0, A1, A2, A7} : q # r => regs'[q] = regs[q]
  BY ONLY <1>0, <1>2, <1>3 DEF Writes, Advances
<1>4. /\ T0 # T1 /\ T0 # T2 /\ T0 # A1 /\ T1 # T2 /\ T1 # A1 /\ T2 # A1
      /\ A0 # A1 /\ A0 # A2 /\ A0 # A7 /\ A1 # A2 /\ A1 # A7 /\ A2 # A7
  BY ONLY Named
<1>5. PICK m : m = regs[T1]
  OBVIOUS
<1>6. ASSUME NEW c, Filled(a, c), mem' = mem PROVE Filled(a, c)'
  BY <1>6 DEF Filled, Byte
<1>7. CASE k = 7
  <2>1. AtWord(enc_s(0, T1, T0, 0, OP_STORE))
    <3>1. Holds(boot.code, TEXT + 28, enc_s(0, T1, T0, 0, OP_STORE)) /\ TEXT + 4 * k = TEXT + 28
      BY <1>0, <1>7 DEF PrintText
    <3> QED BY <1>1, <3>1
  <2>2. /\ out = <<>> /\ regs[A1] = a /\ regs[T2] = n + 1 /\ m \in 1 .. n
        /\ regs[T0] = a + (m - 1) /\ Filled(a, m - 1) /\ m \in Nat
    BY <1>0, <1>5, <1>7 DEF Fill
  <2> DEFINE x == a + (m - 1)
  <2>3. x \in Nat /\ x \in Words /\ x + 1 <= MemSize
    BY <1>0, <2>2
  <2>4. BytesOf(0) = 1
    BY DEF BytesOf
  <2>5. Names(T0, 0, x, BytesOf(0))
    <3>1. regs[T0] + 0 = x /\ Wrap(x) = x /\ x % 1 = 0
      BY <2>2, <2>3, WrapWord
    <3> QED BY <2>3, <2>4, <3>1 DEF Names
  <2> HIDE DEF x
  <2>6. Puts(x, 1, regs[T1])
    <3>1. 0 \in 0 .. 2 /\ T1 \in Registers /\ T0 \in Registers
      BY <1>2
    <3>2. Puts(x, BytesOf(0), regs[T1])
      BY ONLY CInv, Step, <2>1, <2>5, <3>1, StoreRuns
    <3> QED BY <2>4, <3>2
  <2>7. /\ mem' = Stored(x, 1, m) /\ regs' = regs /\ out' = out /\ state' = "RUNNING"
        /\ boot' = boot /\ pc' = pc + 4
    BY <1>5, <2>6 DEF Puts, Advances
  <2>8. Byte(x)' = m /\ \A y : y # x => Byte(y)' = Byte(y)
    <3>1. x \in Int /\ 1 \in Int
      BY <2>3
    <3>2. /\ \A j \in 0 .. 1 - 1 : Byte(x + j)' = (m \div Pow2[(XLEN \div 4) * j]) % ByteSize
          /\ \A y : y \notin x .. x + 1 - 1 => Byte(y)' = Byte(y)
      BY ONLY <2>7, <3>1, StoredBytes
    <3>3. 0 \in 0 .. 1 - 1 /\ x + 0 = x /\ (XLEN \div 4) * 0 = 0 /\ \A y : y # x => y \notin x .. x + 1 - 1
      BY <2>3, WidthAssumption
    <3>4. Byte(x)' = (m \div Pow2[0]) % ByteSize
      BY ONLY <3>2, <3>3
    <3>5. (m \div 1) % ByteSize = m
      <4>1. m \in Nat /\ m < ByteSize /\ ByteSize \in Nat
        BY ONLY <1>0, <2>2
      <4>2. m \div 1 = m
        BY ONLY <4>1
      <4> QED BY ONLY <4>1, <4>2
    <3> QED BY ONLY <3>2, <3>3, <3>4, <3>5, SmallPowers
  <2>9. Filled(a, m)'
    <3> SUFFICES ASSUME NEW i \in 0 .. m - 1 PROVE Byte(a + i)' = i + 1
      BY DEF Filled
    <3>1. CASE i = m - 1
      BY <1>0, <2>2, <2>8, <3>1 DEF x
    <3>2. CASE i # m - 1
      <4>1. i \in 0 .. (m - 1) - 1 /\ a + i # x
        BY <1>0, <2>2, <3>2 DEF x
      <4>2. Byte(a + i) = i + 1
        BY <2>2, <4>1 DEF Filled
      <4> QED BY <2>8, <4>1, <4>2
    <3> QED BY <3>1, <3>2
  <2>10. Fill(8, a, n)'
    <3>1. regs'[T1] = m
      BY <1>5, <2>7
    <3> QED BY ONLY <2>2, <2>7, <2>9, <3>1 DEF Fill
  <2>11. pc' = TEXT + 4 * 8 /\ 7 + 1 = 8
    BY ONLY <1>0, <1>7, <2>7, pc = TEXT + 4 * k
  <2> QED BY <1>7, <2>7, <2>10, <2>11
<1>8. CASE k = 8
  <2>1. AtWord(enc_i(1, T0, 0, T0, OP_ALUI))
    <3>1. Holds(boot.code, TEXT + 32, enc_i(1, T0, 0, T0, OP_ALUI)) /\ TEXT + 4 * k = TEXT + 32
      BY <1>0, <1>8 DEF PrintText
    <3> QED BY <1>1, <3>1
  <2>2. /\ out = <<>> /\ regs[A1] = a /\ regs[T2] = n + 1 /\ m \in 1 .. n
        /\ regs[T0] = a + (m - 1) /\ Filled(a, m) /\ m \in Nat
    BY <1>0, <1>5, <1>8 DEF Fill
  <2>3. PICK v : v = a + m /\ Writes(T0, v)
    <3>1. /\ 1 \in Int /\ -2048 <= 1 /\ 1 < 2048 /\ regs[T0] + 1 \in Words /\ regs[T0] + 1 = a + m
          /\ T0 \in Registers /\ T0 \in 1 .. 31
      BY ONLY <1>0, <1>2, <2>2
    <3>2. Writes(T0, regs[T0] + 1)
      BY ONLY CInv, Step, <2>1, <3>1, BumpRuns
    <3> QED BY <3>1, <3>2
  <2>4. Filled(a, m)' /\ regs'[T1] = m
    BY <1>3, <1>4, <1>5, <1>6, <2>2, <2>3
  <2>5. Fill(9, a, n)'
    BY ONLY <1>0, <1>3, <1>4, <2>2, <2>3, <2>4 DEF Fill
  <2>6. pc' = TEXT + 4 * 9 /\ 8 + 1 = 9 /\ state' = "RUNNING" /\ boot' = boot
    BY ONLY <1>0, <1>3, <1>8, <2>3, pc = TEXT + 4 * k
  <2> QED BY <1>8, <2>5, <2>6
<1>9. CASE k = 9
  <2>1. AtWord(enc_i(1, T1, 0, T1, OP_ALUI))
    <3>1. Holds(boot.code, TEXT + 36, enc_i(1, T1, 0, T1, OP_ALUI)) /\ TEXT + 4 * k = TEXT + 36
      BY <1>0, <1>9 DEF PrintText
    <3> QED BY <1>1, <3>1
  <2>2. /\ out = <<>> /\ regs[A1] = a /\ regs[T2] = n + 1 /\ m \in 1 .. n
        /\ regs[T0] = a + m /\ Filled(a, m) /\ m \in Nat
    BY <1>0, <1>5, <1>9 DEF Fill
  <2>3. PICK v : v = m + 1 /\ Writes(T1, v)
    <3>1. m + 1 \in Words
      BY ONLY <1>0, <2>2
    <3>a. /\ 1 \in Int /\ -2048 <= 1 /\ 1 < 2048 /\ regs[T1] + 1 \in Words /\ regs[T1] + 1 = m + 1
          /\ T1 \in Registers /\ T1 \in 1 .. 31
      BY ONLY <1>2, <1>5, <3>1
    <3>2. Writes(T1, regs[T1] + 1)
      BY ONLY CInv, Step, <2>1, <3>a, BumpRuns
    <3> QED BY <3>a, <3>2
  <2>4. Filled(a, m)' /\ regs'[T1] = v /\ v - 1 = m /\ v \in 2 .. n + 1
    <3>1. regs'[T1] = v /\ mem' = mem
      BY ONLY <1>3, <2>3
    <3>2. v - 1 = m /\ v \in 2 .. n + 1
      BY ONLY <1>0, <2>2, <2>3
    <3> QED BY <1>6, <2>2, <3>1, <3>2
  <2>5. Fill(10, a, n)'
    BY ONLY <1>0, <1>3, <1>4, <2>2, <2>3, <2>4 DEF Fill
  <2>6. pc' = TEXT + 4 * 10 /\ 9 + 1 = 10 /\ state' = "RUNNING" /\ boot' = boot
    BY ONLY <1>0, <1>3, <1>9, <2>3, pc = TEXT + 4 * k
  <2> QED BY <1>9, <2>5, <2>6
<1>10. CASE k = 10
  <2>1. AtWord(enc_b(-12, T2, T1, 1, OP_BRANCH))
    <3>1. /\ Holds(boot.code, TEXT + 40, enc_b(-12, T2, T1, 1, OP_BRANCH))
          /\ TEXT + 4 * k = TEXT + 40
      BY <1>0, <1>10 DEF PrintText
    <3> QED BY <1>1, <3>1
  <2>2. /\ out = <<>> /\ regs[A1] = a /\ regs[T2] = n + 1 /\ m \in 2 .. n + 1
        /\ regs[T0] = a + (m - 1) /\ Filled(a, m - 1) /\ m \in Nat
    BY <1>0, <1>5, <1>10 DEF Fill
  <2>3. /\ state' = "RUNNING" /\ boot' = boot
        /\ pc' = IF taken(1, regs[T1], regs[T2]) THEN pc + -12 ELSE pc + 4
        /\ regs' = regs /\ mem' = mem /\ out' = out
    <3>1. /\ -12 \in Int /\ -4096 <= -12 /\ -12 < 4096 /\ (-12) % 2 = 0 /\ 1 \in BranchKinds
          /\ T1 \in Registers /\ T2 \in Registers
      BY ONLY <1>2 DEF BranchKinds
    <3>2. pc + -12 \in Words
      BY ONLY <1>0, <1>10, pc = TEXT + 4 * k
    <3> QED BY ONLY CInv, Step, <2>1, <3>1, <3>2, BranchRuns
  <2>4. taken(1, regs[T1], regs[T2]) <=> m # n + 1
    BY <1>5, <2>2 DEF taken
  <2>5. regs'[T1] = m /\ Filled(a, m - 1)'
    BY <1>5, <1>6, <2>2, <2>3
  <2>6. CASE m = n + 1
    <3>1. pc' = TEXT + 4 * 11 /\ 10 + 1 = 11
      BY <1>0, <1>10, <2>3, <2>4, <2>6
    <3>2. m - 1 = n
      BY <1>0, <2>6
    <3>3. Fill(11, a, n)'
      BY ONLY <2>2, <2>3, <2>5, <3>2 DEF Fill
    <3> QED BY <1>10, <2>3, <3>1, <3>3
  <2>7. CASE m # n + 1
    <3>1. pc' = TEXT + 4 * 7
      BY <1>0, <1>10, <2>3, <2>4, <2>7
    <3>2. m \in 1 .. n
      BY <1>0, <2>2, <2>7
    <3>3. Fill(7, a, n)'
      BY ONLY <2>2, <2>3, <2>5, <3>2 DEF Fill
    <3> QED BY <1>10, <2>3, <3>1, <3>3
  <2> QED BY <2>6, <2>7
<1> QED BY <1>7, <1>8, <1>9, <1>10

\* A step of the third part.
LEMMA LoadCallStep ==
  ASSUME CInv, Step, XLEN <= 32, TextFits(21), NEW a, NEW n, NEW len, PrintArgs(a, n, len),
         PrintText(boot.code, a, n, len), NEW k \in 11 .. 14, pc = TEXT + 4 * k,
         LoadCall(k, a, n, len)
  PROVE  pc' = TEXT + 4 * (k + 1) /\ LoadCall(k + 1, a, n, len)' /\ state' = "RUNNING" /\ boot' = boot
<1>0. /\ regs \in [Registers -> Words] /\ regs[0] = 0 /\ Words = 0 .. Size - 1
      /\ \A r \in Registers : regs[r] \in Nat /\ regs[r] < Size
      /\ Size \in Nat /\ MemSize \in Nat /\ MemSize < Size
      /\ TEXT \in Nat /\ TEXT % 2 = 0 /\ TEXT + 84 <= MemSize
      /\ n \in Nat /\ n >= 1 /\ n < ByteSize /\ ByteSize \in Nat /\ n + 1 < Size
      /\ a \in Nat /\ a < Size /\ len \in Nat /\ len < Size /\ n <= len
      /\ a + n <= MemSize /\ (len = n \/ a + n = MemSize)
      /\ 1 \in Words /\ 64 \in Words /\ n + 1 \in Words /\ a \in Words /\ len \in Words
  BY ONLY CInv, TextFits(21), PrintArgs(a, n, len), PrintNumbers
<1>1. ASSUME NEW w, Holds(boot.code, TEXT + 4 * k, w) PROVE AtWord(w)
  BY ONLY <1>0, <1>1, k \in 11 .. 14, pc = TEXT + 4 * k DEF AtWord
<1>2. /\ {T0, T1, T2, A0, A1, A2, A7} \subseteq 1 .. 31
      /\ {T0, T1, T2, A0, A1, A2, A7} \subseteq Registers
  BY ONLY InRange
<1>3. ASSUME NEW r \in {T0, T1, T2, A0, A1, A2, A7}, NEW v, Writes(r, v)
      PROVE  /\ mtime' = mtime + 1 /\ boot' = boot /\ state' = "RUNNING" /\ pc' = pc + 4
             /\ mem' = mem /\ out' = out
             /\ regs'[r] = v
             /\ \A q \in {T0, T1, T2, A0, A1, A2, A7} : q # r => regs'[q] = regs[q]
  BY ONLY <1>0, <1>2, <1>3 DEF Writes, Advances
<1>4. /\ T0 # T1 /\ T0 # T2 /\ T0 # A1 /\ T1 # T2 /\ T1 # A1 /\ T2 # A1
      /\ A0 # A1 /\ A0 # A2 /\ A0 # A7 /\ A1 # A2 /\ A1 # A7 /\ A2 # A7
  BY ONLY Named
<1>5. ASSUME mem' = mem, Filled(a, n) PROVE Filled(a, n)'
  BY <1>5 DEF Filled, Byte
<1>6. CASE k = 11
  <2>1. AtWord(Lui(A2, len))
    <3>1. Holds(boot.code, TEXT + 44, Lui(A2, len)) /\ TEXT + 4 * k = TEXT + 44
      BY <1>0, <1>6 DEF PrintText
    <3> QED BY <1>1, <3>1
  <2>2. out = <<>> /\ regs[A1] = a /\ Filled(a, n)
    BY <1>0, <1>6 DEF LoadCall
  <2>3. PICK v : v = Wrap(Immediate(Lui(A2, len))) /\ Writes(A2, v)
    BY <1>0, <1>2, <2>1, <2>2, LuiRuns
  <2>4. /\ mem' = mem /\ out' = out /\ pc' = pc + 4 /\ state' = "RUNNING" /\ boot' = boot
        /\ regs'[A1] = regs[A1] /\ regs'[A2] = v
    BY ONLY <1>3, <1>4, <2>3
  <2>5. LoadCall(12, a, n, len)'
    BY ONLY <1>5, <2>2, <2>3, <2>4 DEF LoadCall
  <2>6. pc' = TEXT + 4 * 12 /\ 11 + 1 = 12
    BY ONLY <1>0, <1>6, <2>4, pc = TEXT + 4 * k
  <2> QED BY <1>6, <2>4, <2>5, <2>6
<1>7. CASE k = 12
  <2>1. AtWord(Addi(A2, len))
    <3>1. Holds(boot.code, TEXT + 48, Addi(A2, len)) /\ TEXT + 4 * k = TEXT + 48
      BY <1>0, <1>7 DEF PrintText
    <3> QED BY <1>1, <3>1
  <2>2. out = <<>> /\ regs[A1] = a /\ Filled(a, n) /\ regs[A2] = Wrap(Immediate(Lui(A2, len)))
    BY <1>0, <1>7 DEF LoadCall
  <2>3. PICK v : v = len /\ Writes(A2, v)
    <3>1. A2 \in 1 .. 31 /\ len \in Words
      BY ONLY <1>0, <1>2
    <3>2. regs[A2] = Wrap(Immediate(Lui(A2, len)))
      BY ONLY <2>2
    <3>3. Writes(A2, len)
      BY ONLY CInv, Step, XLEN <= 32, <2>1, <3>1, <3>2, AddiRuns
    <3> QED BY ONLY <3>3
  <2>4. /\ mem' = mem /\ out' = out /\ pc' = pc + 4 /\ state' = "RUNNING" /\ boot' = boot
        /\ regs'[A1] = regs[A1] /\ regs'[A2] = v
    BY ONLY <1>3, <1>4, <2>3
  <2>5. LoadCall(13, a, n, len)'
    BY ONLY <1>5, <2>2, <2>3, <2>4 DEF LoadCall
  <2>6. pc' = TEXT + 4 * 13 /\ 12 + 1 = 13
    BY ONLY <1>0, <1>7, <2>4, pc = TEXT + 4 * k
  <2> QED BY <1>7, <2>4, <2>5, <2>6
<1>8. CASE k = 13
  <2>1. AtWord(Lui(A7, 64))
    <3>1. Holds(boot.code, TEXT + 52, Lui(A7, 64)) /\ TEXT + 4 * k = TEXT + 52
      BY <1>0, <1>8 DEF PrintText
    <3> QED BY <1>1, <3>1
  <2>2. out = <<>> /\ regs[A1] = a /\ Filled(a, n) /\ regs[A2] = len
    BY <1>0, <1>8 DEF LoadCall
  <2>3. PICK v : v = Wrap(Immediate(Lui(A7, 64))) /\ Writes(A7, v)
    BY <1>0, <1>2, <2>1, <2>2, LuiRuns
  <2>4. /\ mem' = mem /\ out' = out /\ pc' = pc + 4 /\ state' = "RUNNING" /\ boot' = boot
        /\ regs'[A1] = regs[A1] /\ regs'[A7] = v /\ regs'[A2] = regs[A2]
    BY ONLY <1>3, <1>4, <2>3
  <2>5. LoadCall(14, a, n, len)'
    BY ONLY <1>5, <2>2, <2>3, <2>4 DEF LoadCall
  <2>6. pc' = TEXT + 4 * 14 /\ 13 + 1 = 14
    BY ONLY <1>0, <1>8, <2>4, pc = TEXT + 4 * k
  <2> QED BY <1>8, <2>4, <2>5, <2>6
<1>9. CASE k = 14
  <2>1. AtWord(Addi(A7, 64))
    <3>1. Holds(boot.code, TEXT + 56, Addi(A7, 64)) /\ TEXT + 4 * k = TEXT + 56
      BY <1>0, <1>9 DEF PrintText
    <3> QED BY <1>1, <3>1
  <2>2. out = <<>> /\ regs[A1] = a /\ Filled(a, n) /\ regs[A2] = len /\ regs[A7] = Wrap(Immediate(Lui(A7, 64)))
    BY <1>0, <1>9 DEF LoadCall
  <2>3. PICK v : v = 64 /\ Writes(A7, v)
    <3>1. A7 \in 1 .. 31 /\ 64 \in Words
      BY ONLY <1>0, <1>2
    <3>2. regs[A7] = Wrap(Immediate(Lui(A7, 64)))
      BY ONLY <2>2
    <3>3. Writes(A7, 64)
      BY ONLY CInv, Step, XLEN <= 32, <2>1, <3>1, <3>2, AddiRuns
    <3> QED BY ONLY <3>3
  <2>4. /\ mem' = mem /\ out' = out /\ pc' = pc + 4 /\ state' = "RUNNING" /\ boot' = boot
        /\ regs'[A1] = regs[A1] /\ regs'[A7] = v /\ regs'[A2] = regs[A2]
    BY ONLY <1>3, <1>4, <2>3
  <2>5. LoadCall(15, a, n, len)'
    BY ONLY <1>5, <2>2, <2>3, <2>4 DEF LoadCall
  <2>6. pc' = TEXT + 4 * 15 /\ 14 + 1 = 15
    BY ONLY <1>0, <1>9, <2>4, pc = TEXT + 4 * k
  <2> QED BY <1>9, <2>4, <2>5, <2>6
<1> QED BY <1>6, <1>7, <1>8, <1>9

\* A step of the loop that calls write.
LEMMA CallStep ==
  ASSUME CInv, Step, XLEN <= 32, TextFits(21), MaxWrite >= 1,
         NEW a, NEW n, NEW len, PrintArgs(a, n, len),
         PrintText(boot.code, a, n, len), NEW k \in 15 .. 19, pc = TEXT + 4 * k,
         Call(k, a, n, len)
  PROVE  /\ state' = "RUNNING" /\ boot' = boot
         /\ \/ pc' = TEXT + 4 * (k + 1) /\ Call(k + 1, a, n, len)'
            \/ k = 16 /\ pc' = TEXT + 4 * 20 /\ Call(20, a, n, len)'
            \/ k = 19 /\ pc' = TEXT + 4 * 15 /\ Call(15, a, n, len)'
<1>0. /\ regs \in [Registers -> Words] /\ regs[0] = 0 /\ Words = 0 .. Size - 1
      /\ \A r \in Registers : regs[r] \in Nat /\ regs[r] < Size
      /\ Size \in Nat /\ MemSize \in Nat /\ MemSize < Size
      /\ TEXT \in Nat /\ TEXT % 2 = 0 /\ TEXT + 84 <= MemSize
      /\ n \in Nat /\ n >= 1 /\ n < ByteSize /\ ByteSize \in Nat /\ n + 1 < Size
      /\ a \in Nat /\ a < Size /\ len \in Nat /\ len < Size /\ n <= len
      /\ a + n <= MemSize /\ (len = n \/ a + n = MemSize)
      /\ 1 \in Words /\ 64 \in Words /\ n + 1 \in Words /\ a \in Words /\ len \in Words
  BY ONLY CInv, TextFits(21), PrintArgs(a, n, len), PrintNumbers
<1>1. ASSUME NEW w, Holds(boot.code, TEXT + 4 * k, w) PROVE AtWord(w)
  BY ONLY <1>0, <1>1, k \in 15 .. 19, pc = TEXT + 4 * k DEF AtWord
<1>2. /\ {T0, T1, T2, A0, A1, A2, A7} \subseteq 1 .. 31
      /\ {T0, T1, T2, A0, A1, A2, A7} \subseteq Registers
  BY ONLY InRange
<1>3. ASSUME NEW r \in {T0, T1, T2, A0, A1, A2, A7}, NEW v, Writes(r, v)
      PROVE  /\ mtime' = mtime + 1 /\ boot' = boot /\ state' = "RUNNING" /\ pc' = pc + 4
             /\ mem' = mem /\ out' = out
             /\ regs'[r] = v
             /\ \A q \in {T0, T1, T2, A0, A1, A2, A7} : q # r => regs'[q] = regs[q]
  BY ONLY <1>0, <1>2, <1>3 DEF Writes, Advances
<1>4. /\ T0 # T1 /\ T0 # T2 /\ T0 # A1 /\ T1 # T2 /\ T1 # A1 /\ T2 # A1
      /\ A0 # A1 /\ A0 # A2 /\ A0 # A7 /\ A1 # A2 /\ A1 # A7 /\ A2 # A7
  BY ONLY Named
<1>5. PICK m : m = regs[A1] - a
  OBVIOUS
<1>6. /\ m \in 0 .. n /\ m \in Nat /\ regs[A1] = a + m /\ regs[A1] - a = m
      /\ Filled(a, n) /\ regs[A7] = 64
  <2>1. m \in 0 .. n /\ Filled(a, n) /\ regs[A7] = 64
    BY <1>5 DEF Call
  <2>2. regs[A1] \in Nat
    BY <1>0, <1>2
  <2> QED BY ONLY <1>0, <1>5, <2>1, <2>2
<1>7. ASSUME mem' = mem PROVE Filled(a, n)'
  BY <1>6, <1>7 DEF Filled, Byte
<1>8. CASE k = 15
  <2>1. AtWord(ECALL)
    <3>1. Holds(boot.code, TEXT + 60, ECALL) /\ TEXT + 4 * k = TEXT + 60
      BY <1>0, <1>8 DEF PrintText
    <3> QED BY <1>1, <3>1
  <2>2. out = Counting(m) /\ regs[A2] = len - m /\ regs[A2] # 0
    BY <1>6, <1>8 DEF Call
  <2>3. PICK w : w = Writable(regs[A1], regs[A2])
    OBVIOUS
  <2>4. MaxWrite \in Nat
    BY MemoryAssumption
  <2>5. w \in Nat /\ m + w <= n
    BY <1>0, <1>6, <2>2, <2>3, <2>4 DEF Writable
  <2>6. /\ mtime' = mtime + 1 /\ boot' = boot /\ state' = "RUNNING" /\ pc' = pc + 4
        /\ out' = out \o [j \in 1 .. w |-> Byte(regs[A1] + j - 1)]
        /\ regs' = [regs EXCEPT ![A0] = w] /\ mem' = mem
    <3>1. A0 = 10 /\ A1 = 11 /\ A2 = 12 /\ A7 = 17
      BY Named
    <3>2. regs[17] = 64
      BY <1>6, <3>1
    <3>3. /\ Advances
          /\ out' = out \o [j \in 1 .. Writable(regs[11], regs[12]) |-> Byte(regs[11] + j - 1)]
          /\ regs' = [regs EXCEPT ![10] = Writable(regs[11], regs[12])]
          /\ UNCHANGED <<fregs, fflags, mem, mtimecmp>>
      BY ONLY CInv, Step, <2>1, <3>2, WriteRuns
    <3>4. w = Writable(regs[11], regs[12])
      BY ONLY <2>3, <3>1
    <3> QED BY ONLY <3>1, <3>3, <3>4 DEF Advances
  <2>7. out' = Counting(m + w)
    <3> DEFINE s == [j \in 1 .. w |-> Byte(regs[A1] + j - 1)]
    <3>1. ASSUME NEW j \in 1 .. w PROVE Byte(regs[A1] + j - 1) = m + j
      <4>1. PICK i : i = m + (j - 1)
        OBVIOUS
      <4>2. i \in 0 .. n - 1 /\ regs[A1] + j - 1 = a + i /\ i + 1 = m + j
        BY ONLY <1>0, <1>6, <2>5, <4>1, j \in 1 .. w
      <4> QED BY <1>6, <4>2 DEF Filled
    <3>2. s = [j \in 1 .. w |-> m + j]
      BY <3>1
    <3> HIDE DEF s
    <3>3. Counting(m) \o s = Counting(m + w)
      BY <1>6, <2>5, <3>2, CountingOn
    <3> QED BY <2>2, <2>6, <3>3 DEF s
  <2>8. /\ regs'[A0] = w /\ regs'[A1] = regs[A1] /\ regs'[A2] = regs[A2] /\ regs'[A7] = regs[A7]
    BY ONLY <1>0, <1>2, <1>4, <2>6
  <2>9. Call(16, a, n, len)'
    <3>1. regs'[A1] - a = m /\ regs'[A0] = Writable(regs'[A1], regs'[A2]) /\ Filled(a, n)'
      BY ONLY <1>6, <1>7, <2>3, <2>6, <2>8
    <3>2. regs'[A7] = 64 /\ regs'[A2] = len - m /\ regs'[A2] # 0 /\ regs'[A0] = w
      BY ONLY <1>6, <2>2, <2>8
    <3> QED BY ONLY <1>6, <2>5, <2>7, <3>1, <3>2 DEF Call
  <2>10. pc' = TEXT + 4 * 16 /\ 15 + 1 = 16
    BY ONLY <1>0, <1>8, <2>6, pc = TEXT + 4 * k
  <2> QED BY <1>8, <2>6, <2>9, <2>10
<1>9. CASE k = 16
  <2>1. AtWord(enc_b(16, 0, A0, 0, OP_BRANCH))
    <3>1. /\ Holds(boot.code, TEXT + 64, enc_b(16, 0, A0, 0, OP_BRANCH))
          /\ TEXT + 4 * k = TEXT + 64
      BY <1>0, <1>9 DEF PrintText
    <3> QED BY <1>1, <3>1
  <2>2. PICK w : w = regs[A0]
    OBVIOUS
  <2>3. /\ w = Writable(regs[A1], regs[A2]) /\ m + w <= n /\ out = Counting(m + w)
        /\ regs[A2] = len - m /\ regs[A2] # 0 /\ w \in Nat
    BY <1>0, <1>2, <1>6, <1>9, <2>2 DEF Call
  <2>4. /\ state' = "RUNNING" /\ boot' = boot
        /\ pc' = IF taken(0, regs[A0], regs[0]) THEN pc + 16 ELSE pc + 4
        /\ regs' = regs /\ mem' = mem /\ out' = out
    <3>1. /\ 16 \in Int /\ -4096 <= 16 /\ 16 < 4096 /\ 16 % 2 = 0 /\ 0 \in BranchKinds
          /\ A0 \in Registers /\ 0 \in Registers
      BY ONLY <1>2 DEF BranchKinds, Registers
    <3>2. pc + 16 \in Words
      BY ONLY <1>0, <1>9, pc = TEXT + 4 * k
    <3> QED BY ONLY CInv, Step, <2>1, <3>1, <3>2, BranchRuns
  <2>5. taken(0, regs[A0], regs[0]) <=> w = 0
    BY <1>0, <2>2 DEF taken
  <2>6. CASE w = 0
    <3>1. pc' = TEXT + 4 * 20
      BY <1>0, <1>9, <2>4, <2>5, <2>6
    <3>2. m = n
      <4>1. MaxWrite \in Nat
        BY MemoryAssumption
      <4> QED BY ONLY <1>0, <1>6, <2>3, <2>6, <4>1, MaxWrite >= 1 DEF Writable
    <3>3. out' = Counting(n)
      <4>1. m + w = n
        BY <1>0, <1>6, <2>6, <3>2
      <4> QED BY <2>3, <2>4, <4>1
    <3>4. Call(20, a, n, len)'
      BY ONLY <1>6, <1>7, <2>4, <3>3 DEF Call
    <3> QED BY <1>9, <2>4, <3>1, <3>4
  <2>7. CASE w # 0
    <3>1. pc' = TEXT + 4 * 17 /\ 16 + 1 = 17
      BY <1>0, <1>9, <2>4, <2>5, <2>7
    <3>2. Call(17, a, n, len)'
      <4>1. regs'[A1] - a = m /\ regs'[A0] = Writable(regs'[A1], regs'[A2]) /\ Filled(a, n)'
        BY ONLY <1>6, <1>7, <2>2, <2>3, <2>4
      <4>2. /\ regs'[A7] = 64 /\ regs'[A2] = len - m /\ regs'[A2] # 0 /\ regs'[A0] = w
            /\ out' = Counting(m + w) /\ m + w <= n
        BY ONLY <1>6, <2>2, <2>3, <2>4
      <4> QED BY ONLY <1>6, <4>1, <4>2 DEF Call
    <3> QED BY <1>9, <2>4, <3>1, <3>2
  <2> QED BY <2>6, <2>7
<1>10. CASE k = 17
  <2>1. AtWord(Sum(A1, A1, A0))
    <3>1. Holds(boot.code, TEXT + 68, Sum(A1, A1, A0)) /\ TEXT + 4 * k = TEXT + 68
      BY <1>0, <1>10 DEF PrintText
    <3> QED BY <1>1, <3>1
  <2>2. PICK w : w = regs[A0]
    OBVIOUS
  <2>3. m + w <= n /\ out = Counting(m + w) /\ regs[A2] = len - m /\ w \in Nat
    BY <1>0, <1>2, <1>6, <1>10, <2>2 DEF Call
  <2>4. PICK v : v = a + (m + w) /\ Writes(A1, v)
    <3>1. Writes(A1, Wrap(regs[A1] + regs[A0]))
      BY ONLY CInv, Step, <1>2, <2>1, SumRuns
    <3>2. regs[A1] + regs[A0] = a + (m + w)
      BY ONLY <1>0, <1>6, <2>2, <2>3
    <3>a. a + (m + w) \in Words
      BY ONLY <1>0, <1>6, <2>3
    <3> QED BY ONLY <3>1, <3>2, <3>a, WrapWord
  <2>5. /\ mem' = mem /\ out' = out /\ pc' = pc + 4 /\ state' = "RUNNING" /\ boot' = boot
        /\ regs'[A1] = v /\ regs'[A0] = w /\ regs'[A2] = len - m /\ regs'[A7] = 64
    BY ONLY <1>3, <1>4, <1>6, <2>2, <2>3, <2>4
  <2>6. v - a = m + w /\ m + w \in 0 .. n /\ len - m = (len - (m + w)) + w
    BY ONLY <1>0, <1>6, <2>3, <2>4
  <2>7. Call(18, a, n, len)'
    <3>1. regs'[A2] = (len - (m + w)) + regs'[A0]
      BY <2>5, <2>6
    <3> QED BY ONLY <1>7, <2>3, <2>5, <2>6, <3>1 DEF Call
  <2>8. pc' = TEXT + 4 * 18 /\ 17 + 1 = 18
    BY ONLY <1>0, <1>10, <2>5, pc = TEXT + 4 * k
  <2> QED BY <1>10, <2>5, <2>7, <2>8
<1>11. CASE k = 18
  <2>1. AtWord(Minus(A2, A2, A0))
    <3>1. Holds(boot.code, TEXT + 72, Minus(A2, A2, A0)) /\ TEXT + 4 * k = TEXT + 72
      BY <1>0, <1>11 DEF PrintText
    <3> QED BY <1>1, <3>1
  <2>2. out = Counting(m) /\ regs[A2] = (len - m) + regs[A0] /\ regs[A0] \in Nat
    BY <1>0, <1>2, <1>6, <1>11 DEF Call
  <2>3. PICK v : v = len - m /\ Writes(A2, v)
    <3>1. Writes(A2, Wrap(regs[A2] - regs[A0]))
      BY ONLY CInv, Step, <1>2, <2>1, MinusRuns
    <3>2. regs[A2] - regs[A0] = len - m /\ len - m \in Words
      BY ONLY <1>0, <1>6, <2>2
    <3> QED BY <3>1, <3>2, WrapWord
  <2>4. /\ mem' = mem /\ out' = out /\ pc' = pc + 4 /\ state' = "RUNNING" /\ boot' = boot
        /\ regs'[A1] = regs[A1] /\ regs'[A2] = v /\ regs'[A7] = 64
    BY ONLY <1>3, <1>4, <1>6, <2>2, <2>3
  <2>5. Call(19, a, n, len)'
    BY ONLY <1>6, <1>7, <2>2, <2>3, <2>4 DEF Call
  <2>6. pc' = TEXT + 4 * 19 /\ 18 + 1 = 19
    BY ONLY <1>0, <1>11, <2>4, pc = TEXT + 4 * k
  <2> QED BY <1>11, <2>4, <2>5, <2>6
<1>12. CASE k = 19
  <2>1. AtWord(enc_b(-16, 0, A2, 1, OP_BRANCH))
    <3>1. /\ Holds(boot.code, TEXT + 76, enc_b(-16, 0, A2, 1, OP_BRANCH))
          /\ TEXT + 4 * k = TEXT + 76
      BY <1>0, <1>12 DEF PrintText
    <3> QED BY <1>1, <3>1
  <2>2. out = Counting(m) /\ regs[A2] = len - m
    BY <1>6, <1>12 DEF Call
  <2>3. /\ state' = "RUNNING" /\ boot' = boot
        /\ pc' = IF taken(1, regs[A2], regs[0]) THEN pc + -16 ELSE pc + 4
        /\ regs' = regs /\ mem' = mem /\ out' = out
    <3>1. /\ -16 \in Int /\ -4096 <= -16 /\ -16 < 4096 /\ (-16) % 2 = 0 /\ 1 \in BranchKinds
          /\ A2 \in Registers /\ 0 \in Registers
      BY ONLY <1>2 DEF BranchKinds, Registers
    <3>2. pc + -16 \in Words
      BY ONLY <1>0, <1>12, pc = TEXT + 4 * k
    <3> QED BY ONLY CInv, Step, <2>1, <3>1, <3>2, BranchRuns
  <2>4. taken(1, regs[A2], regs[0]) <=> len - m # 0
    BY <1>0, <2>2 DEF taken
  <2>5. CASE len - m = 0
    <3>1. pc' = TEXT + 4 * 20 /\ 19 + 1 = 20
      BY <1>0, <1>12, <2>3, <2>4, <2>5
    <3>2. m = n
      BY ONLY <1>0, <1>6, <2>5
    <3>3. Call(20, a, n, len)'
      BY ONLY <1>6, <1>7, <2>2, <2>3, <3>2 DEF Call
    <3> QED BY <1>12, <2>3, <3>1, <3>3
  <2>6. CASE len - m # 0
    <3>1. pc' = TEXT + 4 * 15
      BY <1>0, <1>12, <2>3, <2>4, <2>6
    <3>2. Call(15, a, n, len)'
      BY ONLY <1>6, <1>7, <2>2, <2>3, <2>6 DEF Call
    <3> QED BY <1>12, <2>3, <3>1, <3>2
  <2> QED BY <2>5, <2>6
<1> QED BY <1>8, <1>9, <1>10, <1>11, <1>12

\* What is known of the program while it runs and once it has ended.
PrintFacts(a, n, len) ==
    \/ state = "HALTED" /\ out = Counting(n)
    \/ /\ state = "RUNNING"
       /\ \/ \E k \in 0 .. 6 : pc = TEXT + 4 * k /\ Ready(k, a, n)
          \/ \E k \in 7 .. 10 : pc = TEXT + 4 * k /\ Fill(k, a, n)
          \/ \E k \in 11 .. 14 : pc = TEXT + 4 * k /\ LoadCall(k, a, n, len)
          \/ \E k \in 15 .. 20 : pc = TEXT + 4 * k /\ Call(k, a, n, len)

\* A step keeps it.
LEMMA PrintStep ==
  ASSUME CInv, Step, XLEN <= 32, TextFits(21), MaxWrite >= 1,
         NEW a, NEW n, NEW len, PrintArgs(a, n, len), PrintText(boot.code, a, n, len),
         PrintFacts(a, n, len)
  PROVE  PrintFacts(a, n, len)'
<1>0. TEXT \in Nat /\ n \in Nat /\ n >= 1 /\ TEXT % 2 = 0 /\ TEXT + 84 <= MemSize /\ MemSize \in Nat
      /\ a \in Nat /\ n <= len /\ len \in Nat
  BY PrintNumbers
<1>1. state = "RUNNING"
  BY DEF Step, Going
<1>2. CASE \E k \in 0 .. 6 : pc = TEXT + 4 * k /\ Ready(k, a, n)
  <2>1. PICK k \in 0 .. 6 : pc = TEXT + 4 * k /\ Ready(k, a, n)
    BY <1>2
  <2>2. pc' = TEXT + 4 * (k + 1) /\ Ready(k + 1, a, n)' /\ state' = "RUNNING"
    BY <2>1, ReadyStep
  <2>3. CASE k = 6
    <3>1. k + 1 = 7
      BY <2>3
    <3>2. Ready(7, a, n)' /\ pc' = TEXT + 4 * 7
      BY <2>2, <3>1
    <3>3. out' = <<>> /\ regs'[A1] = a /\ regs'[T2] = n + 1 /\ regs'[T1] = 1 /\ regs'[T0] = a
      BY <3>2 DEF Ready
    <3>4. Filled(a, 1 - 1)' /\ a + (1 - 1) = a /\ 1 \in 1 .. n
      BY <1>0 DEF Filled
    <3>5. Fill(7, a, n)'
      BY ONLY <3>3, <3>4 DEF Fill
    <3> QED BY <2>2, <3>2, <3>5 DEF PrintFacts
  <2>4. CASE k # 6
    <3>1. k + 1 \in 0 .. 6
      BY <2>4
    <3> QED BY <2>2, <3>1 DEF PrintFacts
  <2> QED BY <2>3, <2>4
<1>3. CASE \E k \in 7 .. 10 : pc = TEXT + 4 * k /\ Fill(k, a, n)
  <2>1. PICK k \in 7 .. 10 : pc = TEXT + 4 * k /\ Fill(k, a, n)
    BY <1>3
  <2>2. /\ state' = "RUNNING" /\ boot' = boot
        /\ \/ pc' = TEXT + 4 * (k + 1) /\ Fill(k + 1, a, n)'
           \/ k = 10 /\ pc' = TEXT + 4 * 7 /\ Fill(7, a, n)'
    BY <2>1, FillStep
  <2>3. CASE k = 10 /\ pc' = TEXT + 4 * (k + 1) /\ Fill(k + 1, a, n)'
    <3>1. k + 1 = 11
      BY <2>3
    <3>2. Fill(11, a, n)' /\ pc' = TEXT + 4 * 11
      BY <2>3, <3>1
    <3>3. LoadCall(11, a, n, len)'
      BY ONLY <3>2 DEF Fill, LoadCall
    <3> QED BY <2>2, <3>2, <3>3 DEF PrintFacts
  <2>4. CASE k # 10 /\ pc' = TEXT + 4 * (k + 1) /\ Fill(k + 1, a, n)'
    <3>1. k + 1 \in 7 .. 10
      BY <2>4
    <3> QED BY <2>2, <2>4, <3>1 DEF PrintFacts
  <2>5. CASE pc' = TEXT + 4 * 7 /\ Fill(7, a, n)'
    BY <2>2, <2>5 DEF PrintFacts
  <2> QED BY <2>2, <2>3, <2>4, <2>5
<1>4. CASE \E k \in 11 .. 14 : pc = TEXT + 4 * k /\ LoadCall(k, a, n, len)
  <2>1. PICK k \in 11 .. 14 : pc = TEXT + 4 * k /\ LoadCall(k, a, n, len)
    BY <1>4
  <2>2. pc' = TEXT + 4 * (k + 1) /\ LoadCall(k + 1, a, n, len)' /\ state' = "RUNNING"
    BY <2>1, LoadCallStep
  <2>3. CASE k = 14
    <3>1. k + 1 = 15
      BY <2>3
    <3>2. LoadCall(15, a, n, len)' /\ pc' = TEXT + 4 * 15
      BY <2>2, <3>1
    <3>3. out' = <<>> /\ regs'[A1] = a /\ regs'[A2] = len /\ regs'[A7] = 64 /\ Filled(a, n)'
      BY <3>2 DEF LoadCall
    <3>4. Counting(0) = <<>>
      BY DEF Counting
    <3>5. a - a = 0 /\ 0 \in 0 .. n /\ len = len - 0 /\ len # 0
      BY <1>0
    <3>6. Call(15, a, n, len)'
      BY ONLY <3>3, <3>4, <3>5 DEF Call
    <3> QED BY <2>2, <3>2, <3>6 DEF PrintFacts
  <2>4. CASE k # 14
    <3>1. k + 1 \in 11 .. 14
      BY <2>4
    <3> QED BY <2>2, <3>1 DEF PrintFacts
  <2> QED BY <2>3, <2>4
<1>5. CASE \E k \in 15 .. 20 : pc = TEXT + 4 * k /\ Call(k, a, n, len)
  <2>1. PICK k \in 15 .. 20 : pc = TEXT + 4 * k /\ Call(k, a, n, len)
    BY <1>5
  <2>2. CASE k \in 15 .. 19
    <3>1. /\ state' = "RUNNING" /\ boot' = boot
          /\ \/ pc' = TEXT + 4 * (k + 1) /\ Call(k + 1, a, n, len)'
             \/ k = 16 /\ pc' = TEXT + 4 * 20 /\ Call(20, a, n, len)'
             \/ k = 19 /\ pc' = TEXT + 4 * 15 /\ Call(15, a, n, len)'
      BY <2>1, <2>2, CallStep
    <3>2. k + 1 \in 15 .. 20
      BY <2>2
    <3>3. 15 \in 15 .. 20 /\ 20 \in 15 .. 20
      OBVIOUS
    <3> QED BY <3>1, <3>2, <3>3 DEF PrintFacts
  <2>3. CASE k = 20
    <3>1. AtWord(EBREAK)
      <4>1. Holds(boot.code, TEXT + 80, EBREAK) /\ pc = TEXT + 80
        BY <1>0, <2>1, <2>3 DEF PrintText
      <4> QED BY <1>0, <4>1 DEF AtWord
    <3>2. state' = "HALTED" /\ out' = out
      BY <3>1, EbreakRuns
    <3>3. out = Counting(n)
      BY <2>1, <2>3 DEF Call
    <3> QED BY <3>2, <3>3 DEF PrintFacts
  <2> QED BY <2>2, <2>3
<1> QED BY <1>1, <1>2, <1>3, <1>4, <1>5 DEF PrintFacts

-----------------------------------------------------------------------------
\* The factorial demo.

\* What it computes, and what is left of v once j digits are taken from its end.
Factorial[n \in Nat] == IF n = 0 THEN 1 ELSE n * Factorial[n - 1]
Tens(v) == LET f[j \in Nat] == IF j = 0 THEN v ELSE f[j - 1] \div 10 IN f

\* A recursion is what its definition says.
LEMMA FactorialIs ==
  /\ Factorial[0] = 1
  /\ \A n \in Nat : Factorial[n] \in Nat \ {0} /\ Factorial[n + 1] = (n + 1) * Factorial[n]
<1> DEFINE step == [x \in Nat \X Nat |-> (x[1] + 1) * x[2]]
           Body(g) == [n \in Nat |-> IF n = 0 THEN 1 ELSE n * g[n - 1]]
<1>1. step \in Steps(Nat)
  BY DEF Steps
<1>2. \A m \in Nat, x \in Nat : step[<<m, x>>] = (m + 1) * x
  OBVIOUS
<1> HIDE DEF step
<1>3. PICK f : Solves(Nat, 1, step, f)
  BY <1>1, Recursion
<1>4. /\ f \in [Nat -> Nat] /\ f[0] = 1
      /\ \A n \in Nat : f[n + 1] = (n + 1) * f[n]
  BY <1>2, <1>3 DEF Solves
<1>5. f = Body(f)
  <2>1. ASSUME NEW n \in Nat PROVE f[n] = Body(f)[n]
    <3>1. CASE n = 0
      BY <1>4, <3>1
    <3>2. CASE n # 0
      <4>1. n - 1 \in Nat /\ (n - 1) + 1 = n
        BY <3>2
      <4>2. f[(n - 1) + 1] = ((n - 1) + 1) * f[n - 1]
        BY ONLY <1>4, <4>1
      <4> QED BY <3>2, <4>1, <4>2
    <3> QED BY <3>1, <3>2
  <2> QED BY <1>4, <2>1
<1>6. Factorial = Body(Factorial)
  BY <1>5 DEF Factorial
<1>7. Factorial[0] = 1
  BY <1>6
<1>8. ASSUME NEW n \in Nat PROVE Factorial[n + 1] = (n + 1) * Factorial[n]
  <2>1. n + 1 \in Nat /\ n + 1 # 0 /\ (n + 1) - 1 = n
    OBVIOUS
  <2> QED BY <1>6, <2>1
<1> DEFINE S == {n \in Nat : Factorial[n] \in Nat \ {0}}
<1>9. 0 \in S
  BY <1>7
<1>10. ASSUME NEW n \in Nat, n \in S PROVE n + 1 \in S
  <2>1. Factorial[n] \in Nat \ {0} /\ n + 1 \in Nat \ {0}
    BY <1>10
  <2>2. \A x, y \in Nat \ {0} : x * y \in Nat \ {0}
    OBVIOUS
  <2> QED BY <1>8, <2>1, <2>2
<1> HIDE DEF S
<1>11. Nat \subseteq S
  BY <1>9, <1>10, Induction
<1> QED BY <1>7, <1>8, <1>11 DEF S

\* The other one too.
LEMMA TensIs ==
  ASSUME NEW v \in Nat
  PROVE  /\ Tens(v)[0] = v
         /\ \A n \in Nat : Tens(v)[n] \in Nat /\ Tens(v)[n + 1] = Tens(v)[n] \div 10
<1> DEFINE step == [x \in Nat \X Nat |-> x[2] \div 10]
           Body(g) == [n \in Nat |-> IF n = 0 THEN v ELSE g[n - 1] \div 10]
           at == CHOOSE g : g = Body(g)
<1>1. step \in Steps(Nat)
  BY DEF Steps
<1>2. \A m \in Nat, x \in Nat : step[<<m, x>>] = x \div 10
  OBVIOUS
<1> HIDE DEF step
<1>3. PICK f : Solves(Nat, v, step, f)
  BY <1>1, Recursion
<1>4. /\ f \in [Nat -> Nat] /\ f[0] = v
      /\ \A n \in Nat : f[n + 1] = f[n] \div 10
  BY <1>2, <1>3 DEF Solves
<1>5. f = Body(f)
  <2>1. ASSUME NEW n \in Nat PROVE f[n] = Body(f)[n]
    <3>1. CASE n = 0
      BY <1>4, <3>1
    <3>2. CASE n # 0
      <4>1. n - 1 \in Nat /\ (n - 1) + 1 = n
        BY <3>2
      <4>2. f[(n - 1) + 1] = f[n - 1] \div 10
        BY ONLY <1>4, <4>1
      <4> QED BY <3>2, <4>1, <4>2
    <3> QED BY <3>1, <3>2
  <2> QED BY <1>4, <2>1
<1>6. at = Body(at)
  BY <1>5
<1>7. Tens(v) = at
  BY DEF Tens
<1>8. \A n \in Nat : at[n] = IF n = 0 THEN v ELSE at[n - 1] \div 10
  BY <1>6
<1> HIDE DEF at
<1>9. at[0] = v
  BY <1>8
<1>10. ASSUME NEW n \in Nat PROVE at[n + 1] = at[n] \div 10
  <2>1. n + 1 \in Nat /\ n + 1 # 0 /\ (n + 1) - 1 = n
    OBVIOUS
  <2> QED BY <1>8, <2>1
<1> DEFINE S == {n \in Nat : at[n] \in Nat}
<1>11. 0 \in S
  BY <1>9
<1>12. ASSUME NEW n \in Nat, n \in S PROVE n + 1 \in S
  <2>1. at[n] \in Nat
    BY <1>12
  <2>2. at[n] \div 10 \in Nat
    BY <2>1
  <2> QED BY <1>10, <2>2
<1> HIDE DEF S
<1>13. Nat \subseteq S
  BY <1>11, <1>12, Induction
<1> QED BY <1>7, <1>9, <1>10, <1>13 DEF S

\* The items of the program.
LEMMA DemoItems ==
  ASSUME NEW arg
  PROVE  /\ Len(demo(arg)) = 24
         /\ demo(arg)[1] = li32(A0, 1)
         /\ demo(arg)[2] = li32(T0, arg)
         /\ demo(arg)[3] = Label("fact_loop")
         /\ demo(arg)[4] = Word(R(0, A0, A0, T0))
         /\ demo(arg)[5] = Word(enc_i(-1, T0, 0, T0, OP_ALUI))
         /\ demo(arg)[6] = branch(1, T0, 0, "fact_loop")
         /\ demo(arg)[7] = li32(T2, DATA + 16)
         /\ demo(arg)[8] = Word(enc_i(0, T2, 0, T3, OP_ALUI))
         /\ demo(arg)[9] = li32(T4, 10)
         /\ demo(arg)[10] = Label("digit_loop")
         /\ demo(arg)[11] = Word(R(7, T5, A0, T4))
         /\ demo(arg)[12] = Word(R(5, A0, A0, T4))
         /\ demo(arg)[13] = Word(enc_i(48, T5, 0, T5, OP_ALUI))
         /\ demo(arg)[14] = Word(enc_i(-1, T3, 0, T3, OP_ALUI))
         /\ demo(arg)[15] = Word(enc_s(0, T5, T3, 0, OP_STORE))
         /\ demo(arg)[16] = branch(1, A0, 0, "digit_loop")
         /\ demo(arg)[17] = li32(A0, 1)
         /\ demo(arg)[18] = Word(enc_i(0, T3, 0, A1, OP_ALUI))
         /\ demo(arg)[19] = Word(Minus(A2, T2, T3))
         /\ demo(arg)[20] = li32(A7, 64)
         /\ demo(arg)[21] = Word(ECALL)
         /\ demo(arg)[22] = li32(A0, 0)
         /\ demo(arg)[23] = li32(A7, 93)
         /\ demo(arg)[24] = Word(ECALL)
<1> DEFINE p == <<li32(A0, 1), li32(T0, arg),
                  Label("fact_loop"), mul(A0, A0, T0), addi(T0, T0, -1), bnez(T0, "fact_loop"),
                  li32(T2, DATA + 16), mv(T3, T2), li32(T4, 10),
                  Label("digit_loop"), remu(T5, A0, T4), divu(A0, A0, T4), addi(T5, T5, 48),
                  addi(T3, T3, -1), sb(T5, T3, 0), bnez(A0, "digit_loop"),
                  li32(A0, 1), mv(A1, T3), sub(A2, T2, T3), li32(A7, 64), ecall>>
           q == <<li32(A0, 0), li32(A7, 93), ecall>>
           K == {p[1], p[2], p[3], p[4], p[5], p[6], p[7], p[8], p[9], p[10], p[11],
                 p[12], p[13], p[14], p[15], p[16], p[17], p[18], p[19], p[20], p[21]}
           L == {q[1], q[2], q[3]}
<1>1. demo(arg) = p \o q
  BY DEF demo, exit
<1>2. p \in Seq(K) /\ Len(p) = 21 /\ q \in Seq(L) /\ Len(q) = 3
  OBVIOUS
<1>3. /\ p[1] = li32(A0, 1)
      /\ p[2] = li32(T0, arg)
      /\ p[3] = Label("fact_loop")
      /\ p[4] = Word(R(0, A0, A0, T0))
      /\ p[5] = Word(enc_i(-1, T0, 0, T0, OP_ALUI))
      /\ p[6] = branch(1, T0, 0, "fact_loop")
      /\ p[7] = li32(T2, DATA + 16)
      /\ p[8] = Word(enc_i(0, T2, 0, T3, OP_ALUI))
      /\ p[9] = li32(T4, 10)
      /\ p[10] = Label("digit_loop")
      /\ p[11] = Word(R(7, T5, A0, T4))
      /\ p[12] = Word(R(5, A0, A0, T4))
      /\ p[13] = Word(enc_i(48, T5, 0, T5, OP_ALUI))
      /\ p[14] = Word(enc_i(-1, T3, 0, T3, OP_ALUI))
      /\ p[15] = Word(enc_s(0, T5, T3, 0, OP_STORE))
      /\ p[16] = branch(1, A0, 0, "digit_loop")
      /\ p[17] = li32(A0, 1)
      /\ p[18] = Word(enc_i(0, T3, 0, A1, OP_ALUI))
      /\ p[19] = Word(Minus(A2, T2, T3))
      /\ p[20] = li32(A7, 64)
      /\ p[21] = Word(ECALL)
      /\ q[1] = li32(A0, 0)
      /\ q[2] = li32(A7, 93)
      /\ q[3] = Word(ECALL)
  BY EcallIsWord DEF exit, mul, addi, bnez, bne, mv, remu, divu, op, sb, store, sub, R, Minus,
       ecall, system
<1> HIDE DEF p, q, K, L
<1>4. IsJoin(p \o q, p, 21, q, 3)
  BY ONLY <1>2, Appended
<1>5. /\ 1 \in 1 .. 21 /\ 2 \in 1 .. 21 /\ 3 \in 1 .. 21 /\ 4 \in 1 .. 21 /\ 5 \in 1 .. 21 /\ 6 \in 1 .. 21 /\ 7 \in 1 .. 21
      /\ 8 \in 1 .. 21 /\ 9 \in 1 .. 21 /\ 10 \in 1 .. 21 /\ 11 \in 1 .. 21 /\ 12 \in 1 .. 21 /\ 13 \in 1 .. 21 /\ 14 \in 1 .. 21
      /\ 15 \in 1 .. 21 /\ 16 \in 1 .. 21 /\ 17 \in 1 .. 21 /\ 18 \in 1 .. 21 /\ 19 \in 1 .. 21 /\ 20 \in 1 .. 21 /\ 21 \in 1 .. 21
      /\ 1 \in 1 .. 3 /\ 2 \in 1 .. 3 /\ 3 \in 1 .. 3
      /\ 21 + 1 = 22 /\ 21 + 2 = 23 /\ 21 + 3 = 24
  OBVIOUS
<1> DEFINE c == p \o q
<1>6. Len(c) = 24
  BY ONLY <1>4, <1>5 DEF IsJoin
<1> HIDE DEF c
<1>7. /\ c[1] = p[1]
      /\ c[2] = p[2]
      /\ c[3] = p[3]
      /\ c[4] = p[4]
      /\ c[5] = p[5]
      /\ c[6] = p[6]
      /\ c[7] = p[7]
      /\ c[8] = p[8]
      /\ c[9] = p[9]
      /\ c[10] = p[10]
      /\ c[11] = p[11]
      /\ c[12] = p[12]
      /\ c[13] = p[13]
      /\ c[14] = p[14]
      /\ c[15] = p[15]
      /\ c[16] = p[16]
      /\ c[17] = p[17]
      /\ c[18] = p[18]
      /\ c[19] = p[19]
      /\ c[20] = p[20]
      /\ c[21] = p[21]
  BY ONLY <1>4, <1>5 DEF IsJoin, c
<1>8. c[22] = q[1] /\ c[23] = q[2] /\ c[24] = q[3]
  BY ONLY <1>4, <1>5 DEF IsJoin, c
<1>9. demo(arg) = c
  BY <1>1 DEF c
<1> QED BY ONLY <1>3, <1>6, <1>7, <1>8, <1>9

\* The words of the program.
DemoText(c, arg) ==
    /\ Holds(c, TEXT, Lui(A0, 1))
    /\ Holds(c, TEXT + 4, Addi(A0, 1))
    /\ Holds(c, TEXT + 8, Lui(T0, arg))
    /\ Holds(c, TEXT + 12, Addi(T0, arg))
    /\ Holds(c, TEXT + 16, R(0, A0, A0, T0))
    /\ Holds(c, TEXT + 20, enc_i(-1, T0, 0, T0, OP_ALUI))
    /\ Holds(c, TEXT + 24, enc_b(-8, 0, T0, 1, OP_BRANCH))
    /\ Holds(c, TEXT + 28, Lui(T2, DATA + 16))
    /\ Holds(c, TEXT + 32, Addi(T2, DATA + 16))
    /\ Holds(c, TEXT + 36, enc_i(0, T2, 0, T3, OP_ALUI))
    /\ Holds(c, TEXT + 40, Lui(T4, 10))
    /\ Holds(c, TEXT + 44, Addi(T4, 10))
    /\ Holds(c, TEXT + 48, R(7, T5, A0, T4))
    /\ Holds(c, TEXT + 52, R(5, A0, A0, T4))
    /\ Holds(c, TEXT + 56, enc_i(48, T5, 0, T5, OP_ALUI))
    /\ Holds(c, TEXT + 60, enc_i(-1, T3, 0, T3, OP_ALUI))
    /\ Holds(c, TEXT + 64, enc_s(0, T5, T3, 0, OP_STORE))
    /\ Holds(c, TEXT + 68, enc_b(-20, 0, A0, 1, OP_BRANCH))
    /\ Holds(c, TEXT + 72, Lui(A0, 1))
    /\ Holds(c, TEXT + 76, Addi(A0, 1))
    /\ Holds(c, TEXT + 80, enc_i(0, T3, 0, A1, OP_ALUI))
    /\ Holds(c, TEXT + 84, Minus(A2, T2, T3))
    /\ Holds(c, TEXT + 88, Lui(A7, 64))
    /\ Holds(c, TEXT + 92, Addi(A7, 64))
    /\ Holds(c, TEXT + 96, ECALL)
    /\ Holds(c, TEXT + 100, Lui(A0, 0))
    /\ Holds(c, TEXT + 104, Addi(A0, 0))
    /\ Holds(c, TEXT + 108, Lui(A7, 93))
    /\ Holds(c, TEXT + 112, Addi(A7, 93))
    /\ Holds(c, TEXT + 116, ECALL)

\* The assembler puts them there.
LEMMA DemoAssembled ==
  ASSUME TEXT \in Nat, NEW arg
  PROVE  DemoText(assemble(demo(arg), TEXT), arg)
<1> DEFINE items == demo(arg)
           c == assemble(items, TEXT)
<1>1. /\ Len(items) = 24
      /\ items[1] = li32(A0, 1)
      /\ items[2] = li32(T0, arg)
      /\ items[3] = Label("fact_loop")
      /\ items[4] = Word(R(0, A0, A0, T0))
      /\ items[5] = Word(enc_i(-1, T0, 0, T0, OP_ALUI))
      /\ items[6] = branch(1, T0, 0, "fact_loop")
      /\ items[7] = li32(T2, DATA + 16)
      /\ items[8] = Word(enc_i(0, T2, 0, T3, OP_ALUI))
      /\ items[9] = li32(T4, 10)
      /\ items[10] = Label("digit_loop")
      /\ items[11] = Word(R(7, T5, A0, T4))
      /\ items[12] = Word(R(5, A0, A0, T4))
      /\ items[13] = Word(enc_i(48, T5, 0, T5, OP_ALUI))
      /\ items[14] = Word(enc_i(-1, T3, 0, T3, OP_ALUI))
      /\ items[15] = Word(enc_s(0, T5, T3, 0, OP_STORE))
      /\ items[16] = branch(1, A0, 0, "digit_loop")
      /\ items[17] = li32(A0, 1)
      /\ items[18] = Word(enc_i(0, T3, 0, A1, OP_ALUI))
      /\ items[19] = Word(Minus(A2, T2, T3))
      /\ items[20] = li32(A7, 64)
      /\ items[21] = Word(ECALL)
      /\ items[22] = li32(A0, 0)
      /\ items[23] = li32(A7, 93)
      /\ items[24] = Word(ECALL)
  BY DemoItems
<1> HIDE DEF items
<1>2. /\ items[1].kind = "li32"
      /\ items[2].kind = "li32"
      /\ items[3].kind = "label" /\ items[3].name = "fact_loop"
      /\ items[4].kind = "word"
      /\ items[5].kind = "word"
      /\ items[6].kind = "branch"
      /\ items[7].kind = "li32"
      /\ items[8].kind = "word"
      /\ items[9].kind = "li32"
      /\ items[10].kind = "label" /\ items[10].name = "digit_loop"
      /\ items[11].kind = "word"
      /\ items[12].kind = "word"
      /\ items[13].kind = "word"
      /\ items[14].kind = "word"
      /\ items[15].kind = "word"
      /\ items[16].kind = "branch"
      /\ items[17].kind = "li32"
      /\ items[18].kind = "word"
      /\ items[19].kind = "word"
      /\ items[20].kind = "li32"
      /\ items[21].kind = "word"
      /\ items[22].kind = "li32"
      /\ items[23].kind = "li32"
      /\ items[24].kind = "word"
  BY <1>1 DEF li32, Word, Label, branch
<1>3. \A k \in 1 .. 24 : items[k].kind = "label" => k \in {3, 10}
  <2> SUFFICES ASSUME NEW k \in 1 .. 24, items[k].kind = "label" PROVE k \in {3, 10}
    OBVIOUS
  <2>1. k \in {1, 2, 3, 4, 5, 6, 7, 8, 9, 10, 11, 12, 13, 14, 15, 16, 17, 18, 19, 20, 21, 22, 23, 24}
    OBVIOUS
  <2> QED BY ONLY <1>2, <2>1, items[k].kind = "label"
<1>4. /\ Labels(items, "fact_loop", 3)
      /\ Labels(items, "digit_loop", 10)
  <2>1. 3 \in 1 .. 24 /\ 10 \in 1 .. 24
    OBVIOUS
  <2> QED BY ONLY <1>1, <1>2, <1>3, <2>1 DEF Labels
<1>5. /\ Holds(c, TEXT, Lui(A0, 1))
      /\ Holds(c, TEXT + 4, Addi(A0, 1))
      /\ ItemAt(items, TEXT, 2, 8)
  <2>1. items[1] = li32(A0, 1) /\ Len(items) \in Nat /\ Len(items) >= 1 /\ TEXT \in Int
    BY ONLY <1>1, TEXT \in Nat
  <2> QED BY ONLY <2>1, FirstConstant DEF c
<1>6. /\ Holds(c, TEXT + 8, Lui(T0, arg))
      /\ Holds(c, TEXT + 12, Addi(T0, arg))
      /\ ItemAt(items, TEXT, 3, 16)
  <2>1. items[2] = li32(T0, arg) /\ 2 <= Len(items) /\ TEXT \in Int
    BY ONLY <1>1, TEXT \in Nat
  <2> QED BY ONLY <1>5, <2>1, NextConstant DEF c
<1>7. ItemAt(items, TEXT, 4, 16)
  <2>1. items[3] = Label("fact_loop") /\ 3 <= Len(items) /\ TEXT \in Int
    BY ONLY <1>1, TEXT \in Nat
  <2> QED BY ONLY <1>6, <2>1, NextLabel DEF c
<1>8. Holds(c, TEXT + 16, R(0, A0, A0, T0)) /\ ItemAt(items, TEXT, 5, 20)
  <2>1. items[4] = Word(R(0, A0, A0, T0)) /\ 4 <= Len(items) /\ TEXT \in Int
    BY ONLY <1>1, TEXT \in Nat
  <2> QED BY ONLY <1>7, <2>1, NextWord DEF c
<1>9. Holds(c, TEXT + 20, enc_i(-1, T0, 0, T0, OP_ALUI)) /\ ItemAt(items, TEXT, 6, 24)
  <2>1. items[5] = Word(enc_i(-1, T0, 0, T0, OP_ALUI)) /\ 5 <= Len(items) /\ TEXT \in Int
    BY ONLY <1>1, TEXT \in Nat
  <2> QED BY ONLY <1>8, <2>1, NextWord DEF c
<1>10. /\ Holds(c, TEXT + 24, enc_b(-8, 0, T0, 1, OP_BRANCH))
      /\ ItemAt(items, TEXT, 7, 28)
  <2>1. items[6] = branch(1, T0, 0, "fact_loop") /\ 6 <= Len(items) /\ TEXT \in Int
    BY ONLY <1>1, TEXT \in Nat
  <2>2. /\ Holds(c, TEXT + 24, enc_b(16 - 24, 0, T0, 1, OP_BRANCH))
        /\ ItemAt(items, TEXT, 6 + 1, 24 + 4)
    <3>1. Labels(items, "fact_loop", 3) /\ 6 \in Int /\ 24 \in Int /\ 16 \in Int
      BY ONLY <1>4
    <3> QED BY ONLY <1>9, <1>6, <2>1, <3>1, NextBranch DEF c
  <2>3. 16 - 24 = -8 /\ 6 + 1 = 7 /\ 24 + 4 = 28
    OBVIOUS
  <2> QED BY ONLY <2>2, <2>3
<1>11. /\ Holds(c, TEXT + 28, Lui(T2, DATA + 16))
      /\ Holds(c, TEXT + 32, Addi(T2, DATA + 16))
      /\ ItemAt(items, TEXT, 8, 36)
  <2>1. items[7] = li32(T2, DATA + 16) /\ 7 <= Len(items) /\ TEXT \in Int
    BY ONLY <1>1, TEXT \in Nat
  <2> QED BY ONLY <1>10, <2>1, NextConstant DEF c
<1>12. Holds(c, TEXT + 36, enc_i(0, T2, 0, T3, OP_ALUI)) /\ ItemAt(items, TEXT, 9, 40)
  <2>1. items[8] = Word(enc_i(0, T2, 0, T3, OP_ALUI)) /\ 8 <= Len(items) /\ TEXT \in Int
    BY ONLY <1>1, TEXT \in Nat
  <2> QED BY ONLY <1>11, <2>1, NextWord DEF c
<1>13. /\ Holds(c, TEXT + 40, Lui(T4, 10))
      /\ Holds(c, TEXT + 44, Addi(T4, 10))
      /\ ItemAt(items, TEXT, 10, 48)
  <2>1. items[9] = li32(T4, 10) /\ 9 <= Len(items) /\ TEXT \in Int
    BY ONLY <1>1, TEXT \in Nat
  <2> QED BY ONLY <1>12, <2>1, NextConstant DEF c
<1>14. ItemAt(items, TEXT, 11, 48)
  <2>1. items[10] = Label("digit_loop") /\ 10 <= Len(items) /\ TEXT \in Int
    BY ONLY <1>1, TEXT \in Nat
  <2> QED BY ONLY <1>13, <2>1, NextLabel DEF c
<1>15. Holds(c, TEXT + 48, R(7, T5, A0, T4)) /\ ItemAt(items, TEXT, 12, 52)
  <2>1. items[11] = Word(R(7, T5, A0, T4)) /\ 11 <= Len(items) /\ TEXT \in Int
    BY ONLY <1>1, TEXT \in Nat
  <2> QED BY ONLY <1>14, <2>1, NextWord DEF c
<1>16. Holds(c, TEXT + 52, R(5, A0, A0, T4)) /\ ItemAt(items, TEXT, 13, 56)
  <2>1. items[12] = Word(R(5, A0, A0, T4)) /\ 12 <= Len(items) /\ TEXT \in Int
    BY ONLY <1>1, TEXT \in Nat
  <2> QED BY ONLY <1>15, <2>1, NextWord DEF c
<1>17. Holds(c, TEXT + 56, enc_i(48, T5, 0, T5, OP_ALUI)) /\ ItemAt(items, TEXT, 14, 60)
  <2>1. items[13] = Word(enc_i(48, T5, 0, T5, OP_ALUI)) /\ 13 <= Len(items) /\ TEXT \in Int
    BY ONLY <1>1, TEXT \in Nat
  <2> QED BY ONLY <1>16, <2>1, NextWord DEF c
<1>18. Holds(c, TEXT + 60, enc_i(-1, T3, 0, T3, OP_ALUI)) /\ ItemAt(items, TEXT, 15, 64)
  <2>1. items[14] = Word(enc_i(-1, T3, 0, T3, OP_ALUI)) /\ 14 <= Len(items) /\ TEXT \in Int
    BY ONLY <1>1, TEXT \in Nat
  <2> QED BY ONLY <1>17, <2>1, NextWord DEF c
<1>19. Holds(c, TEXT + 64, enc_s(0, T5, T3, 0, OP_STORE)) /\ ItemAt(items, TEXT, 16, 68)
  <2>1. items[15] = Word(enc_s(0, T5, T3, 0, OP_STORE)) /\ 15 <= Len(items) /\ TEXT \in Int
    BY ONLY <1>1, TEXT \in Nat
  <2> QED BY ONLY <1>18, <2>1, NextWord DEF c
<1>20. /\ Holds(c, TEXT + 68, enc_b(-20, 0, A0, 1, OP_BRANCH))
      /\ ItemAt(items, TEXT, 17, 72)
  <2>1. items[16] = branch(1, A0, 0, "digit_loop") /\ 16 <= Len(items) /\ TEXT \in Int
    BY ONLY <1>1, TEXT \in Nat
  <2>2. /\ Holds(c, TEXT + 68, enc_b(48 - 68, 0, A0, 1, OP_BRANCH))
        /\ ItemAt(items, TEXT, 16 + 1, 68 + 4)
    <3>1. Labels(items, "digit_loop", 10) /\ 16 \in Int /\ 68 \in Int /\ 48 \in Int
      BY ONLY <1>4
    <3> QED BY ONLY <1>19, <1>13, <2>1, <3>1, NextBranch DEF c
  <2>3. 48 - 68 = -20 /\ 16 + 1 = 17 /\ 68 + 4 = 72
    OBVIOUS
  <2> QED BY ONLY <2>2, <2>3
<1>21. /\ Holds(c, TEXT + 72, Lui(A0, 1))
      /\ Holds(c, TEXT + 76, Addi(A0, 1))
      /\ ItemAt(items, TEXT, 18, 80)
  <2>1. items[17] = li32(A0, 1) /\ 17 <= Len(items) /\ TEXT \in Int
    BY ONLY <1>1, TEXT \in Nat
  <2> QED BY ONLY <1>20, <2>1, NextConstant DEF c
<1>22. Holds(c, TEXT + 80, enc_i(0, T3, 0, A1, OP_ALUI)) /\ ItemAt(items, TEXT, 19, 84)
  <2>1. items[18] = Word(enc_i(0, T3, 0, A1, OP_ALUI)) /\ 18 <= Len(items) /\ TEXT \in Int
    BY ONLY <1>1, TEXT \in Nat
  <2> QED BY ONLY <1>21, <2>1, NextWord DEF c
<1>23. Holds(c, TEXT + 84, Minus(A2, T2, T3)) /\ ItemAt(items, TEXT, 20, 88)
  <2>1. items[19] = Word(Minus(A2, T2, T3)) /\ 19 <= Len(items) /\ TEXT \in Int
    BY ONLY <1>1, TEXT \in Nat
  <2> QED BY ONLY <1>22, <2>1, NextWord DEF c
<1>24. /\ Holds(c, TEXT + 88, Lui(A7, 64))
      /\ Holds(c, TEXT + 92, Addi(A7, 64))
      /\ ItemAt(items, TEXT, 21, 96)
  <2>1. items[20] = li32(A7, 64) /\ 20 <= Len(items) /\ TEXT \in Int
    BY ONLY <1>1, TEXT \in Nat
  <2> QED BY ONLY <1>23, <2>1, NextConstant DEF c
<1>25. Holds(c, TEXT + 96, ECALL) /\ ItemAt(items, TEXT, 22, 100)
  <2>1. items[21] = Word(ECALL) /\ 21 <= Len(items) /\ TEXT \in Int
    BY ONLY <1>1, TEXT \in Nat
  <2> QED BY ONLY <1>24, <2>1, NextWord DEF c
<1>26. /\ Holds(c, TEXT + 100, Lui(A0, 0))
      /\ Holds(c, TEXT + 104, Addi(A0, 0))
      /\ ItemAt(items, TEXT, 23, 108)
  <2>1. items[22] = li32(A0, 0) /\ 22 <= Len(items) /\ TEXT \in Int
    BY ONLY <1>1, TEXT \in Nat
  <2> QED BY ONLY <1>25, <2>1, NextConstant DEF c
<1>27. /\ Holds(c, TEXT + 108, Lui(A7, 93))
      /\ Holds(c, TEXT + 112, Addi(A7, 93))
      /\ ItemAt(items, TEXT, 24, 116)
  <2>1. items[23] = li32(A7, 93) /\ 23 <= Len(items) /\ TEXT \in Int
    BY ONLY <1>1, TEXT \in Nat
  <2> QED BY ONLY <1>26, <2>1, NextConstant DEF c
<1>28. Holds(c, TEXT + 116, ECALL) /\ ItemAt(items, TEXT, 25, 120)
  <2>1. items[24] = Word(ECALL) /\ 24 <= Len(items) /\ TEXT \in Int
    BY ONLY <1>1, TEXT \in Nat
  <2> QED BY ONLY <1>27, <2>1, NextWord DEF c
<1> QED BY <1>5, <1>6, <1>8, <1>9, <1>10, <1>11, <1>12, <1>13, <1>15, <1>16, <1>17, <1>18,
           <1>19, <1>20, <1>21, <1>22, <1>23, <1>24, <1>25, <1>26, <1>27, <1>28
        DEF DemoText, items

\* What is left of the factorial when c of its digits are taken, and the digit that is
\* taken then, as a byte.
Left(k, c) == Tens(Factorial[k])[c]
Digit(k, c) == ((Left(k, c) % 10) + 48) % ByteSize

\* What the demo is booted with: the factorial fits a word, its m digits fit the buffer
\* and one call of write, and a byte tells ten digits apart.
DemoArgs(k, m) ==
    /\ k \in Words \ {0} /\ Factorial[k] \in Words /\ 10 <= ByteSize
    /\ m \in 1 .. 16 /\ m <= MaxWrite
    /\ Left(k, m) = 0 /\ \A c \in 0 .. m - 1 : Left(k, c) # 0

\* The last i digits are in memory, below the end of the buffer.
Digits(k, i) == \A c \in 0 .. i - 1 : Byte(DATA + 15 - c) = Digit(k, c)

\* All of them, the first one first.
Decimal(k, m) == [c \in 1 .. m |-> Digit(k, m - c)]

\* Before word j of the part that loads the first registers,
Begin(j, k) ==
    /\ out = <<>>
    /\ j = 1 => regs[A0] = Wrap(Immediate(Lui(A0, 1)))
    /\ j >= 2 => regs[A0] = 1
    /\ j = 3 => regs[T0] = Wrap(Immediate(Lui(T0, k)))
    /\ j = 4 => regs[T0] = k

\* of the loop that multiplies,
Multiply(j, k) ==
    LET t == regs[T0] IN
    /\ out = <<>>
    /\ j \in {4, 5} => t \in 1 .. k
    /\ j = 6 => t \in 0 .. k - 1
    /\ j \in {4, 6} => regs[A0] * Factorial[t] = Factorial[k]
    /\ j = 5 => regs[A0] * Factorial[t - 1] = Factorial[k]
    /\ j = 7 => regs[A0] = Factorial[k]

\* of the part that gets ready for the digits,
Arrange(j, k) ==
    /\ out = <<>> /\ regs[A0] = Factorial[k]
    /\ j = 8 => regs[T2] = Wrap(Immediate(Lui(T2, DATA + 16)))
    /\ j >= 9 => regs[T2] = DATA + 16
    /\ j >= 10 => regs[T3] = DATA + 16
    /\ j = 11 => regs[T4] = Wrap(Immediate(Lui(T4, 10)))
    /\ j = 12 => regs[T4] = 10

\* of the loop that takes a digit after the other, i being how many are stored once the
\* byte at T3 is,
Take(j, k, m) ==
    LET i == (DATA + 16) - regs[T3] IN
    /\ out = <<>> /\ regs[T2] = DATA + 16 /\ regs[T4] = 10
    /\ j \in 12 .. 15 => i \in 0 .. m - 1 /\ Digits(k, i)
    /\ j \in {12, 13} => regs[A0] = Left(k, i)
    /\ j \in {13, 14} => regs[T5] = Left(k, i) % 10
    /\ j \in {14, 15} => regs[A0] = Left(k, i + 1)
    /\ j = 15 => regs[T5] = (Left(k, i) % 10) + 48
    /\ j \in {16, 17} => i \in 1 .. m /\ regs[A0] = Left(k, i)
    /\ j = 16 => Digits(k, i - 1) /\ regs[T5] = (Left(k, i - 1) % 10) + 48
    /\ j = 17 => Digits(k, i)
    /\ j = 18 => i = m /\ Digits(k, m) /\ regs[T3] = DATA + 16 - m

\* of the call of write,
Show(j, k, m) ==
    /\ regs[T2] = DATA + 16 /\ regs[T3] = DATA + 16 - m /\ Digits(k, m)
    /\ out = <<>>
    /\ j = 19 => regs[A0] = Wrap(Immediate(Lui(A0, 1)))
    /\ j >= 21 => regs[A1] = DATA + 16 - m
    /\ j >= 22 => regs[A2] = m
    /\ j = 23 => regs[A7] = Wrap(Immediate(Lui(A7, 64)))
    /\ j = 24 => regs[A7] = 64

\* and of the call of exit.
Leave(j, k, m) ==
    /\ out = Decimal(k, m)
    /\ j = 26 => regs[A0] = Wrap(Immediate(Lui(A0, 0)))
    /\ j = 28 => regs[A7] = Wrap(Immediate(Lui(A7, 93)))
    /\ j = 29 => regs[A7] = 93

\* The sizes of the numbers of the program.
DemoSizes(k, m) ==
    /\ regs \in [Registers -> Words] /\ regs[0] = 0 /\ Words = 0 .. Size - 1
    /\ \A r \in Registers : regs[r] \in Nat /\ regs[r] < Size
    /\ Size \in Nat /\ Size >= 4096 /\ MemSize \in Nat /\ MemSize < Size
    /\ TEXT \in Nat /\ TEXT % 2 = 0 /\ TEXT + 120 <= MemSize
    /\ DATA \in Nat /\ DATA + 16 <= MemSize
    /\ k \in Nat /\ k >= 1 /\ m \in Nat /\ m >= 1 /\ m <= 16
    /\ ByteSize \in Nat /\ 10 <= ByteSize
    /\ 0 \in Words /\ 1 \in Words /\ 10 \in Words /\ 64 \in Words /\ 93 \in Words
    /\ DATA + 16 \in Words /\ k \in Words

\* The numbers of the program are words.
LEMMA DemoNumbers ==
  ASSUME CInv, TextFits(30), DataFits(16), NEW k, NEW m, DemoArgs(k, m)
  PROVE  DemoSizes(k, m)
<1>1. regs \in [Registers -> Words] /\ regs[0] = 0
  BY DEF CInv, CTypeOK
<1>2. /\ Words = 0 .. Size - 1 /\ Size \in Nat /\ Size >= 4096
      /\ MemSize \in Nat /\ MemSize < Size
  BY MemoryAssumption, WordSizes
<1>3. \A r \in Registers : regs[r] \in Nat /\ regs[r] < Size
  BY <1>1, <1>2
<1>4. ByteSize \in Nat /\ 10 <= ByteSize
  BY ByteSizes DEF DemoArgs
<1>5. k \in Words /\ k \in Nat /\ k >= 1 /\ m \in Nat /\ m >= 1 /\ m <= 16
  BY <1>2 DEF DemoArgs
<1>6. TEXT \in Nat /\ TEXT % 2 = 0 /\ TEXT + 120 <= MemSize
  BY DEF TextFits
<1>7. DATA \in Nat /\ DATA + 16 <= MemSize
  BY DEF DataFits
<1> QED BY ONLY <1>1, <1>2, <1>3, <1>4, <1>5, <1>6, <1>7 DEF DemoSizes

\* What an instruction that writes a register leaves alone.
LEMMA DemoFrame ==
  ASSUME CInv, NEW r \in {T0, T2, T3, T4, T5, A0, A1, A2, A7}, NEW v, Writes(r, v)
  PROVE  /\ boot' = boot /\ state' = "RUNNING" /\ pc' = pc + 4
         /\ mem' = mem /\ out' = out /\ regs'[r] = v
         /\ \A q \in {T0, T2, T3, T4, T5, A0, A1, A2, A7} : q # r => regs'[q] = regs[q]
<1>1. regs \in [Registers -> Words]
  BY DEF CInv, CTypeOK
<1>2. {T0, T2, T3, T4, T5, A0, A1, A2, A7} \subseteq Registers
  BY ONLY InRange
<1>3. /\ boot' = boot /\ state' = "RUNNING" /\ pc' = pc + 4
      /\ mem' = mem /\ out' = out /\ regs' = [regs EXCEPT ![r] = v]
  BY DEF Writes, Advances
<1>4. r \in Registers
  BY ONLY <1>2, r \in {T0, T2, T3, T4, T5, A0, A1, A2, A7}
<1>5. regs'[r] = v
  BY ONLY <1>1, <1>3, <1>4
<1>6. ASSUME NEW q \in {T0, T2, T3, T4, T5, A0, A1, A2, A7}, q # r PROVE regs'[q] = regs[q]
  <2>1. q \in Registers
    BY <1>2
  <2> QED BY ONLY <1>1, <1>3, <1>4, <1>6, <2>1
<1> QED BY ONLY <1>3, <1>5, <1>6

\* The digits of the factorial.
LEMMA LeftIs ==
  ASSUME NEW k \in Nat
  PROVE  /\ Factorial[k] \in Nat /\ Left(k, 0) = Factorial[k]
         /\ \A c \in Nat : /\ Left(k, c) \in Nat /\ Left(k, c + 1) = Left(k, c) \div 10
                           /\ Left(k, c) % 10 \in 0 .. 9
<1> DEFINE f == Factorial[k]
<1>1. f \in Nat
  BY FactorialIs
<1> HIDE DEF f
<1>2. /\ Tens(f)[0] = f
      /\ \A c \in Nat : Tens(f)[c] \in Nat /\ Tens(f)[c + 1] = Tens(f)[c] \div 10
  BY <1>1, TensIs
<1>3. /\ Left(k, 0) = f
      /\ \A c \in Nat : Left(k, c) \in Nat /\ Left(k, c + 1) = Left(k, c) \div 10
  BY ONLY <1>2 DEF Left, f
<1>4. \A x \in Nat : x % 10 \in 0 .. 9
  OBVIOUS
<1>5. \A c \in Nat : Left(k, c) % 10 \in 0 .. 9
  BY ONLY <1>3, <1>4
<1> QED BY <1>1, <1>3, <1>5 DEF f

\* One turn of the first loop.
LEMMA OneFactor ==
  ASSUME NEW x \in Nat, NEW t \in Nat, t >= 1, NEW k \in Nat, x * Factorial[t] = Factorial[k]
  PROVE  x * t \in Nat /\ (x * t) * Factorial[t - 1] = Factorial[k] /\ x * t <= Factorial[k]
<1> DEFINE f == Factorial[t - 1]
           g == Factorial[k]
<1>1. t - 1 \in Nat /\ (t - 1) + 1 = t
  OBVIOUS
<1>2. f \in Nat /\ f >= 1 /\ Factorial[t] = t * f
  BY <1>1, FactorialIs
<1>3. x * (t * f) = g
  BY <1>2
<1> HIDE DEF f, g
<1>4. x * t \in Nat /\ (x * t) * f = x * (t * f)
  BY ONLY <1>2, x \in Nat, t \in Nat
<1> DEFINE p == x * t
<1>5. p \in Nat /\ p * f = g
  BY <1>3, <1>4
<1> HIDE DEF p
<1>6. p <= g
  BY ONLY <1>2, <1>5
<1> QED BY <1>5, <1>6 DEF f, g, p

\* mul, where the product fits a word.
LEMMA MulRuns ==
  ASSUME CInv, Step, NEW rd \in 1 .. 31, NEW rs1 \in 1 .. 31, NEW rs2 \in 1 .. 31,
         AtWord(R(0, rd, rs1, rs2)), regs[rs1] * regs[rs2] \in Words
  PROVE  Writes(rd, regs[rs1] * regs[rs2])
<1> DEFINE a == regs[rs1]
           b == regs[rs2]
<1>1. a \in Words /\ b \in Words
  <2>1. regs \in [Registers -> Words] /\ rs1 \in Registers /\ rs2 \in Registers
    BY RegisterNumbers DEF CInv, CTypeOK
  <2> QED BY <2>1
<1>2. Writes(rd, MulDiv(0, a, b))
  <2>1. 0 \in 0 .. 7
    OBVIOUS
  <2> QED BY ONLY CInv, Step, <2>1, rd \in 1 .. 31, rs1 \in 1 .. 31, rs2 \in 1 .. 31,
                  AtWord(R(0, rd, rs1, rs2)), MulDivRuns
<1>3. a * b \in Words
  OBVIOUS
<1> HIDE DEF a, b
<1>4. \A w \in Words : w \in Int /\ \E i \in Int : Signed(w) = w + i * Size
  <2> SUFFICES ASSUME NEW w \in Words PROVE w \in Int /\ \E i \in Int : Signed(w) = w + i * Size
    OBVIOUS
  <2>1. w \in Int /\ w + 0 * Size = w /\ w + (-1) * Size = w - Size
    BY WordSizes
  <2>2. Signed(w) = w \/ Signed(w) = w - Size
    BY DEF Signed
  <2>3. 0 \in Int /\ -1 \in Int
    OBVIOUS
  <2> QED BY ONLY <2>1, <2>2, <2>3
<1>5. PICK i \in Int : Signed(a) = a + i * Size
  BY <1>1, <1>4
<1>6. PICK l \in Int : Signed(b) = b + l * Size
  BY <1>1, <1>4
<1>7. Wrap(Signed(a) * Signed(b)) = a * b
  <2> DEFINE p == a * b
             m == a * l + i * b + i * l * Size
  <2>1. a \in Int /\ b \in Int /\ Size \in Int /\ i \in Int /\ l \in Int
    BY <1>1, <1>4, WordSizes
  <2>2. p \in Int /\ m \in Int
    BY ONLY <2>1
  <2>3. (a + i * Size) * (b + l * Size) = p + m * Size
    BY ONLY <2>1
  <2>4. p \in Words
    BY <1>3
  <2> HIDE DEF p, m
  <2>5. Wrap(p + m * Size) = p
    BY ONLY <2>2, <2>4, WrapShift, WrapWord
  <2> QED BY ONLY <1>5, <1>6, <2>3, <2>5 DEF p
<1> QED BY <1>2, <1>7 DEF MulDiv, a, b

\* A step of the first part.
LEMMA BeginStep ==
  ASSUME CInv, Step, XLEN <= 32, TextFits(30), DataFits(16), NEW k, NEW m, DemoArgs(k, m),
         DemoText(boot.code, k), NEW j \in 0 .. 3, pc = TEXT + 4 * j, Begin(j, k)
  PROVE  pc' = TEXT + 4 * (j + 1) /\ Begin(j + 1, k)' /\ state' = "RUNNING" /\ boot' = boot
<1>a. DemoSizes(k, m)
  BY ONLY CInv, TextFits(30), DataFits(16), DemoArgs(k, m), DemoNumbers
<1>0. /\ regs \in [Registers -> Words] /\ regs[0] = 0 /\ Words = 0 .. Size - 1
      /\ \A r \in Registers : regs[r] \in Nat /\ regs[r] < Size
      /\ Size \in Nat /\ Size >= 4096 /\ MemSize \in Nat /\ MemSize < Size
      /\ TEXT \in Nat /\ TEXT % 2 = 0 /\ TEXT + 120 <= MemSize
      /\ DATA \in Nat /\ DATA + 16 <= MemSize
      /\ k \in Nat /\ k >= 1 /\ m \in Nat /\ m >= 1 /\ m <= 16
      /\ ByteSize \in Nat /\ 10 <= ByteSize
      /\ 0 \in Words /\ 1 \in Words /\ 10 \in Words /\ 64 \in Words /\ 93 \in Words
      /\ DATA + 16 \in Words /\ k \in Words
  BY <1>a DEF DemoSizes
<1>1. ASSUME NEW w, Holds(boot.code, TEXT + 4 * j, w) PROVE AtWord(w)
  BY ONLY <1>0, <1>1, j \in 0 .. 3, pc = TEXT + 4 * j DEF AtWord
<1>2. {T0, T2, T3, T4, T5, A0, A1, A2, A7} \subseteq 1 .. 31 /\ {T0, T2, T3, T4, T5, A0, A1, A2, A7} \subseteq Registers
  BY ONLY InRange
<1>3. ASSUME NEW r \in {T0, T2, T3, T4, T5, A0, A1, A2, A7}, NEW v, Writes(r, v)
      PROVE  /\ boot' = boot /\ state' = "RUNNING" /\ pc' = pc + 4
             /\ mem' = mem /\ out' = out /\ regs'[r] = v
             /\ \A q \in {T0, T2, T3, T4, T5, A0, A1, A2, A7} : q # r => regs'[q] = regs[q]
  BY ONLY CInv, <1>3, DemoFrame
<1>5. CASE j = 0
  <2>1. AtWord(Lui(A0, 1))
    <3>1. Holds(boot.code, TEXT, Lui(A0, 1)) /\ TEXT + 4 * j = TEXT
      BY <1>0, <1>5 DEF DemoText
    <3> QED BY <1>1, <3>1
  <2>2. out = <<>>
    BY <1>0, <1>5 DEF Begin
  <2>3. PICK v : v = Wrap(Immediate(Lui(A0, 1))) /\ Writes(A0, v)
    <3>1. A0 \in 1 .. 31 /\ 1 \in Words
      BY ONLY <1>0, <1>2
    <3>2. Writes(A0, Wrap(Immediate(Lui(A0, 1))))
      BY ONLY CInv, Step, <2>1, <3>1, LuiRuns
    <3> QED BY <3>2
  <2>4. /\ mem' = mem /\ out' = out /\ pc' = pc + 4 /\ state' = "RUNNING" /\ boot' = boot
        /\ regs'[A0] = v
    BY ONLY <1>3, <2>3, Named
  <2>5. Begin(1, k)'
    BY ONLY <1>0, <2>2, <2>3, <2>4 DEF Begin
  <2>6. pc' = TEXT + 4 * 1 /\ 0 + 1 = 1
    BY ONLY <1>0, <1>5, <2>4, pc = TEXT + 4 * j
  <2> QED BY <1>5, <2>4, <2>5, <2>6
<1>6. CASE j = 1
  <2>1. AtWord(Addi(A0, 1))
    <3>1. Holds(boot.code, TEXT + 4, Addi(A0, 1)) /\ TEXT + 4 * j = TEXT + 4
      BY <1>0, <1>6 DEF DemoText
    <3> QED BY <1>1, <3>1
  <2>2. out = <<>> /\ regs[A0] = Wrap(Immediate(Lui(A0, 1)))
    BY <1>0, <1>6 DEF Begin
  <2>3. PICK v : v = 1 /\ Writes(A0, v)
    <3>1. A0 \in 1 .. 31 /\ 1 \in Words
      BY ONLY <1>0, <1>2
    <3>2. regs[A0] = Wrap(Immediate(Lui(A0, 1)))
      BY ONLY <2>2
    <3>3. Writes(A0, 1)
      BY ONLY CInv, Step, XLEN <= 32, <2>1, <3>1, <3>2, AddiRuns
    <3> QED BY <3>3
  <2>4. /\ mem' = mem /\ out' = out /\ pc' = pc + 4 /\ state' = "RUNNING" /\ boot' = boot
        /\ regs'[A0] = v
    BY ONLY <1>3, <2>3, Named
  <2>5. Begin(2, k)'
    BY ONLY <1>0, <2>2, <2>3, <2>4 DEF Begin
  <2>6. pc' = TEXT + 4 * 2 /\ 1 + 1 = 2
    BY ONLY <1>0, <1>6, <2>4, pc = TEXT + 4 * j
  <2> QED BY <1>6, <2>4, <2>5, <2>6
<1>7. CASE j = 2
  <2>1. AtWord(Lui(T0, k))
    <3>1. Holds(boot.code, TEXT + 8, Lui(T0, k)) /\ TEXT + 4 * j = TEXT + 8
      BY <1>0, <1>7 DEF DemoText
    <3> QED BY <1>1, <3>1
  <2>2. out = <<>> /\ regs[A0] = 1
    BY <1>0, <1>7 DEF Begin
  <2>3. PICK v : v = Wrap(Immediate(Lui(T0, k))) /\ Writes(T0, v)
    <3>1. T0 \in 1 .. 31 /\ k \in Words
      BY ONLY <1>0, <1>2
    <3>2. Writes(T0, Wrap(Immediate(Lui(T0, k))))
      BY ONLY CInv, Step, <2>1, <3>1, LuiRuns
    <3> QED BY <3>2
  <2>4. /\ mem' = mem /\ out' = out /\ pc' = pc + 4 /\ state' = "RUNNING" /\ boot' = boot
        /\ regs'[T0] = v /\ regs'[A0] = regs[A0]
    BY ONLY <1>3, <2>3, Named
  <2>5. Begin(3, k)'
    BY ONLY <1>0, <2>2, <2>3, <2>4 DEF Begin
  <2>6. pc' = TEXT + 4 * 3 /\ 2 + 1 = 3
    BY ONLY <1>0, <1>7, <2>4, pc = TEXT + 4 * j
  <2> QED BY <1>7, <2>4, <2>5, <2>6
<1>8. CASE j = 3
  <2>1. AtWord(Addi(T0, k))
    <3>1. Holds(boot.code, TEXT + 12, Addi(T0, k)) /\ TEXT + 4 * j = TEXT + 12
      BY <1>0, <1>8 DEF DemoText
    <3> QED BY <1>1, <3>1
  <2>2. out = <<>> /\ regs[A0] = 1 /\ regs[T0] = Wrap(Immediate(Lui(T0, k)))
    BY <1>0, <1>8 DEF Begin
  <2>3. PICK v : v = k /\ Writes(T0, v)
    <3>1. T0 \in 1 .. 31 /\ k \in Words
      BY ONLY <1>0, <1>2
    <3>2. regs[T0] = Wrap(Immediate(Lui(T0, k)))
      BY ONLY <2>2
    <3>3. Writes(T0, k)
      BY ONLY CInv, Step, XLEN <= 32, <2>1, <3>1, <3>2, AddiRuns
    <3> QED BY <3>3
  <2>4. /\ mem' = mem /\ out' = out /\ pc' = pc + 4 /\ state' = "RUNNING" /\ boot' = boot
        /\ regs'[T0] = v /\ regs'[A0] = regs[A0]
    BY ONLY <1>3, <2>3, Named
  <2>5. Begin(4, k)'
    BY ONLY <1>0, <2>2, <2>3, <2>4 DEF Begin
  <2>6. pc' = TEXT + 4 * 4 /\ 3 + 1 = 4
    BY ONLY <1>0, <1>8, <2>4, pc = TEXT + 4 * j
  <2> QED BY <1>8, <2>4, <2>5, <2>6
<1> QED BY <1>5, <1>6, <1>7, <1>8

\* A step of the loop that multiplies.
LEMMA MultiplyStep ==
  ASSUME CInv, Step, XLEN <= 32, TextFits(30), DataFits(16), NEW k, NEW m, DemoArgs(k, m),
         DemoText(boot.code, k), NEW j \in 4 .. 6, pc = TEXT + 4 * j, Multiply(j, k)
  PROVE  /\ state' = "RUNNING" /\ boot' = boot
         /\ \/ pc' = TEXT + 4 * (j + 1) /\ Multiply(j + 1, k)'
            \/ j = 6 /\ pc' = TEXT + 4 * 4 /\ Multiply(4, k)'
<1>a. DemoSizes(k, m)
  BY ONLY CInv, TextFits(30), DataFits(16), DemoArgs(k, m), DemoNumbers
<1>0. /\ regs \in [Registers -> Words] /\ regs[0] = 0 /\ Words = 0 .. Size - 1
      /\ \A r \in Registers : regs[r] \in Nat /\ regs[r] < Size
      /\ Size \in Nat /\ Size >= 4096 /\ MemSize \in Nat /\ MemSize < Size
      /\ TEXT \in Nat /\ TEXT % 2 = 0 /\ TEXT + 120 <= MemSize
      /\ DATA \in Nat /\ DATA + 16 <= MemSize
      /\ k \in Nat /\ k >= 1 /\ m \in Nat /\ m >= 1 /\ m <= 16
      /\ ByteSize \in Nat /\ 10 <= ByteSize
      /\ 0 \in Words /\ 1 \in Words /\ 10 \in Words /\ 64 \in Words /\ 93 \in Words
      /\ DATA + 16 \in Words /\ k \in Words
  BY <1>a DEF DemoSizes
<1>1. ASSUME NEW w, Holds(boot.code, TEXT + 4 * j, w) PROVE AtWord(w)
  BY ONLY <1>0, <1>1, j \in 4 .. 6, pc = TEXT + 4 * j DEF AtWord
<1>2. {T0, T2, T3, T4, T5, A0, A1, A2, A7} \subseteq 1 .. 31 /\ {T0, T2, T3, T4, T5, A0, A1, A2, A7} \subseteq Registers
  BY ONLY InRange
<1>3. ASSUME NEW r \in {T0, T2, T3, T4, T5, A0, A1, A2, A7}, NEW v, Writes(r, v)
      PROVE  /\ boot' = boot /\ state' = "RUNNING" /\ pc' = pc + 4
             /\ mem' = mem /\ out' = out /\ regs'[r] = v
             /\ \A q \in {T0, T2, T3, T4, T5, A0, A1, A2, A7} : q # r => regs'[q] = regs[q]
  BY ONLY CInv, <1>3, DemoFrame
<1>5. PICK t : t = regs[T0]
  OBVIOUS
<1>6. PICK x : x = regs[A0]
  OBVIOUS
<1>7. t \in Nat /\ x \in Nat
  BY <1>0, <1>2, <1>5, <1>6
<1>8. CASE j = 4
  <2>1. AtWord(R(0, A0, A0, T0))
    <3>1. Holds(boot.code, TEXT + 16, R(0, A0, A0, T0)) /\ TEXT + 4 * j = TEXT + 16
      BY <1>0, <1>8 DEF DemoText
    <3> QED BY <1>1, <3>1
  <2>2. out = <<>> /\ t \in 1 .. k /\ x * Factorial[t] = Factorial[k] /\ t >= 1
    BY <1>0, <1>8, <1>5, <1>6 DEF Multiply
  <2>3. PICK v : v * Factorial[t - 1] = Factorial[k] /\ Writes(A0, v)
    <3>1. x * t \in Nat /\ (x * t) * Factorial[t - 1] = Factorial[k] /\ x * t <= Factorial[k]
      BY ONLY <1>0, <1>7, <2>2, OneFactor
    <3>2. Factorial[k] \in Words
      BY DEF DemoArgs
    <3>3. regs[A0] * regs[T0] = x * t
      BY <1>5, <1>6
    <3> DEFINE p == x * t
    <3>4. p \in Nat /\ p <= Factorial[k]
      BY <3>1
    <3>5. p * Factorial[t - 1] = Factorial[k]
      BY <3>1
    <3> HIDE DEF p
    <3>6. p \in Words
      BY ONLY <1>0, <3>2, <3>4
    <3>7. Writes(A0, regs[A0] * regs[T0])
      <4>1. regs[A0] * regs[T0] \in Words
        BY <3>3, <3>6 DEF p
      <4> QED BY ONLY CInv, Step, <1>2, <2>1, <4>1, MulRuns
    <3>8. Writes(A0, p)
      BY <3>3, <3>7 DEF p
    <3> QED BY <3>5, <3>8
  <2>4. /\ mem' = mem /\ out' = out /\ pc' = pc + 4 /\ state' = "RUNNING" /\ boot' = boot
        /\ regs'[A0] = v /\ regs'[T0] = regs[T0]
    BY ONLY <1>3, <2>3, Named
  <2>5. Multiply(5, k)'
    BY ONLY <1>5, <2>2, <2>3, <2>4 DEF Multiply
  <2>6. pc' = TEXT + 4 * 5 /\ 4 + 1 = 5
    BY ONLY <1>0, <1>8, <2>4, pc = TEXT + 4 * j
  <2> QED BY <1>8, <2>4, <2>5, <2>6
<1>9. CASE j = 5
  <2>1. AtWord(enc_i(-1, T0, 0, T0, OP_ALUI))
    <3>1. Holds(boot.code, TEXT + 20, enc_i(-1, T0, 0, T0, OP_ALUI)) /\ TEXT + 4 * j = TEXT + 20
      BY <1>0, <1>9 DEF DemoText
    <3> QED BY <1>1, <3>1
  <2>2. out = <<>> /\ t \in 1 .. k /\ x * Factorial[t - 1] = Factorial[k] /\ t >= 1 /\ regs[T0] = t
    BY <1>0, <1>9, <1>5, <1>6 DEF Multiply
  <2>3. PICK v : v = t - 1 /\ Writes(T0, v)
    <3>1. /\ -1 \in Int /\ -2048 <= -1 /\ -1 < 2048
          /\ T0 \in Registers /\ T0 \in 1 .. 31
      BY ONLY <1>2
    <3>2. regs[T0] + -1 \in Words /\ regs[T0] + -1 = t - 1
      BY ONLY <1>0, <2>2
    <3>3. Writes(T0, regs[T0] + -1)
      BY ONLY CInv, Step, <2>1, <3>1, <3>2, BumpRuns
    <3> QED BY <3>2, <3>3
  <2>4. /\ mem' = mem /\ out' = out /\ pc' = pc + 4 /\ state' = "RUNNING" /\ boot' = boot
        /\ regs'[T0] = v /\ regs'[A0] = regs[A0]
    BY ONLY <1>3, <2>3, Named
  <2>5. Multiply(6, k)'
    <3>1. v \in 0 .. k - 1
      BY ONLY <1>0, <1>7, <2>2, <2>3
    <3>2. regs'[A0] * Factorial[v] = Factorial[k]
      BY ONLY <1>6, <2>2, <2>3, <2>4
    <3> QED BY ONLY <2>2, <2>4, <3>1, <3>2 DEF Multiply
  <2>6. pc' = TEXT + 4 * 6 /\ 5 + 1 = 6
    BY ONLY <1>0, <1>9, <2>4, pc = TEXT + 4 * j
  <2> QED BY <1>9, <2>4, <2>5, <2>6
<1>10. CASE j = 6
  <2>1. AtWord(enc_b(-8, 0, T0, 1, OP_BRANCH))
    <3>1. Holds(boot.code, TEXT + 24, enc_b(-8, 0, T0, 1, OP_BRANCH)) /\ TEXT + 4 * j = TEXT + 24
      BY <1>0, <1>10 DEF DemoText
    <3> QED BY <1>1, <3>1
  <2>2. out = <<>> /\ t \in 0 .. k - 1 /\ x * Factorial[t] = Factorial[k]
    BY <1>0, <1>5, <1>6, <1>10 DEF Multiply
  <2>3. /\ state' = "RUNNING" /\ boot' = boot
        /\ pc' = IF taken(1, regs[T0], regs[0]) THEN pc + -8 ELSE pc + 4
        /\ regs' = regs /\ mem' = mem /\ out' = out
    <3>1. /\ -8 \in Int /\ -4096 <= -8 /\ -8 < 4096 /\ (-8) % 2 = 0 /\ 1 \in BranchKinds
          /\ T0 \in Registers /\ 0 \in Registers
      BY ONLY <1>2 DEF BranchKinds, Registers
    <3>2. pc + -8 \in Words
      BY ONLY <1>0, <1>10, pc = TEXT + 4 * j
    <3> QED BY ONLY CInv, Step, <2>1, <3>1, <3>2, BranchRuns
  <2>4. taken(1, regs[T0], regs[0]) <=> t # 0
    BY <1>0, <1>5 DEF taken
  <2>5. regs'[T0] = t /\ regs'[A0] = x
    BY <1>5, <1>6, <2>3
  <2>6. CASE t = 0
    <3>1. pc' = TEXT + 4 * 7 /\ 6 + 1 = 7
      BY <1>0, <1>10, <2>3, <2>4, <2>6
    <3>2. x = Factorial[k]
      <4>1. Factorial[t] = 1 /\ x * 1 = x
        BY <1>7, <2>6, FactorialIs
      <4> QED BY <2>2, <4>1
    <3>3. Multiply(7, k)'
      BY ONLY <2>2, <2>3, <2>5, <3>2 DEF Multiply
    <3> QED BY <1>10, <2>3, <3>1, <3>3
  <2>7. CASE t # 0
    <3>1. pc' = TEXT + 4 * 4
      BY <1>0, <1>10, <2>3, <2>4, <2>7
    <3>2. t \in 1 .. k
      BY <1>0, <2>2, <2>7
    <3>3. Multiply(4, k)'
      BY ONLY <2>2, <2>3, <2>5, <3>2 DEF Multiply
    <3> QED BY <1>10, <2>3, <3>1, <3>3
  <2> QED BY <2>6, <2>7
<1> QED BY <1>8, <1>9, <1>10

\* A step of the part between the loops.
LEMMA ArrangeStep ==
  ASSUME CInv, Step, XLEN <= 32, TextFits(30), DataFits(16), NEW k, NEW m, DemoArgs(k, m),
         DemoText(boot.code, k), NEW j \in 7 .. 11, pc = TEXT + 4 * j, Arrange(j, k)
  PROVE  pc' = TEXT + 4 * (j + 1) /\ Arrange(j + 1, k)' /\ state' = "RUNNING" /\ boot' = boot
<1>a. DemoSizes(k, m)
  BY ONLY CInv, TextFits(30), DataFits(16), DemoArgs(k, m), DemoNumbers
<1>0. /\ regs \in [Registers -> Words] /\ regs[0] = 0 /\ Words = 0 .. Size - 1
      /\ \A r \in Registers : regs[r] \in Nat /\ regs[r] < Size
      /\ Size \in Nat /\ Size >= 4096 /\ MemSize \in Nat /\ MemSize < Size
      /\ TEXT \in Nat /\ TEXT % 2 = 0 /\ TEXT + 120 <= MemSize
      /\ DATA \in Nat /\ DATA + 16 <= MemSize
      /\ k \in Nat /\ k >= 1 /\ m \in Nat /\ m >= 1 /\ m <= 16
      /\ ByteSize \in Nat /\ 10 <= ByteSize
      /\ 0 \in Words /\ 1 \in Words /\ 10 \in Words /\ 64 \in Words /\ 93 \in Words
      /\ DATA + 16 \in Words /\ k \in Words
  BY <1>a DEF DemoSizes
<1>1. ASSUME NEW w, Holds(boot.code, TEXT + 4 * j, w) PROVE AtWord(w)
  BY ONLY <1>0, <1>1, j \in 7 .. 11, pc = TEXT + 4 * j DEF AtWord
<1>2. {T0, T2, T3, T4, T5, A0, A1, A2, A7} \subseteq 1 .. 31 /\ {T0, T2, T3, T4, T5, A0, A1, A2, A7} \subseteq Registers
  BY ONLY InRange
<1>3. ASSUME NEW r \in {T0, T2, T3, T4, T5, A0, A1, A2, A7}, NEW v, Writes(r, v)
      PROVE  /\ boot' = boot /\ state' = "RUNNING" /\ pc' = pc + 4
             /\ mem' = mem /\ out' = out /\ regs'[r] = v
             /\ \A q \in {T0, T2, T3, T4, T5, A0, A1, A2, A7} : q # r => regs'[q] = regs[q]
  BY ONLY CInv, <1>3, DemoFrame
<1>5. CASE j = 7
  <2>1. AtWord(Lui(T2, DATA + 16))
    <3>1. Holds(boot.code, TEXT + 28, Lui(T2, DATA + 16)) /\ TEXT + 4 * j = TEXT + 28
      BY <1>0, <1>5 DEF DemoText
    <3> QED BY <1>1, <3>1
  <2>2. out = <<>> /\ regs[A0] = Factorial[k]
    BY <1>0, <1>5 DEF Arrange
  <2>3. PICK v : v = Wrap(Immediate(Lui(T2, DATA + 16))) /\ Writes(T2, v)
    <3>1. T2 \in 1 .. 31 /\ DATA + 16 \in Words
      BY ONLY <1>0, <1>2
    <3>2. Writes(T2, Wrap(Immediate(Lui(T2, DATA + 16))))
      BY ONLY CInv, Step, <2>1, <3>1, LuiRuns
    <3> QED BY <3>2
  <2>4. /\ mem' = mem /\ out' = out /\ pc' = pc + 4 /\ state' = "RUNNING" /\ boot' = boot
        /\ regs'[T2] = v /\ regs'[A0] = regs[A0]
    BY ONLY <1>3, <2>3, Named
  <2>5. Arrange(8, k)'
    BY ONLY <1>0, <2>2, <2>3, <2>4 DEF Arrange
  <2>6. pc' = TEXT + 4 * 8 /\ 7 + 1 = 8
    BY ONLY <1>0, <1>5, <2>4, pc = TEXT + 4 * j
  <2> QED BY <1>5, <2>4, <2>5, <2>6
<1>6. CASE j = 8
  <2>1. AtWord(Addi(T2, DATA + 16))
    <3>1. Holds(boot.code, TEXT + 32, Addi(T2, DATA + 16)) /\ TEXT + 4 * j = TEXT + 32
      BY <1>0, <1>6 DEF DemoText
    <3> QED BY <1>1, <3>1
  <2>2. out = <<>> /\ regs[A0] = Factorial[k] /\ regs[T2] = Wrap(Immediate(Lui(T2, DATA + 16)))
    BY <1>0, <1>6 DEF Arrange
  <2>3. PICK v : v = DATA + 16 /\ Writes(T2, v)
    <3>1. T2 \in 1 .. 31 /\ DATA + 16 \in Words
      BY ONLY <1>0, <1>2
    <3>2. regs[T2] = Wrap(Immediate(Lui(T2, DATA + 16)))
      BY ONLY <2>2
    <3>3. Writes(T2, DATA + 16)
      BY ONLY CInv, Step, XLEN <= 32, <2>1, <3>1, <3>2, AddiRuns
    <3> QED BY <3>3
  <2>4. /\ mem' = mem /\ out' = out /\ pc' = pc + 4 /\ state' = "RUNNING" /\ boot' = boot
        /\ regs'[T2] = v /\ regs'[A0] = regs[A0]
    BY ONLY <1>3, <2>3, Named
  <2>5. Arrange(9, k)'
    BY ONLY <1>0, <2>2, <2>3, <2>4 DEF Arrange
  <2>6. pc' = TEXT + 4 * 9 /\ 8 + 1 = 9
    BY ONLY <1>0, <1>6, <2>4, pc = TEXT + 4 * j
  <2> QED BY <1>6, <2>4, <2>5, <2>6
<1>7. CASE j = 9
  <2>1. AtWord(enc_i(0, T2, 0, T3, OP_ALUI))
    <3>1. Holds(boot.code, TEXT + 36, enc_i(0, T2, 0, T3, OP_ALUI)) /\ TEXT + 4 * j = TEXT + 36
      BY <1>0, <1>7 DEF DemoText
    <3> QED BY <1>1, <3>1
  <2>2. out = <<>> /\ regs[A0] = Factorial[k] /\ regs[T2] = DATA + 16
    BY <1>0, <1>7 DEF Arrange
  <2>3. PICK v : v = DATA + 16 /\ Writes(T3, v)
    <3>1. /\ 0 \in Int /\ -2048 <= 0 /\ 0 < 2048
          /\ T2 \in Registers /\ T3 \in 1 .. 31
      BY ONLY <1>2
    <3>2. regs[T2] + 0 \in Words /\ regs[T2] + 0 = DATA + 16
      BY ONLY <1>0, <2>2
    <3>3. Writes(T3, regs[T2] + 0)
      BY ONLY CInv, Step, <2>1, <3>1, <3>2, BumpRuns
    <3> QED BY <3>2, <3>3
  <2>4. /\ mem' = mem /\ out' = out /\ pc' = pc + 4 /\ state' = "RUNNING" /\ boot' = boot
        /\ regs'[T3] = v /\ regs'[A0] = regs[A0] /\ regs'[T2] = regs[T2]
    BY ONLY <1>3, <2>3, Named
  <2>5. Arrange(10, k)'
    BY ONLY <1>0, <2>2, <2>3, <2>4 DEF Arrange
  <2>6. pc' = TEXT + 4 * 10 /\ 9 + 1 = 10
    BY ONLY <1>0, <1>7, <2>4, pc = TEXT + 4 * j
  <2> QED BY <1>7, <2>4, <2>5, <2>6
<1>8. CASE j = 10
  <2>1. AtWord(Lui(T4, 10))
    <3>1. Holds(boot.code, TEXT + 40, Lui(T4, 10)) /\ TEXT + 4 * j = TEXT + 40
      BY <1>0, <1>8 DEF DemoText
    <3> QED BY <1>1, <3>1
  <2>2. out = <<>> /\ regs[A0] = Factorial[k] /\ regs[T2] = DATA + 16 /\ regs[T3] = DATA + 16
    BY <1>0, <1>8 DEF Arrange
  <2>3. PICK v : v = Wrap(Immediate(Lui(T4, 10))) /\ Writes(T4, v)
    <3>1. T4 \in 1 .. 31 /\ 10 \in Words
      BY ONLY <1>0, <1>2
    <3>2. Writes(T4, Wrap(Immediate(Lui(T4, 10))))
      BY ONLY CInv, Step, <2>1, <3>1, LuiRuns
    <3> QED BY <3>2
  <2>4. /\ mem' = mem /\ out' = out /\ pc' = pc + 4 /\ state' = "RUNNING" /\ boot' = boot
        /\ regs'[T4] = v /\ regs'[A0] = regs[A0] /\ regs'[T2] = regs[T2] /\ regs'[T3] = regs[T3]
    BY ONLY <1>3, <2>3, Named
  <2>5. Arrange(11, k)'
    BY ONLY <1>0, <2>2, <2>3, <2>4 DEF Arrange
  <2>6. pc' = TEXT + 4 * 11 /\ 10 + 1 = 11
    BY ONLY <1>0, <1>8, <2>4, pc = TEXT + 4 * j
  <2> QED BY <1>8, <2>4, <2>5, <2>6
<1>9. CASE j = 11
  <2>1. AtWord(Addi(T4, 10))
    <3>1. Holds(boot.code, TEXT + 44, Addi(T4, 10)) /\ TEXT + 4 * j = TEXT + 44
      BY <1>0, <1>9 DEF DemoText
    <3> QED BY <1>1, <3>1
  <2>2. out = <<>> /\ regs[A0] = Factorial[k] /\ regs[T2] = DATA + 16 /\ regs[T3] = DATA + 16 /\ regs[T4] = Wrap(Immediate(Lui(T4, 10)))
    BY <1>0, <1>9 DEF Arrange
  <2>3. PICK v : v = 10 /\ Writes(T4, v)
    <3>1. T4 \in 1 .. 31 /\ 10 \in Words
      BY ONLY <1>0, <1>2
    <3>2. regs[T4] = Wrap(Immediate(Lui(T4, 10)))
      BY ONLY <2>2
    <3>3. Writes(T4, 10)
      BY ONLY CInv, Step, XLEN <= 32, <2>1, <3>1, <3>2, AddiRuns
    <3> QED BY <3>3
  <2>4. /\ mem' = mem /\ out' = out /\ pc' = pc + 4 /\ state' = "RUNNING" /\ boot' = boot
        /\ regs'[T4] = v /\ regs'[A0] = regs[A0] /\ regs'[T2] = regs[T2] /\ regs'[T3] = regs[T3]
    BY ONLY <1>3, <2>3, Named
  <2>5. Arrange(12, k)'
    BY ONLY <1>0, <2>2, <2>3, <2>4 DEF Arrange
  <2>6. pc' = TEXT + 4 * 12 /\ 11 + 1 = 12
    BY ONLY <1>0, <1>9, <2>4, pc = TEXT + 4 * j
  <2> QED BY <1>9, <2>4, <2>5, <2>6
<1> QED BY <1>5, <1>6, <1>7, <1>8, <1>9

\* A step of the loop that takes the digits.
LEMMA TakeStep ==
  ASSUME CInv, Step, XLEN <= 32, TextFits(30), DataFits(16), NEW k, NEW m, DemoArgs(k, m),
         DemoText(boot.code, k), NEW j \in 12 .. 17, pc = TEXT + 4 * j, Take(j, k, m)
  PROVE  /\ state' = "RUNNING" /\ boot' = boot
         /\ \/ pc' = TEXT + 4 * (j + 1) /\ Take(j + 1, k, m)'
            \/ j = 17 /\ pc' = TEXT + 4 * 12 /\ Take(12, k, m)'
<1>a. DemoSizes(k, m)
  BY ONLY CInv, TextFits(30), DataFits(16), DemoArgs(k, m), DemoNumbers
<1>0. /\ regs \in [Registers -> Words] /\ regs[0] = 0 /\ Words = 0 .. Size - 1
      /\ \A r \in Registers : regs[r] \in Nat /\ regs[r] < Size
      /\ Size \in Nat /\ Size >= 4096 /\ MemSize \in Nat /\ MemSize < Size
      /\ TEXT \in Nat /\ TEXT % 2 = 0 /\ TEXT + 120 <= MemSize
      /\ DATA \in Nat /\ DATA + 16 <= MemSize
      /\ k \in Nat /\ k >= 1 /\ m \in Nat /\ m >= 1 /\ m <= 16
      /\ ByteSize \in Nat /\ 10 <= ByteSize
      /\ 0 \in Words /\ 1 \in Words /\ 10 \in Words /\ 64 \in Words /\ 93 \in Words
      /\ DATA + 16 \in Words /\ k \in Words
  BY <1>a DEF DemoSizes
<1>1. ASSUME NEW w, Holds(boot.code, TEXT + 4 * j, w) PROVE AtWord(w)
  BY ONLY <1>0, <1>1, j \in 12 .. 17, pc = TEXT + 4 * j DEF AtWord
<1>2. {T0, T2, T3, T4, T5, A0, A1, A2, A7} \subseteq 1 .. 31 /\ {T0, T2, T3, T4, T5, A0, A1, A2, A7} \subseteq Registers
  BY ONLY InRange
<1>3. ASSUME NEW r \in {T0, T2, T3, T4, T5, A0, A1, A2, A7}, NEW v, Writes(r, v)
      PROVE  /\ boot' = boot /\ state' = "RUNNING" /\ pc' = pc + 4
             /\ mem' = mem /\ out' = out /\ regs'[r] = v
             /\ \A q \in {T0, T2, T3, T4, T5, A0, A1, A2, A7} : q # r => regs'[q] = regs[q]
  BY ONLY CInv, <1>3, DemoFrame
<1>b. ASSUME NEW c, Digits(k, c), mem' = mem PROVE Digits(k, c)'
  BY <1>b DEF Digits, Byte
<1>d. PICK i : i = (DATA + 16) - regs[T3]
  OBVIOUS
<1>e. i \in Int /\ regs[T3] = (DATA + 16) - i
  <2>1. regs[T3] \in Nat
    BY <1>0, <1>2
  <2> QED BY ONLY <1>0, <1>d, <2>1
<1>f. \A c \in Nat : /\ Left(k, c) \in Nat /\ Left(k, c + 1) = Left(k, c) \div 10
                     /\ Left(k, c) % 10 \in 0 .. 9
  <2>1. k \in Nat
    BY <1>0
  <2> QED BY ONLY <2>1, LeftIs
<1>5. CASE j = 12
  <2>1. AtWord(R(7, T5, A0, T4))
    <3>1. Holds(boot.code, TEXT + 48, R(7, T5, A0, T4)) /\ TEXT + 4 * j = TEXT + 48
      BY <1>0, <1>5 DEF DemoText
    <3> QED BY <1>1, <3>1
  <2>2. /\ out = <<>> /\ regs[T2] = DATA + 16 /\ regs[T4] = 10
        /\ i \in 0 .. m - 1 /\ i \in Nat /\ Digits(k, i) /\ regs[A0] = Left(k, i)
    BY <1>0, <1>d, <1>e, <1>5 DEF Take
  <2>3. PICK v : v = (Left(k, i) % 10) /\ Writes(T5, v)
    <3>1. 7 \in 0 .. 7 /\ T5 \in 1 .. 31 /\ A0 \in 1 .. 31 /\ T4 \in 1 .. 31
      BY ONLY <1>2
    <3>2. Writes(T5, MulDiv(7, regs[A0], regs[T4]))
      BY ONLY CInv, Step, <2>1, <3>1, MulDivRuns
    <3>3. Left(k, i) \in Nat
      BY ONLY <1>f, <2>2
    <3>4. MulDiv(7, regs[A0], regs[T4]) = (Left(k, i) % 10)
      BY ONLY <2>2, <3>3 DEF MulDiv, rv_remu
    <3> QED BY ONLY <3>2, <3>4
  <2>4. /\ mem' = mem /\ out' = out /\ pc' = pc + 4 /\ state' = "RUNNING" /\ boot' = boot
        /\ regs'[T5] = v /\ regs'[A0] = regs[A0] /\ regs'[T2] = regs[T2] /\ regs'[T3] = regs[T3] /\ regs'[T4] = regs[T4]
    BY ONLY <1>3, <2>3, Named
  <2>5. Take(13, k, m)'
    <3>1. (DATA + 16) - regs'[T3] = i /\ Digits(k, i)'
      BY ONLY <1>b, <1>d, <2>2, <2>4
    <3> QED BY ONLY <2>2, <2>3, <2>4, <3>1 DEF Take
  <2>6. pc' = TEXT + 4 * 13 /\ 12 + 1 = 13
    BY ONLY <1>0, <1>5, <2>4, pc = TEXT + 4 * j
  <2> QED BY <1>5, <2>4, <2>5, <2>6
<1>6. CASE j = 13
  <2>1. AtWord(R(5, A0, A0, T4))
    <3>1. Holds(boot.code, TEXT + 52, R(5, A0, A0, T4)) /\ TEXT + 4 * j = TEXT + 52
      BY <1>0, <1>6 DEF DemoText
    <3> QED BY <1>1, <3>1
  <2>2. /\ out = <<>> /\ regs[T2] = DATA + 16 /\ regs[T4] = 10
        /\ i \in 0 .. m - 1 /\ i \in Nat /\ Digits(k, i) /\ regs[A0] = Left(k, i) /\ regs[T5] = (Left(k, i) % 10)
    BY <1>0, <1>d, <1>e, <1>6 DEF Take
  <2>3. PICK v : v = Left(k, i) \div 10 /\ Writes(A0, v)
    <3>1. 5 \in 0 .. 7 /\ A0 \in 1 .. 31 /\ A0 \in 1 .. 31 /\ T4 \in 1 .. 31
      BY ONLY <1>2
    <3>2. Writes(A0, MulDiv(5, regs[A0], regs[T4]))
      BY ONLY CInv, Step, <2>1, <3>1, MulDivRuns
    <3>3. Left(k, i) \in Nat
      BY ONLY <1>f, <2>2
    <3>4. MulDiv(5, regs[A0], regs[T4]) = Left(k, i) \div 10
      BY ONLY <2>2, <3>3 DEF MulDiv, rv_divu
    <3> QED BY ONLY <3>2, <3>4
  <2>4. /\ mem' = mem /\ out' = out /\ pc' = pc + 4 /\ state' = "RUNNING" /\ boot' = boot
        /\ regs'[A0] = v /\ regs'[T5] = regs[T5] /\ regs'[T2] = regs[T2] /\ regs'[T3] = regs[T3] /\ regs'[T4] = regs[T4]
    BY ONLY <1>3, <2>3, Named
  <2>5. Take(14, k, m)'
    <3>1. (DATA + 16) - regs'[T3] = i /\ Digits(k, i)'
      BY ONLY <1>b, <1>d, <2>2, <2>4
    <3>2. regs'[A0] = Left(k, i + 1)
      BY ONLY <1>f, <2>2, <2>3, <2>4
    <3> QED BY ONLY <2>2, <2>4, <3>1, <3>2 DEF Take
  <2>6. pc' = TEXT + 4 * 14 /\ 13 + 1 = 14
    BY ONLY <1>0, <1>6, <2>4, pc = TEXT + 4 * j
  <2> QED BY <1>6, <2>4, <2>5, <2>6
<1>7. CASE j = 14
  <2>1. AtWord(enc_i(48, T5, 0, T5, OP_ALUI))
    <3>1. Holds(boot.code, TEXT + 56, enc_i(48, T5, 0, T5, OP_ALUI)) /\ TEXT + 4 * j = TEXT + 56
      BY <1>0, <1>7 DEF DemoText
    <3> QED BY <1>1, <3>1
  <2>2. /\ out = <<>> /\ regs[T2] = DATA + 16 /\ regs[T4] = 10
        /\ i \in 0 .. m - 1 /\ i \in Nat /\ Digits(k, i) /\ regs[A0] = Left(k, i + 1) /\ regs[T5] = (Left(k, i) % 10)
    BY <1>0, <1>d, <1>e, <1>7 DEF Take
  <2>3. PICK v : v = (Left(k, i) % 10) + 48 /\ Writes(T5, v)
    <3>1. /\ 48 \in Int /\ -2048 <= 48 /\ 48 < 2048 /\ T5 \in Registers /\ T5 \in 1 .. 31
      BY ONLY <1>2
    <3>2. PICK d : d = (Left(k, i) % 10)
      OBVIOUS
    <3>3. regs[T5] + 48 \in Words /\ regs[T5] + 48 = (Left(k, i) % 10) + 48
      <4>1. d \in 0 .. 9
        BY ONLY <1>f, <2>2, <3>2
      <4>2. d + 48 \in Words
        BY ONLY <1>0, <4>1
      <4>3. regs[T5] = d
        BY ONLY <2>2, <3>2
      <4> QED BY ONLY <3>2, <4>2, <4>3
    <3>4. Writes(T5, regs[T5] + 48)
      BY ONLY CInv, Step, <2>1, <3>1, <3>3, BumpRuns
    <3> QED BY ONLY <3>3, <3>4
  <2>4. /\ mem' = mem /\ out' = out /\ pc' = pc + 4 /\ state' = "RUNNING" /\ boot' = boot
        /\ regs'[T5] = v /\ regs'[A0] = regs[A0] /\ regs'[T2] = regs[T2] /\ regs'[T3] = regs[T3] /\ regs'[T4] = regs[T4]
    BY ONLY <1>3, <2>3, Named
  <2>5. Take(15, k, m)'
    <3>1. (DATA + 16) - regs'[T3] = i /\ Digits(k, i)'
      BY ONLY <1>b, <1>d, <2>2, <2>4
    <3> QED BY ONLY <2>2, <2>3, <2>4, <3>1 DEF Take
  <2>6. pc' = TEXT + 4 * 15 /\ 14 + 1 = 15
    BY ONLY <1>0, <1>7, <2>4, pc = TEXT + 4 * j
  <2> QED BY <1>7, <2>4, <2>5, <2>6
<1>8. CASE j = 15
  <2>1. AtWord(enc_i(-1, T3, 0, T3, OP_ALUI))
    <3>1. Holds(boot.code, TEXT + 60, enc_i(-1, T3, 0, T3, OP_ALUI)) /\ TEXT + 4 * j = TEXT + 60
      BY <1>0, <1>8 DEF DemoText
    <3> QED BY <1>1, <3>1
  <2>2. /\ out = <<>> /\ regs[T2] = DATA + 16 /\ regs[T4] = 10
        /\ i \in 0 .. m - 1 /\ i \in Nat /\ Digits(k, i) /\ regs[A0] = Left(k, i + 1) /\ regs[T5] = (Left(k, i) % 10) + 48
    BY <1>0, <1>d, <1>e, <1>8 DEF Take
  <2>3. PICK v : v = (DATA + 16) - (i + 1) /\ Writes(T3, v)
    <3>1. /\ -1 \in Int /\ -2048 <= -1 /\ -1 < 2048 /\ T3 \in Registers /\ T3 \in 1 .. 31
      BY ONLY <1>2
    <3>2. regs[T3] + -1 \in Words /\ regs[T3] + -1 = (DATA + 16) - (i + 1)
      BY ONLY <1>0, <1>e, <2>2
    <3>3. Writes(T3, regs[T3] + -1)
      BY ONLY CInv, Step, <2>1, <3>1, <3>2, BumpRuns
    <3> QED BY ONLY <3>2, <3>3
  <2>4. /\ mem' = mem /\ out' = out /\ pc' = pc + 4 /\ state' = "RUNNING" /\ boot' = boot
        /\ regs'[T3] = v /\ regs'[A0] = regs[A0] /\ regs'[T2] = regs[T2] /\ regs'[T5] = regs[T5] /\ regs'[T4] = regs[T4]
    BY ONLY <1>3, <2>3, Named
  <2>5. Take(16, k, m)'
    <3>1. PICK c : c = i + 1
      OBVIOUS
    <3>2. (DATA + 16) - regs'[T3] = c /\ c \in 1 .. m /\ c - 1 = i
      BY ONLY <1>0, <2>2, <2>3, <2>4, <3>1
    <3>3. Digits(k, i)'
      BY ONLY <1>b, <2>2, <2>4
    <3>4. regs'[A0] = Left(k, c) /\ regs'[T5] = (Left(k, c - 1) % 10) + 48 /\ Digits(k, c - 1)'
      BY ONLY <2>2, <2>4, <3>1, <3>2, <3>3
    <3> QED BY ONLY <2>2, <2>4, <3>2, <3>4 DEF Take
  <2>6. pc' = TEXT + 4 * 16 /\ 15 + 1 = 16
    BY ONLY <1>0, <1>8, <2>4, pc = TEXT + 4 * j
  <2> QED BY <1>8, <2>4, <2>5, <2>6
<1>9. CASE j = 16
  <2>1. AtWord(enc_s(0, T5, T3, 0, OP_STORE))
    <3>1. Holds(boot.code, TEXT + 64, enc_s(0, T5, T3, 0, OP_STORE)) /\ TEXT + 4 * j = TEXT + 64
      BY <1>0, <1>9 DEF DemoText
    <3> QED BY <1>1, <3>1
  <2>2. /\ out = <<>> /\ regs[T2] = DATA + 16 /\ regs[T4] = 10 /\ i \in 1 .. m /\ i \in Nat
        /\ regs[A0] = Left(k, i) /\ Digits(k, i - 1) /\ regs[T5] = (Left(k, i - 1) % 10) + 48
    BY <1>0, <1>d, <1>e, <1>9 DEF Take
  <2> DEFINE x == (DATA + 16) - i
  <2>3. x \in Nat /\ x \in Words /\ x + 1 <= MemSize
    BY ONLY <1>0, <2>2
  <2>4. BytesOf(0) = 1
    BY DEF BytesOf
  <2>5. Names(T3, 0, x, BytesOf(0))
    <3>1. regs[T3] + 0 = x /\ Wrap(x) = x /\ x % 1 = 0
      BY <1>e, <2>3, WrapWord
    <3> QED BY <2>3, <2>4, <3>1 DEF Names
  <2> HIDE DEF x
  <2>6. Puts(x, 1, regs[T5])
    <3>1. 0 \in 0 .. 2 /\ T5 \in Registers /\ T3 \in Registers
      BY <1>2
    <3>2. Puts(x, BytesOf(0), regs[T5])
      BY ONLY CInv, Step, <2>1, <2>5, <3>1, StoreRuns
    <3> QED BY <2>4, <3>2
  <2>7. /\ mem' = Stored(x, 1, regs[T5]) /\ regs' = regs /\ out' = out /\ state' = "RUNNING"
        /\ boot' = boot /\ pc' = pc + 4
    BY <2>6 DEF Puts, Advances
  <2>8. Byte(x)' = Digit(k, i - 1) /\ \A y : y # x => Byte(y)' = Byte(y)
    <3> DEFINE d == regs[T5]
    <3>1. x \in Int /\ 1 \in Int /\ mem' = Stored(x, 1, d)
      BY <2>3, <2>7
    <3>2. d \in Nat
      BY <1>0, <1>2
    <3> HIDE DEF d
    <3>3. /\ \A l \in 0 .. 1 - 1 : Byte(x + l)' = (d \div Pow2[(XLEN \div 4) * l]) % ByteSize
          /\ \A y : y \notin x .. x + 1 - 1 => Byte(y)' = Byte(y)
      BY ONLY <3>1, StoredBytes
    <3>4. 0 \in 0 .. 1 - 1 /\ x + 0 = x /\ (XLEN \div 4) * 0 = 0 /\ \A y : y # x => y \notin x .. x + 1 - 1
      BY <2>3, WidthAssumption
    <3>5. Byte(x)' = (d \div Pow2[0]) % ByteSize
      BY ONLY <3>3, <3>4
    <3>6. d \div 1 = d
      BY ONLY <3>2
    <3>7. Byte(x)' = d % ByteSize
      BY ONLY <3>5, <3>6, SmallPowers
    <3>8. Digit(k, i - 1) = d % ByteSize
      BY ONLY <2>2 DEF Digit, d
    <3> QED BY ONLY <3>3, <3>4, <3>7, <3>8
  <2>9. Digits(k, i)'
    <3> SUFFICES ASSUME NEW c \in 0 .. i - 1 PROVE Byte(DATA + 15 - c)' = Digit(k, c)
      BY DEF Digits
    <3>1. CASE c = i - 1
      <4>1. DATA + 15 - c = x
        BY ONLY <1>0, <2>2, <3>1 DEF x
      <4> QED BY ONLY <2>8, <3>1, <4>1
    <3>2. CASE c # i - 1
      <4>1. c \in 0 .. (i - 1) - 1 /\ DATA + 15 - c # x
        BY ONLY <1>0, <2>2, <3>2, c \in 0 .. i - 1 DEF x
      <4>2. Byte(DATA + 15 - c) = Digit(k, c)
        BY <2>2, <4>1 DEF Digits
      <4> QED BY <2>8, <4>1, <4>2
    <3> QED BY <3>1, <3>2
  <2>10. Take(17, k, m)'
    <3>1. (DATA + 16) - regs'[T3] = i
      BY ONLY <1>d, <2>7
    <3> QED BY ONLY <2>2, <2>7, <2>9, <3>1 DEF Take
  <2>11. pc' = TEXT + 4 * 17 /\ 16 + 1 = 17
    BY ONLY <1>0, <1>9, <2>7, pc = TEXT + 4 * j
  <2> QED BY <1>9, <2>7, <2>10, <2>11
<1>10. CASE j = 17
  <2>1. AtWord(enc_b(-20, 0, A0, 1, OP_BRANCH))
    <3>1. Holds(boot.code, TEXT + 68, enc_b(-20, 0, A0, 1, OP_BRANCH)) /\ TEXT + 4 * j = TEXT + 68
      BY <1>0, <1>10 DEF DemoText
    <3> QED BY <1>1, <3>1
  <2>2. /\ out = <<>> /\ regs[T2] = DATA + 16 /\ regs[T4] = 10 /\ i \in 1 .. m /\ i \in Nat
        /\ regs[A0] = Left(k, i) /\ Digits(k, i)
    BY <1>0, <1>d, <1>e, <1>10 DEF Take
  <2>3. /\ state' = "RUNNING" /\ boot' = boot
        /\ pc' = IF taken(1, regs[A0], regs[0]) THEN pc + -20 ELSE pc + 4
        /\ regs' = regs /\ mem' = mem /\ out' = out
    <3>1. /\ -20 \in Int /\ -4096 <= -20 /\ -20 < 4096 /\ (-20) % 2 = 0 /\ 1 \in BranchKinds
          /\ A0 \in Registers /\ 0 \in Registers
      BY ONLY <1>2 DEF BranchKinds, Registers
    <3>2. pc + -20 \in Words
      BY ONLY <1>0, <1>10, pc = TEXT + 4 * j
    <3> QED BY ONLY CInv, Step, <2>1, <3>1, <3>2, BranchRuns
  <2>4. taken(1, regs[A0], regs[0]) <=> Left(k, i) # 0
    BY <1>0, <2>2 DEF taken
  <2>5. (DATA + 16) - regs'[T3] = i /\ Digits(k, i)'
    BY ONLY <1>b, <1>d, <2>2, <2>3
  <2>6. Left(k, m) = 0 /\ \A c \in 0 .. m - 1 : Left(k, c) # 0
    BY DEF DemoArgs
  <2>7. CASE Left(k, i) = 0
    <3>1. pc' = TEXT + 4 * 18 /\ 17 + 1 = 18
      BY ONLY <1>0, <1>10, <2>3, <2>4, <2>7, pc = TEXT + 4 * j
    <3>2. i = m
      BY ONLY <1>0, <2>2, <2>6, <2>7
    <3>3. regs'[T3] = DATA + 16 - m
      <4>1. regs'[T3] = regs[T3]
        BY <2>3
      <4> QED BY ONLY <1>0, <1>e, <3>2, <4>1
    <3>4. Take(18, k, m)'
      BY ONLY <2>2, <2>3, <2>5, <3>2, <3>3 DEF Take
    <3> QED BY <1>10, <2>3, <3>1, <3>4
  <2>8. CASE Left(k, i) # 0
    <3>1. pc' = TEXT + 4 * 12
      BY ONLY <1>0, <1>10, <2>3, <2>4, <2>8, pc = TEXT + 4 * j
    <3>2. i \in 0 .. m - 1
      <4>1. i # m
        BY ONLY <2>6, <2>8
      <4> QED BY ONLY <1>0, <2>2, <4>1
    <3>3. Take(12, k, m)'
      BY ONLY <2>2, <2>3, <2>5, <3>2 DEF Take
    <3> QED BY <1>10, <2>3, <3>1, <3>3
  <2> QED BY <2>7, <2>8
<1> QED BY <1>5, <1>6, <1>7, <1>8, <1>9, <1>10

\* A step of the part that writes the digits.
LEMMA ShowStep ==
  ASSUME CInv, Step, XLEN <= 32, TextFits(30), DataFits(16), NEW k, NEW m, DemoArgs(k, m),
         DemoText(boot.code, k), NEW j \in 18 .. 24, pc = TEXT + 4 * j, Show(j, k, m)
  PROVE  /\ state' = "RUNNING" /\ boot' = boot
         /\ \/ j # 24 /\ pc' = TEXT + 4 * (j + 1) /\ Show(j + 1, k, m)'
            \/ j = 24 /\ pc' = TEXT + 4 * 25 /\ Leave(25, k, m)'
<1>a. DemoSizes(k, m)
  BY ONLY CInv, TextFits(30), DataFits(16), DemoArgs(k, m), DemoNumbers
<1>0. /\ regs \in [Registers -> Words] /\ regs[0] = 0 /\ Words = 0 .. Size - 1
      /\ \A r \in Registers : regs[r] \in Nat /\ regs[r] < Size
      /\ Size \in Nat /\ Size >= 4096 /\ MemSize \in Nat /\ MemSize < Size
      /\ TEXT \in Nat /\ TEXT % 2 = 0 /\ TEXT + 120 <= MemSize
      /\ DATA \in Nat /\ DATA + 16 <= MemSize
      /\ k \in Nat /\ k >= 1 /\ m \in Nat /\ m >= 1 /\ m <= 16
      /\ ByteSize \in Nat /\ 10 <= ByteSize
      /\ 0 \in Words /\ 1 \in Words /\ 10 \in Words /\ 64 \in Words /\ 93 \in Words
      /\ DATA + 16 \in Words /\ k \in Words
  BY <1>a DEF DemoSizes
<1>1. ASSUME NEW w, Holds(boot.code, TEXT + 4 * j, w) PROVE AtWord(w)
  BY ONLY <1>0, <1>1, j \in 18 .. 24, pc = TEXT + 4 * j DEF AtWord
<1>2. {T0, T2, T3, T4, T5, A0, A1, A2, A7} \subseteq 1 .. 31 /\ {T0, T2, T3, T4, T5, A0, A1, A2, A7} \subseteq Registers
  BY ONLY InRange
<1>3. ASSUME NEW r \in {T0, T2, T3, T4, T5, A0, A1, A2, A7}, NEW v, Writes(r, v)
      PROVE  /\ boot' = boot /\ state' = "RUNNING" /\ pc' = pc + 4
             /\ mem' = mem /\ out' = out /\ regs'[r] = v
             /\ \A q \in {T0, T2, T3, T4, T5, A0, A1, A2, A7} : q # r => regs'[q] = regs[q]
  BY ONLY CInv, <1>3, DemoFrame
<1>b. ASSUME mem' = mem, Digits(k, m) PROVE Digits(k, m)'
  BY <1>b DEF Digits, Byte
<1>5. CASE j = 18
  <2>1. AtWord(Lui(A0, 1))
    <3>1. Holds(boot.code, TEXT + 72, Lui(A0, 1)) /\ TEXT + 4 * j = TEXT + 72
      BY <1>0, <1>5 DEF DemoText
    <3> QED BY <1>1, <3>1
  <2>2. /\ regs[T2] = DATA + 16 /\ regs[T3] = DATA + 16 - m /\ Digits(k, m)
        /\ out = <<>>
    BY <1>5 DEF Show
  <2>3. PICK v : v = Wrap(Immediate(Lui(A0, 1))) /\ Writes(A0, v)
    <3>1. A0 \in 1 .. 31 /\ 1 \in Words
      BY ONLY <1>0, <1>2
    <3>2. Writes(A0, Wrap(Immediate(Lui(A0, 1))))
      BY ONLY CInv, Step, <2>1, <3>1, LuiRuns
    <3> QED BY <3>2
  <2>4. /\ mem' = mem /\ out' = out /\ pc' = pc + 4 /\ state' = "RUNNING" /\ boot' = boot
        /\ regs'[A0] = v /\ regs'[T2] = regs[T2] /\ regs'[T3] = regs[T3]
    BY ONLY <1>3, <2>3, Named
  <2>5. Show(19, k, m)'
    BY ONLY <1>b, <2>2, <2>3, <2>4 DEF Show
  <2>6. pc' = TEXT + 4 * 19 /\ 18 + 1 = 19
    BY ONLY <1>0, <1>5, <2>4, pc = TEXT + 4 * j
  <2> QED BY <1>5, <2>4, <2>5, <2>6
<1>6. CASE j = 19
  <2>1. AtWord(Addi(A0, 1))
    <3>1. Holds(boot.code, TEXT + 76, Addi(A0, 1)) /\ TEXT + 4 * j = TEXT + 76
      BY <1>0, <1>6 DEF DemoText
    <3> QED BY <1>1, <3>1
  <2>2. /\ regs[T2] = DATA + 16 /\ regs[T3] = DATA + 16 - m /\ Digits(k, m)
        /\ out = <<>> /\ regs[A0] = Wrap(Immediate(Lui(A0, 1)))
    BY <1>6 DEF Show
  <2>3. PICK v : v = 1 /\ Writes(A0, v)
    <3>1. A0 \in 1 .. 31 /\ 1 \in Words
      BY ONLY <1>0, <1>2
    <3>2. regs[A0] = Wrap(Immediate(Lui(A0, 1)))
      BY ONLY <2>2
    <3>3. Writes(A0, 1)
      BY ONLY CInv, Step, XLEN <= 32, <2>1, <3>1, <3>2, AddiRuns
    <3> QED BY <3>3
  <2>4. /\ mem' = mem /\ out' = out /\ pc' = pc + 4 /\ state' = "RUNNING" /\ boot' = boot
        /\ regs'[A0] = v /\ regs'[T2] = regs[T2] /\ regs'[T3] = regs[T3]
    BY ONLY <1>3, <2>3, Named
  <2>5. Show(20, k, m)'
    BY ONLY <1>b, <2>2, <2>3, <2>4 DEF Show
  <2>6. pc' = TEXT + 4 * 20 /\ 19 + 1 = 20
    BY ONLY <1>0, <1>6, <2>4, pc = TEXT + 4 * j
  <2> QED BY <1>6, <2>4, <2>5, <2>6
<1>7. CASE j = 20
  <2>1. AtWord(enc_i(0, T3, 0, A1, OP_ALUI))
    <3>1. Holds(boot.code, TEXT + 80, enc_i(0, T3, 0, A1, OP_ALUI)) /\ TEXT + 4 * j = TEXT + 80
      BY <1>0, <1>7 DEF DemoText
    <3> QED BY <1>1, <3>1
  <2>2. /\ regs[T2] = DATA + 16 /\ regs[T3] = DATA + 16 - m /\ Digits(k, m)
        /\ out = <<>>
    BY <1>7 DEF Show
  <2>3. PICK v : v = DATA + 16 - m /\ Writes(A1, v)
    <3>1. /\ 0 \in Int /\ -2048 <= 0 /\ 0 < 2048
          /\ T3 \in Registers /\ A1 \in 1 .. 31
      BY ONLY <1>2
    <3>2. regs[T3] + 0 \in Words /\ regs[T3] + 0 = DATA + 16 - m
      BY ONLY <1>0, <2>2
    <3>3. Writes(A1, regs[T3] + 0)
      BY ONLY CInv, Step, <2>1, <3>1, <3>2, BumpRuns
    <3> QED BY <3>2, <3>3
  <2>4. /\ mem' = mem /\ out' = out /\ pc' = pc + 4 /\ state' = "RUNNING" /\ boot' = boot
        /\ regs'[A1] = v /\ regs'[T2] = regs[T2] /\ regs'[T3] = regs[T3]
    BY ONLY <1>3, <2>3, Named
  <2>5. Show(21, k, m)'
    BY ONLY <1>b, <2>2, <2>3, <2>4 DEF Show
  <2>6. pc' = TEXT + 4 * 21 /\ 20 + 1 = 21
    BY ONLY <1>0, <1>7, <2>4, pc = TEXT + 4 * j
  <2> QED BY <1>7, <2>4, <2>5, <2>6
<1>8. CASE j = 21
  <2>1. AtWord(Minus(A2, T2, T3))
    <3>1. Holds(boot.code, TEXT + 84, Minus(A2, T2, T3)) /\ TEXT + 4 * j = TEXT + 84
      BY <1>0, <1>8 DEF DemoText
    <3> QED BY <1>1, <3>1
  <2>2. /\ regs[T2] = DATA + 16 /\ regs[T3] = DATA + 16 - m /\ Digits(k, m)
        /\ out = <<>> /\ regs[A1] = DATA + 16 - m
    BY <1>8 DEF Show
  <2>3. PICK v : v = m /\ Writes(A2, v)
    <3>1. A2 \in 1 .. 31 /\ T2 \in 1 .. 31 /\ T3 \in 1 .. 31
      BY ONLY <1>2
    <3>2. Writes(A2, Wrap(regs[T2] - regs[T3]))
      BY ONLY CInv, Step, <2>1, <3>1, MinusRuns
    <3>3. regs[T2] - regs[T3] = m /\ m \in Words
      BY ONLY <1>0, <2>2
    <3>4. Wrap(m) = m
      BY ONLY <3>3, WrapWord
    <3> QED BY ONLY <3>2, <3>3, <3>4
  <2>4. /\ mem' = mem /\ out' = out /\ pc' = pc + 4 /\ state' = "RUNNING" /\ boot' = boot
        /\ regs'[A2] = v /\ regs'[T2] = regs[T2] /\ regs'[T3] = regs[T3] /\ regs'[A1] = regs[A1]
    BY ONLY <1>3, <2>3, Named
  <2>5. Show(22, k, m)'
    BY ONLY <1>b, <2>2, <2>3, <2>4 DEF Show
  <2>6. pc' = TEXT + 4 * 22 /\ 21 + 1 = 22
    BY ONLY <1>0, <1>8, <2>4, pc = TEXT + 4 * j
  <2> QED BY <1>8, <2>4, <2>5, <2>6
<1>9. CASE j = 22
  <2>1. AtWord(Lui(A7, 64))
    <3>1. Holds(boot.code, TEXT + 88, Lui(A7, 64)) /\ TEXT + 4 * j = TEXT + 88
      BY <1>0, <1>9 DEF DemoText
    <3> QED BY <1>1, <3>1
  <2>2. /\ regs[T2] = DATA + 16 /\ regs[T3] = DATA + 16 - m /\ Digits(k, m)
        /\ out = <<>> /\ regs[A1] = DATA + 16 - m /\ regs[A2] = m
    BY <1>9 DEF Show
  <2>3. PICK v : v = Wrap(Immediate(Lui(A7, 64))) /\ Writes(A7, v)
    <3>1. A7 \in 1 .. 31 /\ 64 \in Words
      BY ONLY <1>0, <1>2
    <3>2. Writes(A7, Wrap(Immediate(Lui(A7, 64))))
      BY ONLY CInv, Step, <2>1, <3>1, LuiRuns
    <3> QED BY <3>2
  <2>4. /\ mem' = mem /\ out' = out /\ pc' = pc + 4 /\ state' = "RUNNING" /\ boot' = boot
        /\ regs'[A7] = v /\ regs'[T2] = regs[T2] /\ regs'[T3] = regs[T3] /\ regs'[A1] = regs[A1] /\ regs'[A2] = regs[A2]
    BY ONLY <1>3, <2>3, Named
  <2>5. Show(23, k, m)'
    BY ONLY <1>b, <2>2, <2>3, <2>4 DEF Show
  <2>6. pc' = TEXT + 4 * 23 /\ 22 + 1 = 23
    BY ONLY <1>0, <1>9, <2>4, pc = TEXT + 4 * j
  <2> QED BY <1>9, <2>4, <2>5, <2>6
<1>10. CASE j = 23
  <2>1. AtWord(Addi(A7, 64))
    <3>1. Holds(boot.code, TEXT + 92, Addi(A7, 64)) /\ TEXT + 4 * j = TEXT + 92
      BY <1>0, <1>10 DEF DemoText
    <3> QED BY <1>1, <3>1
  <2>2. /\ regs[T2] = DATA + 16 /\ regs[T3] = DATA + 16 - m /\ Digits(k, m)
        /\ out = <<>> /\ regs[A1] = DATA + 16 - m /\ regs[A2] = m /\ regs[A7] = Wrap(Immediate(Lui(A7, 64)))
    BY <1>10 DEF Show
  <2>3. PICK v : v = 64 /\ Writes(A7, v)
    <3>1. A7 \in 1 .. 31 /\ 64 \in Words
      BY ONLY <1>0, <1>2
    <3>2. regs[A7] = Wrap(Immediate(Lui(A7, 64)))
      BY ONLY <2>2
    <3>3. Writes(A7, 64)
      BY ONLY CInv, Step, XLEN <= 32, <2>1, <3>1, <3>2, AddiRuns
    <3> QED BY <3>3
  <2>4. /\ mem' = mem /\ out' = out /\ pc' = pc + 4 /\ state' = "RUNNING" /\ boot' = boot
        /\ regs'[A7] = v /\ regs'[T2] = regs[T2] /\ regs'[T3] = regs[T3] /\ regs'[A1] = regs[A1] /\ regs'[A2] = regs[A2]
    BY ONLY <1>3, <2>3, Named
  <2>5. Show(24, k, m)'
    BY ONLY <1>b, <2>2, <2>3, <2>4 DEF Show
  <2>6. pc' = TEXT + 4 * 24 /\ 23 + 1 = 24
    BY ONLY <1>0, <1>10, <2>4, pc = TEXT + 4 * j
  <2> QED BY <1>10, <2>4, <2>5, <2>6
<1>11. CASE j = 24
  <2>1. AtWord(ECALL)
    <3>1. Holds(boot.code, TEXT + 96, ECALL) /\ TEXT + 4 * j = TEXT + 96
      BY <1>0, <1>11 DEF DemoText
    <3> QED BY <1>1, <3>1
  <2>2. out = <<>> /\ Digits(k, m) /\ regs[A1] = DATA + 16 - m /\ regs[A2] = m /\ regs[A7] = 64
    BY <1>11 DEF Show
  <2>3. Writable(DATA + 16 - m, m) = m
    <3> DEFINE b == DATA + 16 - m
    <3>1. b \in Nat /\ b + m <= MemSize /\ b + m = DATA + 16
      BY ONLY <1>0
    <3>2. m <= MaxWrite /\ MaxWrite \in Nat
      BY MemoryAssumption DEF DemoArgs
    <3> HIDE DEF b
    <3>3. Writable(b, m) = m
      BY ONLY <1>0, <3>1, <3>2 DEF Writable
    <3> QED BY <3>3 DEF b
  <2>4. /\ state' = "RUNNING" /\ boot' = boot /\ pc' = pc + 4
        /\ out' = <<>> \o [l \in 1 .. m |-> Byte((DATA + 16 - m) + l - 1)]
    <3>1. A1 = 11 /\ A2 = 12 /\ A7 = 17
      BY Named
    <3>2. regs[17] = 64 /\ regs[11] = DATA + 16 - m /\ regs[12] = m
      BY ONLY <2>2, <3>1
    <3>3. /\ Advances
          /\ out' = out \o [l \in 1 .. Writable(regs[11], regs[12]) |-> Byte(regs[11] + l - 1)]
      BY ONLY CInv, Step, <2>1, <3>2, WriteRuns
    <3> QED BY ONLY <2>2, <2>3, <3>2, <3>3 DEF Advances
  <2>5. out' = Decimal(k, m)
    <3> DEFINE s == [l \in 1 .. m |-> Byte((DATA + 16 - m) + l - 1)]
    <3>1. ASSUME NEW l \in 1 .. m PROVE Byte((DATA + 16 - m) + l - 1) = Digit(k, m - l)
      <4>1. PICK c : c = m - l
        OBVIOUS
      <4>2. c \in 0 .. m - 1 /\ (DATA + 16 - m) + l - 1 = DATA + 15 - c
        BY ONLY <1>0, <4>1, l \in 1 .. m
      <4>3. Byte(DATA + 15 - c) = Digit(k, c)
        BY ONLY <2>2, <4>2 DEF Digits
      <4> QED BY ONLY <4>1, <4>2, <4>3
    <3>2. s = Decimal(k, m)
      BY <3>1 DEF Decimal
    <3> DEFINE S == {Byte((DATA + 16 - m) + l - 1) : l \in 1 .. m}
    <3>3. s \in [1 .. m -> S]
      OBVIOUS
    <3> HIDE DEF s, S
    <3>4. s \in Seq(S)
      BY ONLY <1>0, <3>3
    <3>5. <<>> \o s = s
      BY ONLY <3>4
    <3> QED BY <2>4, <3>2, <3>5 DEF s
  <2>6. Leave(25, k, m)'
    BY ONLY <2>5 DEF Leave
  <2>7. pc' = TEXT + 4 * 25
    BY ONLY <1>0, <1>11, <2>4, pc = TEXT + 4 * j
  <2> QED BY <1>11, <2>4, <2>6, <2>7
<1> QED BY <1>5, <1>6, <1>7, <1>8, <1>9, <1>10, <1>11

\* A step of the part that ends the program.
LEMMA LeaveStep ==
  ASSUME CInv, Step, XLEN <= 32, TextFits(30), DataFits(16), NEW k, NEW m, DemoArgs(k, m),
         DemoText(boot.code, k), NEW j \in 25 .. 29, pc = TEXT + 4 * j, Leave(j, k, m)
  PROVE  /\ boot' = boot
         /\ \/ j # 29 /\ state' = "RUNNING" /\ pc' = TEXT + 4 * (j + 1) /\ Leave(j + 1, k, m)'
            \/ j = 29 /\ state' = "HALTED" /\ out' = Decimal(k, m)
<1>a. DemoSizes(k, m)
  BY ONLY CInv, TextFits(30), DataFits(16), DemoArgs(k, m), DemoNumbers
<1>0. /\ regs \in [Registers -> Words] /\ regs[0] = 0 /\ Words = 0 .. Size - 1
      /\ \A r \in Registers : regs[r] \in Nat /\ regs[r] < Size
      /\ Size \in Nat /\ Size >= 4096 /\ MemSize \in Nat /\ MemSize < Size
      /\ TEXT \in Nat /\ TEXT % 2 = 0 /\ TEXT + 120 <= MemSize
      /\ DATA \in Nat /\ DATA + 16 <= MemSize
      /\ k \in Nat /\ k >= 1 /\ m \in Nat /\ m >= 1 /\ m <= 16
      /\ ByteSize \in Nat /\ 10 <= ByteSize
      /\ 0 \in Words /\ 1 \in Words /\ 10 \in Words /\ 64 \in Words /\ 93 \in Words
      /\ DATA + 16 \in Words /\ k \in Words
  BY <1>a DEF DemoSizes
<1>1. ASSUME NEW w, Holds(boot.code, TEXT + 4 * j, w) PROVE AtWord(w)
  BY ONLY <1>0, <1>1, j \in 25 .. 29, pc = TEXT + 4 * j DEF AtWord
<1>2. {T0, T2, T3, T4, T5, A0, A1, A2, A7} \subseteq 1 .. 31 /\ {T0, T2, T3, T4, T5, A0, A1, A2, A7} \subseteq Registers
  BY ONLY InRange
<1>3. ASSUME NEW r \in {T0, T2, T3, T4, T5, A0, A1, A2, A7}, NEW v, Writes(r, v)
      PROVE  /\ boot' = boot /\ state' = "RUNNING" /\ pc' = pc + 4
             /\ mem' = mem /\ out' = out /\ regs'[r] = v
             /\ \A q \in {T0, T2, T3, T4, T5, A0, A1, A2, A7} : q # r => regs'[q] = regs[q]
  BY ONLY CInv, <1>3, DemoFrame
<1>5. CASE j = 25
  <2>1. AtWord(Lui(A0, 0))
    <3>1. Holds(boot.code, TEXT + 100, Lui(A0, 0)) /\ TEXT + 4 * j = TEXT + 100
      BY <1>0, <1>5 DEF DemoText
    <3> QED BY <1>1, <3>1
  <2>2. out = Decimal(k, m)
    BY <1>0, <1>5 DEF Leave
  <2>3. PICK v : v = Wrap(Immediate(Lui(A0, 0))) /\ Writes(A0, v)
    <3>1. A0 \in 1 .. 31 /\ 0 \in Words
      BY ONLY <1>0, <1>2
    <3>2. Writes(A0, Wrap(Immediate(Lui(A0, 0))))
      BY ONLY CInv, Step, <2>1, <3>1, LuiRuns
    <3> QED BY <3>2
  <2>4. /\ mem' = mem /\ out' = out /\ pc' = pc + 4 /\ state' = "RUNNING" /\ boot' = boot
        /\ regs'[A0] = v
    BY ONLY <1>3, <2>3, Named
  <2>5. Leave(26, k, m)'
    BY ONLY <1>0, <2>2, <2>3, <2>4 DEF Leave
  <2>6. pc' = TEXT + 4 * 26 /\ 25 + 1 = 26
    BY ONLY <1>0, <1>5, <2>4, pc = TEXT + 4 * j
  <2> QED BY <1>5, <2>4, <2>5, <2>6
<1>6. CASE j = 26
  <2>1. AtWord(Addi(A0, 0))
    <3>1. Holds(boot.code, TEXT + 104, Addi(A0, 0)) /\ TEXT + 4 * j = TEXT + 104
      BY <1>0, <1>6 DEF DemoText
    <3> QED BY <1>1, <3>1
  <2>2. out = Decimal(k, m) /\ regs[A0] = Wrap(Immediate(Lui(A0, 0)))
    BY <1>0, <1>6 DEF Leave
  <2>3. PICK v : v = 0 /\ Writes(A0, v)
    <3>1. A0 \in 1 .. 31 /\ 0 \in Words
      BY ONLY <1>0, <1>2
    <3>2. regs[A0] = Wrap(Immediate(Lui(A0, 0)))
      BY ONLY <2>2
    <3>3. Writes(A0, 0)
      BY ONLY CInv, Step, XLEN <= 32, <2>1, <3>1, <3>2, AddiRuns
    <3> QED BY <3>3
  <2>4. /\ mem' = mem /\ out' = out /\ pc' = pc + 4 /\ state' = "RUNNING" /\ boot' = boot
        /\ regs'[A0] = v
    BY ONLY <1>3, <2>3, Named
  <2>5. Leave(27, k, m)'
    BY ONLY <1>0, <2>2, <2>3, <2>4 DEF Leave
  <2>6. pc' = TEXT + 4 * 27 /\ 26 + 1 = 27
    BY ONLY <1>0, <1>6, <2>4, pc = TEXT + 4 * j
  <2> QED BY <1>6, <2>4, <2>5, <2>6
<1>7. CASE j = 27
  <2>1. AtWord(Lui(A7, 93))
    <3>1. Holds(boot.code, TEXT + 108, Lui(A7, 93)) /\ TEXT + 4 * j = TEXT + 108
      BY <1>0, <1>7 DEF DemoText
    <3> QED BY <1>1, <3>1
  <2>2. out = Decimal(k, m)
    BY <1>0, <1>7 DEF Leave
  <2>3. PICK v : v = Wrap(Immediate(Lui(A7, 93))) /\ Writes(A7, v)
    <3>1. A7 \in 1 .. 31 /\ 93 \in Words
      BY ONLY <1>0, <1>2
    <3>2. Writes(A7, Wrap(Immediate(Lui(A7, 93))))
      BY ONLY CInv, Step, <2>1, <3>1, LuiRuns
    <3> QED BY <3>2
  <2>4. /\ mem' = mem /\ out' = out /\ pc' = pc + 4 /\ state' = "RUNNING" /\ boot' = boot
        /\ regs'[A7] = v
    BY ONLY <1>3, <2>3, Named
  <2>5. Leave(28, k, m)'
    BY ONLY <1>0, <2>2, <2>3, <2>4 DEF Leave
  <2>6. pc' = TEXT + 4 * 28 /\ 27 + 1 = 28
    BY ONLY <1>0, <1>7, <2>4, pc = TEXT + 4 * j
  <2> QED BY <1>7, <2>4, <2>5, <2>6
<1>8. CASE j = 28
  <2>1. AtWord(Addi(A7, 93))
    <3>1. Holds(boot.code, TEXT + 112, Addi(A7, 93)) /\ TEXT + 4 * j = TEXT + 112
      BY <1>0, <1>8 DEF DemoText
    <3> QED BY <1>1, <3>1
  <2>2. out = Decimal(k, m) /\ regs[A7] = Wrap(Immediate(Lui(A7, 93)))
    BY <1>0, <1>8 DEF Leave
  <2>3. PICK v : v = 93 /\ Writes(A7, v)
    <3>1. A7 \in 1 .. 31 /\ 93 \in Words
      BY ONLY <1>0, <1>2
    <3>2. regs[A7] = Wrap(Immediate(Lui(A7, 93)))
      BY ONLY <2>2
    <3>3. Writes(A7, 93)
      BY ONLY CInv, Step, XLEN <= 32, <2>1, <3>1, <3>2, AddiRuns
    <3> QED BY <3>3
  <2>4. /\ mem' = mem /\ out' = out /\ pc' = pc + 4 /\ state' = "RUNNING" /\ boot' = boot
        /\ regs'[A7] = v
    BY ONLY <1>3, <2>3, Named
  <2>5. Leave(29, k, m)'
    BY ONLY <1>0, <2>2, <2>3, <2>4 DEF Leave
  <2>6. pc' = TEXT + 4 * 29 /\ 28 + 1 = 29
    BY ONLY <1>0, <1>8, <2>4, pc = TEXT + 4 * j
  <2> QED BY <1>8, <2>4, <2>5, <2>6
<1>9. CASE j = 29
  <2>1. AtWord(ECALL)
    <3>1. Holds(boot.code, TEXT + 116, ECALL) /\ TEXT + 4 * j = TEXT + 116
      BY <1>0, <1>9 DEF DemoText
    <3> QED BY <1>1, <3>1
  <2>2. out = Decimal(k, m) /\ regs[A7] = 93
    BY <1>9 DEF Leave
  <2>3. regs[17] \in {0, 93}
    BY ONLY <2>2, Named
  <2>4. boot' = boot /\ state' = "HALTED" /\ out' = out
    BY ONLY CInv, Step, <2>1, <2>3, ExitRuns
  <2> QED BY ONLY <1>9, <2>2, <2>4
<1> QED BY <1>5, <1>6, <1>7, <1>8, <1>9

\* Where the demo is and what it has done.
DemoFacts(k, m) ==
    \/ state = "HALTED" /\ out = Decimal(k, m)
    \/ /\ state = "RUNNING"
       /\ \/ \E j \in 0 .. 3 : pc = TEXT + 4 * j /\ Begin(j, k)
          \/ \E j \in 4 .. 6 : pc = TEXT + 4 * j /\ Multiply(j, k)
          \/ \E j \in 7 .. 11 : pc = TEXT + 4 * j /\ Arrange(j, k)
          \/ \E j \in 12 .. 17 : pc = TEXT + 4 * j /\ Take(j, k, m)
          \/ \E j \in 18 .. 24 : pc = TEXT + 4 * j /\ Show(j, k, m)
          \/ \E j \in 25 .. 29 : pc = TEXT + 4 * j /\ Leave(j, k, m)

\* A step keeps it.
LEMMA DemoStep ==
  ASSUME CInv, Step, XLEN <= 32, TextFits(30), DataFits(16), NEW k, NEW m, DemoArgs(k, m),
         DemoText(boot.code, k), DemoFacts(k, m)
  PROVE  DemoFacts(k, m)'
<1>0. k \in Nat /\ k >= 1 /\ m \in Nat /\ m >= 1 /\ DATA \in Nat
  BY DemoNumbers DEF DemoSizes
<1>1. state = "RUNNING"
  BY DEF Step, Going
<1>2. Factorial[k] \in Nat /\ Left(k, 0) = Factorial[k]
  BY ONLY <1>0, LeftIs
<1>3. CASE \E j \in 0 .. 3 : pc = TEXT + 4 * j /\ Begin(j, k)
  <2>1. PICK j \in 0 .. 3 : pc = TEXT + 4 * j /\ Begin(j, k)
    BY <1>3
  <2>2. pc' = TEXT + 4 * (j + 1) /\ Begin(j + 1, k)' /\ state' = "RUNNING"
    BY <2>1, BeginStep
  <2>3. CASE j = 3
    <3>1. j + 1 = 4
      BY <2>3
    <3>2. Begin(4, k)' /\ pc' = TEXT + 4 * 4
      BY <2>2, <3>1
    <3>3. out' = <<>> /\ regs'[A0] = 1 /\ regs'[T0] = k
      BY <3>2 DEF Begin
    <3>4. k \in 1 .. k /\ 1 * Factorial[k] = Factorial[k]
      BY ONLY <1>0, <1>2
    <3>5. Multiply(4, k)'
      BY ONLY <3>3, <3>4 DEF Multiply
    <3> QED BY <2>2, <3>2, <3>5 DEF DemoFacts
  <2>4. CASE j # 3
    <3>1. j + 1 \in 0 .. 3
      BY <2>4
    <3> QED BY <2>2, <3>1 DEF DemoFacts
  <2> QED BY <2>3, <2>4
<1>4. CASE \E j \in 4 .. 6 : pc = TEXT + 4 * j /\ Multiply(j, k)
  <2>1. PICK j \in 4 .. 6 : pc = TEXT + 4 * j /\ Multiply(j, k)
    BY <1>4
  <2>2. /\ state' = "RUNNING"
        /\ \/ pc' = TEXT + 4 * (j + 1) /\ Multiply(j + 1, k)'
           \/ j = 6 /\ pc' = TEXT + 4 * 4 /\ Multiply(4, k)'
    BY <2>1, MultiplyStep
  <2>3. CASE j = 6 /\ pc' = TEXT + 4 * (j + 1) /\ Multiply(j + 1, k)'
    <3>1. j + 1 = 7
      BY <2>3
    <3>2. Multiply(7, k)' /\ pc' = TEXT + 4 * 7
      BY <2>3, <3>1
    <3>3. Arrange(7, k)'
      BY ONLY <3>2 DEF Multiply, Arrange
    <3> QED BY <2>2, <3>2, <3>3 DEF DemoFacts
  <2>4. CASE j # 6 /\ pc' = TEXT + 4 * (j + 1) /\ Multiply(j + 1, k)'
    <3>1. j + 1 \in 4 .. 6
      BY <2>4
    <3> QED BY <2>2, <2>4, <3>1 DEF DemoFacts
  <2>5. CASE pc' = TEXT + 4 * 4 /\ Multiply(4, k)'
    BY <2>2, <2>5 DEF DemoFacts
  <2> QED BY <2>2, <2>3, <2>4, <2>5
<1>5. CASE \E j \in 7 .. 11 : pc = TEXT + 4 * j /\ Arrange(j, k)
  <2>1. PICK j \in 7 .. 11 : pc = TEXT + 4 * j /\ Arrange(j, k)
    BY <1>5
  <2>2. pc' = TEXT + 4 * (j + 1) /\ Arrange(j + 1, k)' /\ state' = "RUNNING"
    BY <2>1, ArrangeStep
  <2>3. CASE j = 11
    <3>1. j + 1 = 12
      BY <2>3
    <3>2. Arrange(12, k)' /\ pc' = TEXT + 4 * 12
      BY <2>2, <3>1
    <3>3. /\ out' = <<>> /\ regs'[A0] = Factorial[k] /\ regs'[T2] = DATA + 16
          /\ regs'[T3] = DATA + 16 /\ regs'[T4] = 10
      BY <3>2 DEF Arrange
    <3>4. (DATA + 16) - regs'[T3] = 0 /\ 0 \in 0 .. m - 1
      BY ONLY <1>0, <3>3
    <3>5. Digits(k, 0)'
      BY DEF Digits
    <3>6. Take(12, k, m)'
      BY ONLY <1>2, <3>3, <3>4, <3>5 DEF Take
    <3> QED BY <2>2, <3>2, <3>6 DEF DemoFacts
  <2>4. CASE j # 11
    <3>1. j + 1 \in 7 .. 11
      BY <2>4
    <3> QED BY <2>2, <3>1 DEF DemoFacts
  <2> QED BY <2>3, <2>4
<1>6. CASE \E j \in 12 .. 17 : pc = TEXT + 4 * j /\ Take(j, k, m)
  <2>1. PICK j \in 12 .. 17 : pc = TEXT + 4 * j /\ Take(j, k, m)
    BY <1>6
  <2>2. /\ state' = "RUNNING"
        /\ \/ pc' = TEXT + 4 * (j + 1) /\ Take(j + 1, k, m)'
           \/ j = 17 /\ pc' = TEXT + 4 * 12 /\ Take(12, k, m)'
    BY <2>1, TakeStep
  <2>3. CASE j = 17 /\ pc' = TEXT + 4 * (j + 1) /\ Take(j + 1, k, m)'
    <3>1. j + 1 = 18
      BY <2>3
    <3>2. Take(18, k, m)' /\ pc' = TEXT + 4 * 18
      BY <2>3, <3>1
    <3>3. /\ out' = <<>> /\ regs'[T2] = DATA + 16 /\ regs'[T3] = DATA + 16 - m /\ Digits(k, m)'
      BY <3>2 DEF Take
    <3>4. Show(18, k, m)'
      BY ONLY <3>3 DEF Show
    <3> QED BY <2>2, <3>2, <3>4 DEF DemoFacts
  <2>4. CASE j # 17 /\ pc' = TEXT + 4 * (j + 1) /\ Take(j + 1, k, m)'
    <3>1. j + 1 \in 12 .. 17
      BY <2>4
    <3> QED BY <2>2, <2>4, <3>1 DEF DemoFacts
  <2>5. CASE pc' = TEXT + 4 * 12 /\ Take(12, k, m)'
    BY <2>2, <2>5 DEF DemoFacts
  <2> QED BY <2>2, <2>3, <2>4, <2>5
<1>7. CASE \E j \in 18 .. 24 : pc = TEXT + 4 * j /\ Show(j, k, m)
  <2>1. PICK j \in 18 .. 24 : pc = TEXT + 4 * j /\ Show(j, k, m)
    BY <1>7
  <2>2. /\ state' = "RUNNING"
        /\ \/ j # 24 /\ pc' = TEXT + 4 * (j + 1) /\ Show(j + 1, k, m)'
           \/ j = 24 /\ pc' = TEXT + 4 * 25 /\ Leave(25, k, m)'
    BY <2>1, ShowStep
  <2>3. j # 24 => j + 1 \in 18 .. 24
    OBVIOUS
  <2>4. 25 \in 25 .. 29
    OBVIOUS
  <2> QED BY <2>2, <2>3, <2>4 DEF DemoFacts
<1>8. CASE \E j \in 25 .. 29 : pc = TEXT + 4 * j /\ Leave(j, k, m)
  <2>1. PICK j \in 25 .. 29 : pc = TEXT + 4 * j /\ Leave(j, k, m)
    BY <1>8
  <2>2. \/ j # 29 /\ state' = "RUNNING" /\ pc' = TEXT + 4 * (j + 1) /\ Leave(j + 1, k, m)'
        \/ j = 29 /\ state' = "HALTED" /\ out' = Decimal(k, m)
    BY <2>1, LeaveStep
  <2>3. j # 29 => j + 1 \in 25 .. 29
    OBVIOUS
  <2>4. Decimal(k, m)' = Decimal(k, m)
    BY DEF Decimal
  <2> QED BY <2>2, <2>3, <2>4 DEF DemoFacts
<1> QED BY <1>1, <1>3, <1>4, <1>5, <1>6, <1>7, <1>8 DEF DemoFacts

\* A digit can be read off its byte.
LEMMA DigitRead ==
  ASSUME NEW d \in 0 .. 9, 10 <= ByteSize
  PROVE  (((d + 48) % ByteSize) - 48) % ByteSize = d
<1> DEFINE B == ByteSize
           q == (d + 48) \div B
           r == (d + 48) % B
<1>1. B \in Nat \ {0} /\ 10 <= B
  BY ByteSizes
<1> HIDE DEF B
<1>2. q \in Int /\ r \in 0 .. B - 1 /\ d + 48 = B * q + r
  BY ONLY <1>1, d \in 0 .. 9
<1> HIDE DEF q, r
<1>3. -q \in Int /\ d \in 0 .. B - 1
  BY ONLY <1>1, <1>2, d \in 0 .. 9
<1>4. (B * (-q) + d) % B = d
  BY ONLY <1>1, <1>3, DivisionUnique
<1>5. r - 48 = B * (-q) + d
  <2> DEFINE p == B * q
  <2>1. p \in Int /\ B * (-q) = -p
    BY ONLY <1>1, <1>2
  <2>2. d + 48 = p + r
    BY <1>2
  <2> HIDE DEF p
  <2> QED BY ONLY <1>2, <2>1, <2>2, d \in 0 .. 9
<1>6. (r - 48) % B = d
  BY ONLY <1>4, <1>5
<1> QED BY <1>6 DEF B, r

\* A recursion over the first numbers ends where the one over all of them is.
LEMMA FactorialOf ==
  ASSUME NEW n \in Nat, NEW f,
         f = [j \in 0 .. n |-> IF j = 0 THEN 1 ELSE j * f[j - 1]]
  PROVE  f[n] = Factorial[n]
<1> DEFINE S == {j \in Nat : j <= n => f[j] = Factorial[j]}
<1>1. \A j \in 0 .. n : f[j] = IF j = 0 THEN 1 ELSE j * f[j - 1]
  OBVIOUS
<1>2. 0 \in S
  <2>1. 0 \in 0 .. n
    OBVIOUS
  <2>2. f[0] = 1
    BY ONLY <1>1, <2>1
  <2> QED BY <2>2, FactorialIs
<1>3. ASSUME NEW j \in Nat, j \in S PROVE j + 1 \in S
  <2> SUFFICES ASSUME j + 1 <= n PROVE f[j + 1] = Factorial[j + 1]
    OBVIOUS
  <2>1. f[j] = Factorial[j]
    BY <1>3
  <2>2. j + 1 \in 0 .. n /\ j + 1 # 0 /\ (j + 1) - 1 = j
    OBVIOUS
  <2>3. f[j + 1] = (j + 1) * f[(j + 1) - 1]
    BY ONLY <1>1, <2>2
  <2>4. Factorial[j + 1] = (j + 1) * Factorial[j]
    BY FactorialIs
  <2> QED BY ONLY <2>1, <2>2, <2>3, <2>4
<1> HIDE DEF S
<1>4. Nat \subseteq S
  BY ONLY <1>2, <1>3, Induction
<1>5. n \in S
  BY <1>4
<1> QED BY <1>5 DEF S

\* There is such a recursion.
LEMMA FactorialChosen ==
  ASSUME boot.args[1] \in Nat
  PROVE  LET f[j \in 0 .. boot.args[1]] == IF j = 0 THEN 1 ELSE j * f[j - 1] IN
         f[boot.args[1]] = Factorial[boot.args[1]]
<1> DEFINE n == boot.args[1]
           Body(g) == [j \in 0 .. n |-> IF j = 0 THEN 1 ELSE j * g[j - 1]]
           f == CHOOSE g : g = Body(g)
           w == [j \in 0 .. n |-> Factorial[j]]
<1>1. ASSUME NEW j \in 0 .. n PROVE w[j] = Body(w)[j]
  <2>1. CASE j = 0
    BY <2>1, FactorialIs
  <2>2. CASE j # 0
    <3>1. j - 1 \in Nat /\ j - 1 \in 0 .. n /\ (j - 1) + 1 = j
      BY <2>2
    <3>2. Factorial[(j - 1) + 1] = ((j - 1) + 1) * Factorial[j - 1]
      BY ONLY <3>1, FactorialIs
    <3> QED BY <2>2, <3>1, <3>2
  <2> QED BY <2>1, <2>2
<1>2. w = Body(w)
  BY <1>1
<1>3. f = Body(f)
  <2> HIDE DEF w
  <2> QED BY <1>2
<1>4. f[n] = Factorial[n]
  <2> HIDE DEF f
  <2> QED BY <1>3, FactorialOf
<1> QED BY <1>4

\* The digits read one after the other are a number.
LEMMA NumberChosen ==
  ASSUME Len(out) \in Nat, NEW w \in [0 .. Len(out) -> Int], w[0] = 0,
         \A j \in 1 .. Len(out) : w[j] = 10 * w[j - 1] + ((out[j] - 48) % ByteSize)
  PROVE  LET f[j \in 0 .. Len(out)] ==
               IF j = 0 THEN 0 ELSE 10 * f[j - 1] + ((out[j] - 48) % ByteSize) IN
         f[Len(out)] = w[Len(out)]
<1> DEFINE Body(g) == [j \in 0 .. Len(out) |->
                         IF j = 0 THEN 0 ELSE 10 * g[j - 1] + ((out[j] - 48) % ByteSize)]
           f == CHOOSE g : g = Body(g)
<1>1. ASSUME NEW j \in 0 .. Len(out) PROVE w[j] = Body(w)[j]
  <2>1. CASE j = 0
    BY <2>1
  <2>2. CASE j # 0
    <3>1. j \in 1 .. Len(out)
      BY <2>2
    <3> QED BY <2>2, <3>1
  <2> QED BY <2>1, <2>2
<1>2. w = Body(w)
  BY <1>1
<1>3. f = Body(f)
  BY <1>2
<1> DEFINE S == {j \in Nat : j <= Len(out) => f[j] = w[j]}
<1>4. f[Len(out)] = w[Len(out)]
  <2> HIDE DEF f
  <2>1. \A j \in 0 .. Len(out) :
           f[j] = IF j = 0 THEN 0 ELSE 10 * f[j - 1] + ((out[j] - 48) % ByteSize)
    BY <1>3
  <2>2. 0 \in S
    <3>1. 0 \in 0 .. Len(out)
      OBVIOUS
    <3>2. f[0] = 0
      BY ONLY <2>1, <3>1
    <3> QED BY <3>2
  <2>3. ASSUME NEW j \in Nat, j \in S PROVE j + 1 \in S
    <3> SUFFICES ASSUME j + 1 <= Len(out) PROVE f[j + 1] = w[j + 1]
      OBVIOUS
    <3>1. f[j] = w[j]
      BY <2>3
    <3>2. j + 1 \in 0 .. Len(out) /\ j + 1 \in 1 .. Len(out) /\ j + 1 # 0 /\ (j + 1) - 1 = j
      OBVIOUS
    <3>3. f[j + 1] = 10 * f[(j + 1) - 1] + ((out[j + 1] - 48) % ByteSize)
      BY ONLY <2>1, <3>2
    <3>4. w[j + 1] = 10 * w[(j + 1) - 1] + ((out[j + 1] - 48) % ByteSize)
      BY ONLY <3>2, \A i \in 1 .. Len(out) : w[i] = 10 * w[i - 1] + ((out[i] - 48) % ByteSize)
    <3> QED BY ONLY <3>1, <3>2, <3>3, <3>4
  <2> HIDE DEF S
  <2>4. Nat \subseteq S
    BY ONLY <2>2, <2>3, Induction
  <2>5. Len(out) \in S
    BY <2>4
  <2> QED BY <2>5 DEF S
<1> QED BY <1>4

\* The demo's output is the decimal expansion of its result.
LEMMA DemoEnds ==
  ASSUME NEW k \in Words \ {0}, NEW m, DemoArgs(k, m), out = Decimal(k, m), boot.args[1] = k
  PROVE  LET digit(j) == (out[j] - 48) % ByteSize
             number[j \in 0 .. Len(out)] ==
                 IF j = 0 THEN 0 ELSE 10 * number[j - 1] + digit(j)
             factorial[j \in 0 .. boot.args[1]] ==
                 IF j = 0 THEN 1 ELSE j * factorial[j - 1] IN
         /\ number[Len(out)] = factorial[boot.args[1]]
         /\ \A j \in 1 .. Len(out) : digit(j) \in 0 .. 9
         /\ digit(1) # 0
<1>1. k \in Nat /\ m \in Nat /\ m >= 1 /\ 10 <= ByteSize
  BY WordSizes DEF DemoArgs
<1>2. /\ Left(k, 0) = Factorial[k] /\ Left(k, m) = 0
      /\ \A c \in Nat : /\ Left(k, c) \in Nat /\ Left(k, c + 1) = Left(k, c) \div 10
                        /\ Left(k, c) % 10 \in 0 .. 9
  <2>1. Left(k, m) = 0
    BY DEF DemoArgs
  <2> QED BY ONLY <1>1, <2>1, LeftIs
<1>3. Len(out) = m /\ \A j \in 1 .. m : out[j] = Digit(k, m - j)
  BY <1>1 DEF Decimal
<1>4. ASSUME NEW j \in 1 .. m
      PROVE  /\ m - j \in Nat /\ (out[j] - 48) % ByteSize = (Left(k, m - j) % 10)
             /\ (Left(k, m - j) % 10) \in 0 .. 9
  <2>1. PICK c : c = m - j
    OBVIOUS
  <2>2. PICK d : d = (Left(k, c) % 10)
    OBVIOUS
  <2>3. c \in Nat
    BY ONLY <1>1, <2>1, j \in 1 .. m
  <2>4. d \in 0 .. 9
    BY ONLY <1>2, <2>2, <2>3
  <2>5. out[j] = (d + 48) % ByteSize
    BY <1>3, <2>1, <2>2 DEF Digit
  <2>6. (out[j] - 48) % ByteSize = d
    BY ONLY <1>1, <2>4, <2>5, DigitRead
  <2> QED BY ONLY <2>1, <2>2, <2>3, <2>4, <2>6
<1> DEFINE w == [j \in 0 .. m |-> Left(k, m - j)]
<1>5. w \in [0 .. m -> Int] /\ w[0] = 0 /\ w[m] = Factorial[k]
  <2>1. ASSUME NEW j \in 0 .. m PROVE Left(k, m - j) \in Int
    <3>1. m - j \in Nat
      BY ONLY <1>1, j \in 0 .. m
    <3> QED BY ONLY <1>2, <3>1
  <2>2. m - 0 = m /\ m - m = 0 /\ 0 \in 0 .. m /\ m \in 0 .. m
    BY ONLY <1>1
  <2> QED BY ONLY <1>2, <2>1, <2>2
<1>6. ASSUME NEW j \in 1 .. m
      PROVE  w[j] = 10 * w[j - 1] + ((out[j] - 48) % ByteSize)
  <2>1. PICK c : c = m - j
    OBVIOUS
  <2>2. c \in Nat /\ m - (j - 1) = c + 1 /\ j \in 0 .. m /\ j - 1 \in 0 .. m
    BY ONLY <1>1, <2>1, j \in 1 .. m
  <2>3. w[j] = Left(k, c) /\ w[j - 1] = Left(k, c + 1)
    BY ONLY <2>1, <2>2
  <2>4. Left(k, c + 1) = Left(k, c) \div 10 /\ Left(k, c) \in Nat
    BY ONLY <1>2, <2>2
  <2>5. \A x \in Nat : x = 10 * (x \div 10) + (x % 10)
    OBVIOUS
  <2>6. Left(k, c) = 10 * Left(k, c + 1) + (Left(k, c) % 10)
    BY ONLY <2>4, <2>5
  <2>7. (out[j] - 48) % ByteSize = (Left(k, c) % 10)
    BY <1>4, <2>1
  <2> QED BY ONLY <2>3, <2>6, <2>7
<1>7. (out[1] - 48) % ByteSize # 0
  <2>1. PICK c : c = m - 1
    OBVIOUS
  <2>2. c \in Nat /\ c + 1 = m /\ c \in 0 .. m - 1 /\ 1 \in 1 .. m
    BY ONLY <1>1, <2>1
  <2>3. Left(k, c) # 0
    BY <2>2 DEF DemoArgs
  <2>4. Left(k, c) \div 10 = 0 /\ Left(k, c) \in Nat
    BY ONLY <1>2, <2>2
  <2>5. \A x \in Nat : x # 0 /\ x \div 10 = 0 => (x % 10) # 0
    OBVIOUS
  <2>6. (Left(k, c) % 10) # 0
    BY ONLY <2>3, <2>4, <2>5
  <2>7. (out[1] - 48) % ByteSize = (Left(k, c) % 10)
    BY <1>4, <2>1, <2>2
  <2> QED BY ONLY <2>6, <2>7
<1> HIDE DEF w
<1>8. LET number[j \in 0 .. Len(out)] ==
            IF j = 0 THEN 0 ELSE 10 * number[j - 1] + ((out[j] - 48) % ByteSize) IN
      number[Len(out)] = Factorial[k]
  <2>1. /\ Len(out) \in Nat /\ w \in [0 .. Len(out) -> Int] /\ w[0] = 0
        /\ \A j \in 1 .. Len(out) : w[j] = 10 * w[j - 1] + ((out[j] - 48) % ByteSize)
    BY <1>1, <1>3, <1>5, <1>6
  <2>2. w[Len(out)] = Factorial[k]
    BY <1>3, <1>5
  <2>3. LET number[j \in 0 .. Len(out)] ==
              IF j = 0 THEN 0 ELSE 10 * number[j - 1] + ((out[j] - 48) % ByteSize) IN
        number[Len(out)] = w[Len(out)]
    BY ONLY <2>1, NumberChosen
  <2> QED BY <2>2, <2>3
<1>9. LET factorial[j \in 0 .. boot.args[1]] == IF j = 0 THEN 1 ELSE j * factorial[j - 1] IN
      factorial[boot.args[1]] = Factorial[k]
  <2>1. boot.args[1] \in Nat
    BY <1>1
  <2>2. LET factorial[j \in 0 .. boot.args[1]] == IF j = 0 THEN 1 ELSE j * factorial[j - 1] IN
        factorial[boot.args[1]] = Factorial[boot.args[1]]
    BY ONLY <2>1, FactorialChosen
  <2>3. Factorial[boot.args[1]] = Factorial[k]
    OBVIOUS
  <2> QED BY ONLY <2>2, <2>3
<1>10. \A j \in 1 .. Len(out) : (out[j] - 48) % ByteSize \in 0 .. 9
  BY ONLY <1>3, <1>4
<1> QED BY ONLY <1>7, <1>8, <1>9, <1>10

\* While one of the two programs that write is booted, it is where its facts say.
PrintInv ==
    boot.name = "print" =>
        \E a, n, len : /\ boot.args[1] = n /\ PrintArgs(a, n, len)
                       /\ PrintText(boot.code, a, n, len) /\ PrintFacts(a, n, len)
DemoInv ==
    boot.name = "demo" =>
        \E k, m : /\ k \in Words \ {0} /\ boot.args[1] = k /\ DemoArgs(k, m)
                  /\ DemoText(boot.code, k) /\ DemoFacts(k, m)

\* The printer is at first.
LEMMA PrintBegins ==
  ASSUME Init, TextFits(21), DATA \in Nat, NEW ns,
         \A n \in ns : n \in 1 .. ByteSize - 1 /\ DATA + n <= MemSize /\ n <= MemSize /\ n + 3 < Size,
         \A b \in Boots : b.name = "print" => b \in Printers(ns)
  PROVE  PrintInv
<1> SUFFICES ASSUME boot.name = "print"
             PROVE  \E a, n, len : /\ boot.args[1] = n /\ PrintArgs(a, n, len)
                                   /\ PrintText(boot.code, a, n, len) /\ PrintFacts(a, n, len)
  BY DEF PrintInv
<1>1. boot \in Printers(ns)
  BY DEF Init
<1>2. PICK n \in ns :
          \/ boot = Booted("print", <<n, n>>, print(DATA, n, n), 200)
          \/ boot = Booted("print", <<n, n + 3>>, print(MemSize - n, n, n + 3), 200)
  BY ONLY <1>1 DEF Printers
<1>3. /\ n \in 1 .. ByteSize - 1 /\ DATA + n <= MemSize /\ n <= MemSize /\ n + 3 < Size
      /\ DATA \in Nat /\ MemSize \in Nat /\ MemSize < Size /\ Words = 0 .. Size - 1
      /\ ByteSize \in Nat /\ Size \in Nat
  BY MemoryAssumption, WordSizes, ByteSizes
<1>4. PICK a, len : /\ boot.args = <<n, len>> /\ boot.code = assemble(print(a, n, len), TEXT)
                    /\ boot.entry = TEXT /\ PrintArgs(a, n, len)
  <2>1. CASE boot = Booted("print", <<n, n>>, print(DATA, n, n), 200)
    <3>1. PrintArgs(DATA, n, n)
      BY ONLY <1>3 DEF PrintArgs
    <3> QED BY <2>1, <3>1 DEF Booted
  <2>2. CASE boot = Booted("print", <<n, n + 3>>, print(MemSize - n, n, n + 3), 200)
    <3>1. PrintArgs(MemSize - n, n, n + 3)
      BY ONLY <1>3 DEF PrintArgs
    <3> QED BY <2>2, <3>1 DEF Booted
  <2> QED BY <1>2, <2>1, <2>2
<1>5. boot.args[1] = n
  BY <1>4
<1>6. PrintText(boot.code, a, n, len)
  BY <1>4, PrintAssembled DEF TextFits
<1>7. PrintFacts(a, n, len)
  <2>1. pc = TEXT /\ state = "RUNNING" /\ out = <<>> /\ TEXT \in Nat
    BY <1>4 DEF Init, TextFits
  <2>2. pc = TEXT + 4 * 0 /\ 0 \in 0 .. 6
    BY <2>1
  <2>3. Ready(0, a, n)
    BY <2>1 DEF Ready
  <2> QED BY ONLY <2>1, <2>2, <2>3 DEF PrintFacts
<1> QED BY <1>4, <1>5, <1>6, <1>7

\* So is the demo.
LEMMA DemoBegins ==
  ASSUME Init, TextFits(30), NEW ks, \A k \in ks : k \in Words \ {0} /\ \E m : DemoArgs(k, m),
         \A b \in Boots : b.name = "demo" => b \in Demos(ks)
  PROVE  DemoInv
<1> SUFFICES ASSUME boot.name = "demo"
             PROVE  \E k, m : /\ k \in Words \ {0} /\ boot.args[1] = k /\ DemoArgs(k, m)
                              /\ DemoText(boot.code, k) /\ DemoFacts(k, m)
  BY DEF DemoInv
<1>1. boot \in Demos(ks)
  BY DEF Init
<1>2. PICK k \in ks : boot = Booted("demo", <<k>>, demo(k), 400)
  BY ONLY <1>1 DEF Demos
<1>3. k \in Words \ {0}
  OBVIOUS
<1>4. PICK m : DemoArgs(k, m)
  OBVIOUS
<1>5. boot.args = <<k>> /\ boot.code = assemble(demo(k), TEXT) /\ boot.entry = TEXT
  BY <1>2 DEF Booted
<1>6. boot.args[1] = k
  BY <1>5
<1>7. DemoText(boot.code, k)
  BY <1>5, DemoAssembled DEF TextFits
<1>8. DemoFacts(k, m)
  <2>1. pc = TEXT /\ state = "RUNNING" /\ out = <<>> /\ TEXT \in Nat
    BY <1>5 DEF Init, TextFits
  <2>2. pc = TEXT + 4 * 0 /\ 0 \in 0 .. 3
    BY <2>1
  <2>3. Begin(0, k)
    BY <2>1 DEF Begin
  <2> QED BY ONLY <2>1, <2>2, <2>3 DEF DemoFacts
<1> QED BY <1>3, <1>4, <1>6, <1>7, <1>8

\* Stuttering disturbs neither.
LEMMA OutputStutters ==
  ASSUME UNCHANGED vars
  PROVE  (PrintInv => PrintInv') /\ (DemoInv => DemoInv')
<1>1. /\ boot' = boot /\ state' = state /\ pc' = pc /\ regs' = regs /\ mem' = mem /\ out' = out
  BY DEF vars
<1>2. ASSUME NEW a, NEW n, NEW len, PrintFacts(a, n, len) PROVE PrintFacts(a, n, len)'
  BY ONLY <1>1, <1>2 DEF PrintFacts, Ready, Fill, LoadCall, Call, Filled, Byte, Writable, Counting
<1>3. ASSUME NEW k, NEW m, DemoFacts(k, m) PROVE DemoFacts(k, m)'
  BY ONLY <1>1, <1>3 DEF DemoFacts, Begin, Multiply, Arrange, Take, Show, Leave, Digits, Byte, Decimal
<1>4. PrintInv => PrintInv'
  BY ONLY <1>1, <1>2 DEF PrintInv
<1>5. DemoInv => DemoInv'
  BY ONLY <1>1, <1>3 DEF DemoInv
<1> QED BY <1>4, <1>5

\* What a program writes arrives whole and in order, although one call of write gets out
\* MaxWrite bytes at most (execute.c:584) and stops at the end of memory: the output of
\* the demo is its factorial in decimal, with no leading zero, for every argument whose
\* factorial fits a word and whose digits fit the buffer and one call, and a program that
\* calls write until nothing is left gets out what it put in memory.
THEOREM OutputArrives ==
  ASSUME HostTyped, XLEN <= 32, TextFits(30), DataFits(16), MaxWrite >= 1, NEW ks, NEW ns,
         \A k \in ks : k \in Words \ {0} /\ \E m : DemoArgs(k, m),
         \A n \in ns : n \in 1 .. ByteSize - 1 /\ DATA + n <= MemSize /\ n <= MemSize /\ n + 3 < Size,
         \A b \in Boots : /\ b.name = "demo" => b \in Demos(ks)
                          /\ b.name = "print" => b \in Printers(ns)
  PROVE  Spec => []OutputComplete
<1>0. TextFits(21) /\ DATA \in Nat
  BY MemoryAssumption, WordSizes DEF TextFits, DataFits
<1>1. Init => CInv
  BY InitType
<1>2. CInv /\ [Next]_vars => CInv'
  BY StepType
<1>3. Init => PrintInv /\ DemoInv
  BY <1>0, PrintBegins, DemoBegins
<1>4. CInv /\ PrintInv /\ DemoInv /\ [Next]_vars => (PrintInv /\ DemoInv)'
  <2> SUFFICES ASSUME CInv, PrintInv, DemoInv, [Next]_vars PROVE (PrintInv /\ DemoInv)'
    OBVIOUS
  <2>1. CASE UNCHANGED vars
    BY <2>1, OutputStutters
  <2>2. CASE Step
    <3>1. boot' = boot
      BY <2>2 DEF Step
    <3>2. PrintInv'
      <4> SUFFICES ASSUME boot.name = "print" PROVE PrintInv'
        BY <3>1 DEF PrintInv
      <4>1. PICK a, n, len : /\ boot.args[1] = n /\ PrintArgs(a, n, len)
                             /\ PrintText(boot.code, a, n, len) /\ PrintFacts(a, n, len)
        BY DEF PrintInv
      <4>2. PrintFacts(a, n, len)'
        BY <1>0, <2>2, <4>1, PrintStep
      <4> QED BY <3>1, <4>1, <4>2 DEF PrintInv
    <3>3. DemoInv'
      <4> SUFFICES ASSUME boot.name = "demo" PROVE DemoInv'
        BY <3>1 DEF DemoInv
      <4>1. PICK k, m : /\ k \in Words \ {0} /\ boot.args[1] = k /\ DemoArgs(k, m)
                        /\ DemoText(boot.code, k) /\ DemoFacts(k, m)
        BY DEF DemoInv
      <4>2. DemoFacts(k, m)'
        BY <2>2, <4>1, DemoStep
      <4> QED BY <3>1, <4>1, <4>2 DEF DemoInv
    <3> QED BY <3>2, <3>3
  <2> QED BY <2>1, <2>2 DEF Next, Returned
<1>5. CInv /\ PrintInv /\ DemoInv => OutputComplete
  <2> SUFFICES ASSUME PrintInv, DemoInv, state = "HALTED" PROVE OutputComplete
    BY DEF OutputComplete, Ended
  <2>1. ASSUME boot.name = "print" PROVE out = [j \in 1 .. boot.args[1] |-> j]
    <3>1. PICK a, n, len : boot.args[1] = n /\ PrintFacts(a, n, len)
      BY <2>1 DEF PrintInv
    <3>2. out = Counting(n)
      BY <3>1 DEF PrintFacts
    <3> QED BY <3>1, <3>2 DEF Counting
  <2>2. ASSUME boot.name = "demo"
        PROVE  LET digit(j) == (out[j] - 48) % ByteSize
                   number[j \in 0 .. Len(out)] ==
                       IF j = 0 THEN 0 ELSE 10 * number[j - 1] + digit(j)
                   factorial[j \in 0 .. boot.args[1]] ==
                       IF j = 0 THEN 1 ELSE j * factorial[j - 1] IN
               /\ number[Len(out)] = factorial[boot.args[1]]
               /\ \A j \in 1 .. Len(out) : digit(j) \in 0 .. 9
               /\ digit(1) # 0
    <3>1. PICK k, m : /\ k \in Words \ {0} /\ boot.args[1] = k /\ DemoArgs(k, m)
                      /\ DemoFacts(k, m)
      BY <2>2 DEF DemoInv
    <3>2. out = Decimal(k, m)
      BY <3>1 DEF DemoFacts
    <3> QED BY ONLY <3>1, <3>2, DemoEnds
  <2> QED BY <2>1, <2>2 DEF OutputComplete, Ended
<1> QED BY <1>1, <1>2, <1>3, <1>4, <1>5, PTL DEF Spec

-----------------------------------------------------------------------------
\* Instructions of either length.

\* The instruction w lies at a in n bytes.
Lies(c, a, w, n) ==
    \/ n = 4 /\ Holds(c, a, w)
    \/ n = 2 /\ a \in DOMAIN c /\ c[a] % 4 # 3 /\ expand_compressed(c[a]) = {w}

\* What it decodes to, and the machine about to execute it.
Either(w, n) == [raw |-> w, len |-> n, imm |-> Immediate(w)]
AtEither(w, n) == Lies(boot.code, pc, w, n) /\ pc % 2 = 0 /\ pc + n <= MemSize

\* It is what is fetched.
LEMMA EitherFetched ==
  ASSUME CInv, NEW w \in Fields, get_fmt(w.op) # "UNKNOWN", NEW n \in {2, 4}, AtEither(w, n)
  PROVE  /\ Instruction = {Either(w, n)} /\ Either(w, n) \in Decoded
         /\ Following(Either(w, n)) = pc + n /\ pc + n \in Words
         /\ ~FetchRefused /\ Either(w, n).raw = w /\ Either(w, n).imm = Immediate(w)
<1>0. Either(w, n).raw = w /\ Either(w, n).imm = Immediate(w) /\ Either(w, n).len = n
  BY DEF Either
<1>1. /\ pc \in Nat /\ pc % 2 = 0 /\ pc + n <= MemSize /\ MemSize \in 1 .. Size - 1 /\ n \in 2 .. 4
      /\ Words = 0 .. Size - 1 /\ Size \in Nat
  BY MemoryAssumption, WordSizes DEF AtEither, CInv, CTypeOK
<1>2. pc + n \in Words /\ pc + 2 \in Words
  BY ONLY <1>1
<1>3. Following(Either(w, n)) = pc + n
  BY <1>0, <1>2, WrapWord DEF Following
<1>4. Instruction = {Either(w, n)}
  <2>1. CASE n = 4 /\ Holds(boot.code, pc, w)
    <3>1. Reads(w)
      BY <2>1 DEF Reads, AtEither
    <3>2. I(w) = Either(w, n)
      BY <2>1 DEF I, Either
    <3> QED BY <3>1, <3>2, Fetched
  <2>2. CASE /\ n = 2 /\ pc \in DOMAIN boot.code /\ boot.code[pc] % 4 # 3
             /\ expand_compressed(boot.code[pc]) = {w}
    <3>1. Parcel(pc) = boot.code[pc]
      BY <2>2 DEF Parcel
    <3>2. InMemory(pc, 2) /\ pc % 2 # 1
      BY <1>1, <2>2 DEF InMemory
    <3>3. Instruction = UNION {decode(x, 2) : x \in {w}}
      BY <2>2, <3>1, <3>2 DEF Instruction
    <3>4. decode(w, 2) = {Either(w, n)}
      BY <2>2 DEF decode, Either
    <3> QED BY <3>3, <3>4
  <2> QED BY <2>1, <2>2 DEF AtEither, Lies
<1>5. Either(w, n) \in Decoded
  BY <1>4, CInvParts
<1>6. ~FetchRefused
  <2>1. Wrap(pc + 2) = pc + 2
    BY <1>2, WrapWord
  <2> QED BY <1>1, <1>4, <2>1 DEF FetchRefused, OutOfMemory
<1> QED BY <1>0, <1>2, <1>3, <1>4, <1>5, <1>6

\* A step of the machine that leaves it running.
Moves == mtime' = mtime + 1 /\ boot' = boot /\ state = "RUNNING" /\ state' = "RUNNING"

\* jalr: the address of the next instruction, two or four bytes on, goes to rd.
LEMMA JalrRuns ==
  ASSUME CInv, Step, NEW n \in {2, 4}, NEW rd \in Registers, NEW rs \in Registers,
         AtEither(enc_i(0, rs, 0, rd, OP_JALR), n), regs[rs] % 2 = 0
  PROVE  /\ Moves /\ pc' = regs[rs]
         /\ regs' = IF rd = 0 THEN regs ELSE [regs EXCEPT ![rd] = pc + n]
         /\ UNCHANGED <<mem, out>>
<1> DEFINE w == enc_i(0, rs, 0, rd, OP_JALR)
           i == Either(w, n)
<1>1. w.op = OP_JALR /\ w.rd = rd /\ w.rs1 = rs
  BY DEF enc_i, enc_r
<1>2. w \in Fields
  BY NamedCodes, EncodeI
<1>3. imm_i(w) = 0
  <2>1. 0 \in Int /\ -2048 <= 0 /\ 0 < 2048
    OBVIOUS
  <2> QED BY SMT, <2>1, SignedImmediate
<1>4. AtEither(w, n)
  OBVIOUS
<1> HIDE DEF w
<1>5. Immediate(w) = 0 /\ get_fmt(w.op) # "UNKNOWN"
  BY <1>1, <1>3, Formats DEF Immediate
<1>6. /\ Instruction = {i} /\ Following(i) = pc + n /\ ~FetchRefused
      /\ i.raw = w /\ i.imm = 0
  BY <1>2, <1>4, <1>5, EitherFetched
<1> HIDE DEF i
<1>7. ~Faulty(i)
  BY <1>1, <1>6, Opcodes DEF Faulty, AccessRefused, SystemRefused
<1>8. Jump(i) /\ mtime' = mtime + 1 /\ boot' = boot /\ state = "RUNNING"
  BY <1>1, <1>6, <1>7, StepOf, OpcodeDecides
<1>10. regs[rs] \in Words
  BY DEF CInv, CTypeOK
<1>11. Target(i) = regs[rs]
  <2>1. regs[rs] + 0 = regs[rs]
    BY <1>10 DEF Words
  <2> QED BY <1>1, <1>6, <1>10, <2>1, WrapWord DEF Target, rs1_val
<1>12. Target(i) - (Target(i) % 2) = regs[rs]
  BY <1>10, <1>11 DEF Words
<1> QED BY <1>1, <1>6, <1>8, <1>12, Opcodes DEF Jump, Retire, Moves, reg_write

\* jal without a link.
LEMMA JalRuns ==
  ASSUME CInv, Step, NEW imm \in Int, -1048576 <= imm, imm < 1048576, imm % 2 = 0,
         pc + imm \in Words, AtWord(enc_j(imm, 0, OP_JAL))
  PROVE  Moves /\ pc' = pc + imm /\ UNCHANGED <<regs, mem, out>>
<1> DEFINE w == enc_j(imm, 0, OP_JAL)
           i == Either(w, 4)
<1>1. w.op = OP_JAL /\ w.rd = 0
  BY DEF enc_j, enc_r
<1>2. w \in Fields
  BY NamedCodes, EncodeJ
<1>3. imm_j(w) = imm
  BY ImmediatesRoundTrip
<1>4. AtEither(w, 4)
  BY DEF AtWord, AtEither, Lies
<1> HIDE DEF w
<1>5. Immediate(w) = imm /\ get_fmt(w.op) # "UNKNOWN"
  BY <1>1, <1>3, Formats DEF Immediate
<1>6. Instruction = {i} /\ ~FetchRefused /\ i.raw = w /\ i.imm = imm
  BY <1>2, <1>4, <1>5, EitherFetched
<1> HIDE DEF i
<1>7. ~Faulty(i)
  BY <1>1, <1>6, Opcodes DEF Faulty, AccessRefused, SystemRefused
<1>8. Jump(i) /\ mtime' = mtime + 1 /\ boot' = boot /\ state = "RUNNING"
  BY <1>1, <1>6, <1>7, StepOf, OpcodeDecides
<1>9. Wrap(pc + imm) = pc + imm
  BY WrapWord
<1> QED BY <1>1, <1>6, <1>8, <1>9 DEF Jump, Retire, Moves, reg_write

\* addi
LEMMA EitherBumps ==
  ASSUME CInv, Step, NEW n \in {2, 4}, NEW r \in 1 .. 31, NEW imm \in Int, -2048 <= imm, imm < 2048,
         AtEither(enc_i(imm, r, 0, r, OP_ALUI), n), regs[r] + imm \in Words
  PROVE  /\ Moves /\ pc' = pc + n /\ regs' = [regs EXCEPT ![r] = regs[r] + imm]
         /\ UNCHANGED <<mem, out>>
<1> DEFINE w == enc_i(imm, r, 0, r, OP_ALUI)
           i == Either(w, n)
<1>0. r \in Registers /\ r # 0
  BY RegisterNumbers
<1>1. w.op = OP_ALUI /\ w.rd = r /\ w.rs1 = r /\ w.f3 = 0
  BY DEF enc_i, enc_r
<1>2. w \in Fields
  BY <1>0, NamedCodes, EncodeI
<1>3. imm_i(w) = imm
  BY SMT, SignedImmediate
<1>4. AtEither(w, n)
  OBVIOUS
<1> HIDE DEF w
<1>5. Immediate(w) = imm /\ get_fmt(w.op) # "UNKNOWN"
  BY <1>1, <1>3, Formats DEF Immediate
<1>6. /\ Instruction = {i} /\ Following(i) = pc + n /\ ~FetchRefused
      /\ i.raw = w /\ i.imm = imm
  BY <1>2, <1>4, <1>5, EitherFetched
<1> HIDE DEF i
<1>7. ~Faulty(i)
  BY <1>1, <1>6, Opcodes DEF Faulty, AccessRefused, SystemRefused
<1>8. Compute(i) /\ mtime' = mtime + 1 /\ boot' = boot /\ state = "RUNNING"
  BY <1>1, <1>6, <1>7, StepOf, OpcodeDecides
<1>9. \A f7 : op_alui(f7, 0, regs[r], imm) = Wrap(regs[r] + Wrap(imm))
  BY DEF op_alui, Arith, Sub
<1>10. Computed(i) = regs[r] + imm
  <2>1. Computed(i) = op_alui(w.f7, 0, regs[r], imm)
    BY <1>1, <1>6, Opcodes DEF Computed, rs1_val
  <2> DEFINE x == regs[r]
  <2>2. x \in Int /\ imm \in Int /\ x + imm \in Words
    BY <1>0, WordSizes DEF CInv, CTypeOK
  <2>3. Computed(i) = Wrap(x + Wrap(imm))
    BY <1>9, <2>1
  <2> HIDE DEF x
  <2>4. Wrap(Wrap(imm) + x) = Wrap(imm + x)
    BY ONLY <2>2, WrapSum
  <2>5. Wrap(imm) \in Int
    BY ONLY <2>2, WrapType, WordSizes
  <2>6. x + Wrap(imm) = Wrap(imm) + x /\ x + imm = imm + x
    BY ONLY <2>2, <2>5
  <2>7. Wrap(x + imm) = x + imm
    BY ONLY <2>2, WrapWord
  <2> QED BY ONLY <2>3, <2>4, <2>6, <2>7 DEF x
<1> QED BY <1>0, <1>1, <1>6, <1>8, <1>10 DEF Compute, Retire, Moves, reg_write

\* sw and lw of the word an address register points to.
LEMMA EitherStores ==
  ASSUME CInv, Step, NEW n \in {2, 4}, NEW r \in Registers, NEW rs \in Registers, NEW a,
         Names(rs, 0, a, 4), AtEither(enc_s(0, r, rs, 2, OP_STORE), n)
  PROVE  /\ Moves /\ pc' = pc + n /\ mem' = Stored(a, 4, regs[r])
         /\ UNCHANGED <<regs, out>>
<1> DEFINE w == enc_s(0, r, rs, 2, OP_STORE)
           i == Either(w, n)
<1>1. /\ w \in Fields /\ w.op = OP_STORE /\ w.f3 = 2 /\ w.rs1 = rs /\ w.rs2 = r
      /\ Immediate(w) = 0
  <2>1. /\ 0 \in Int /\ -2048 <= 0 /\ 0 < 2048
        /\ 2 \in {0, 1, 2, 4, 5} /\ OP_STORE \in {OP_STORE, OP_STORE_FP}
    OBVIOUS
  <2>2. rs \in Registers /\ r \in Registers
    OBVIOUS
  <2> QED BY ONLY <2>1, <2>2, StoreWord
<1>2. AtEither(w, n)
  OBVIOUS
<1> HIDE DEF w
<1>3. get_fmt(w.op) # "UNKNOWN"
  BY <1>1, Formats
<1>4. /\ Instruction = {i} /\ Following(i) = pc + n /\ ~FetchRefused
      /\ i.raw = w /\ i.imm = 0
  BY <1>1, <1>2, <1>3, EitherFetched
<1> HIDE DEF i
<1>5. /\ Target(i) = a /\ Width(i) = 4 /\ Aligned(i) /\ a \in Words /\ a + 4 <= MemSize
  BY <1>1, <1>4 DEF Target, rs1_val, Width, Aligned, Names
<1>6. /\ InMemory(a, 4) /\ ~OutOfMemory(a, 4)
      /\ a \notin {CSR_MMIO_UART, CLINT_MTIME_LO, CLINT_MTIMECMP_LO}
  BY <1>5, InsideMemory
<1>7. ~Faulty(i)
  BY <1>1, <1>4, <1>5, <1>6, Opcodes DEF Faulty, AccessRefused, SystemRefused
<1>8. Store(i) /\ mtime' = mtime + 1 /\ boot' = boot /\ state = "RUNNING"
  BY <1>1, <1>4, <1>7, StepOf, OpcodeDecides
<1>9. ~ArmsTimer(i) /\ ~Prints(i) /\ rs2_val(i) = regs[r]
  BY <1>1, <1>4, <1>5, <1>6 DEF ArmsTimer, Prints, rs2_val
<1> QED BY <1>4, <1>5, <1>8, <1>9 DEF Store, Retire, Moves

\* See EitherStores.
LEMMA EitherLoads ==
  ASSUME CInv, Step, NEW n \in {2, 4}, NEW r \in 1 .. 31, NEW rs \in Registers, NEW a,
         Names(rs, 0, a, 4), AtEither(enc_i(0, rs, 2, r, OP_LOAD), n)
  PROVE  /\ Moves /\ pc' = pc + n /\ regs' = [regs EXCEPT ![r] = SignExtended(Value(a, 4), 4)]
         /\ UNCHANGED <<mem, out>>
<1> DEFINE w == enc_i(0, rs, 2, r, OP_LOAD)
           i == Either(w, n)
<1>1. /\ w \in Fields /\ w.op = OP_LOAD /\ w.f3 = 2 /\ w.rs1 = rs /\ w.rd = r
      /\ Immediate(w) = 0
  <2>1. /\ 0 \in Int /\ -2048 <= 0 /\ 0 < 2048 /\ r \in Registers
        /\ 2 \in {0, 1, 2, 4, 5} /\ OP_LOAD \in {OP_LOAD, OP_LOAD_FP}
    BY RegisterNumbers
  <2> QED BY <2>1, LoadWord
<1>2. AtEither(w, n)
  OBVIOUS
<1> HIDE DEF w
<1>3. get_fmt(w.op) # "UNKNOWN"
  BY <1>1, Formats
<1>4. /\ Instruction = {i} /\ Following(i) = pc + n /\ ~FetchRefused
      /\ i.raw = w /\ i.imm = 0
  BY <1>1, <1>2, <1>3, EitherFetched
<1> HIDE DEF i
<1>5. /\ Target(i) = a /\ Width(i) = 4 /\ Aligned(i) /\ a \in Words /\ a + 4 <= MemSize
  BY <1>1, <1>4 DEF Target, rs1_val, Width, Aligned, Names
<1>6. /\ InMemory(a, 4) /\ ~OutOfMemory(a, 4)
      /\ a \notin {CSR_MMIO_UART, CLINT_MTIME_LO, CLINT_MTIMECMP_LO}
  BY <1>5, InsideMemory
<1>7. ~Faulty(i)
  BY <1>1, <1>4, <1>5, <1>6, Opcodes DEF Faulty, AccessRefused, SystemRefused
<1>8. Load(i) /\ mtime' = mtime + 1 /\ boot' = boot /\ state = "RUNNING"
  BY <1>1, <1>4, <1>7, StepOf, OpcodeDecides
<1>9. ~ReadsMtime(i) /\ LoadedInt(i) = SignExtended(Value(a, 4), 4)
  BY <1>1, <1>4, <1>5, <1>6 DEF ReadsMtime, LoadedInt
<1> QED BY <1>1, <1>4, <1>5, <1>8, <1>9, RegisterNumbers DEF Load, Retire, Moves, reg_write

\* ebreak
LEMMA EitherBreaks ==
  ASSUME CInv, Step, NEW n \in {2, 4}, AtEither(EBREAK, n)
  PROVE  /\ mtime' = mtime + 1 /\ boot' = boot /\ state' = "HALTED"
         /\ UNCHANGED <<regs, mem, out>>
<1> DEFINE w == EBREAK
           i == Either(w, n)
<1>1. w \in Fields /\ get_fmt(w.op) # "UNKNOWN" /\ w.op = OP_SYSTEM /\ w.f3 = 0 /\ w.f7 = 0
  BY EbreakIsWord DEF enc_i, enc_r
<1>2. AtEither(w, n)
  OBVIOUS
<1>3. w # ECALL
  BY DEF EBREAK, ECALL, Special, enc_i, enc_r
<1> HIDE DEF w
<1>4. /\ Instruction = {i} /\ ~FetchRefused /\ i.raw = w
  BY <1>1, <1>2, EitherFetched
<1> HIDE DEF i
<1>5. ~Faulty(i)
  BY <1>1, <1>4, Opcodes DEF Faulty, AccessRefused, SystemRefused, w
<1>6. Execute(i) /\ mtime' = mtime + 1 /\ boot' = boot
  BY <1>4, <1>5, StepOf
<1>7. System(i)
  BY <1>1, <1>4, <1>6, OpcodeDecides DEF CsrInstr
<1>8. Ebreak(i)
  BY <1>1, <1>3, <1>4, <1>7 DEF System, Exit, Write, UnknownService, Sfence, IsSfence
<1> QED BY <1>6, <1>7, <1>8 DEF System, Ebreak

\* sb to the UART.
LEMMA PrintRuns ==
  ASSUME CInv, Step, NEW r \in Registers, NEW rs \in Registers, regs[rs] = CSR_MMIO_UART,
         AtWord(enc_s(0, r, rs, 0, OP_STORE))
  PROVE  /\ Moves /\ pc' = pc + 4 /\ out' = Append(out, regs[r] % ByteSize)
         /\ UNCHANGED <<regs, mem>>
<1> DEFINE w == enc_s(0, r, rs, 0, OP_STORE)
           i == Either(w, 4)
<1>1. /\ w \in Fields /\ w.op = OP_STORE /\ w.f3 = 0 /\ w.rs1 = rs /\ w.rs2 = r
      /\ Immediate(w) = 0
  <2>1. /\ 0 \in Int /\ -2048 <= 0 /\ 0 < 2048
        /\ 0 \in {0, 1, 2, 4, 5} /\ OP_STORE \in {OP_STORE, OP_STORE_FP}
    OBVIOUS
  <2> QED BY <2>1, StoreWord
<1>2. AtEither(w, 4)
  BY DEF AtWord, AtEither, Lies
<1> HIDE DEF w
<1>3. get_fmt(w.op) # "UNKNOWN"
  BY <1>1, Formats
<1>4. /\ Instruction = {i} /\ Following(i) = pc + 4 /\ ~FetchRefused
      /\ i.raw = w /\ i.imm = 0
  BY <1>1, <1>2, <1>3, EitherFetched
<1> HIDE DEF i
<1>5. Target(i) = CSR_MMIO_UART
  <2>1. CSR_MMIO_UART + 0 = CSR_MMIO_UART /\ CSR_MMIO_UART \in Words
    BY Outside DEF Words
  <2> QED BY <1>1, <1>4, <2>1, WrapWord DEF Target, rs1_val
<1>6. Width(i) = 1 /\ Aligned(i)
  <2>1. Width(i) = 1
    BY <1>1, <1>4 DEF Width
  <2>2. CSR_MMIO_UART % 1 = 0
    BY Outside DEF Words
  <2> QED BY <1>5, <2>1, <2>2 DEF Aligned
<1>7. Prints(i) /\ ~ArmsTimer(i) /\ ~InMemory(Target(i), Width(i))
  BY <1>1, <1>4, <1>5, <1>6, Outside DEF Prints, ArmsTimer
<1>8. ~Faulty(i)
  BY <1>1, <1>4, <1>6, <1>7, Opcodes DEF Faulty, AccessRefused, SystemRefused
<1>9. Store(i) /\ mtime' = mtime + 1 /\ boot' = boot /\ state = "RUNNING"
  BY <1>1, <1>4, <1>8, StepOf, OpcodeDecides
<1>10. rs2_val(i) = regs[r]
  BY <1>1, <1>4 DEF rs2_val
<1> QED BY <1>4, <1>7, <1>9, <1>10 DEF Store, Retire, Moves

\* A word that was stored is what is loaded from there.
LEMMA StoredLoads ==
  ASSUME NEW a \in Int, NEW v \in Words, mem' = Stored(a, 4, v)
  PROVE  Value(a, 4)' = v
<1> DEFINE b == ByteSize
           q == XLEN \div 4
<1>1. \A j \in 0 .. 4 - 1 : Byte(a + j)' = (v \div Pow2[q * j]) % b
  BY StoredBytes
<1>2. /\ b \in Nat \ {0} /\ Pow2[XLEN \div 2] = b * b /\ Size = (b * b) * (b * b)
      /\ b * b \in Nat \ {0}
  BY ByteSizes
<1>3. v \in Nat /\ v < Size
  BY WordSizes
<1>4. /\ Byte(a)' = v % b /\ Byte(a + 1)' = (v \div b) % b
      /\ Byte(a + 2)' = (v \div (b * b)) % b
      /\ Byte(a + 3)' = (v \div (b * (b * b))) % b
  <2>1. /\ Pow2[q * 0] = 1 /\ Pow2[q * 1] = b /\ Pow2[q * 2] = b * b
        /\ Pow2[q * 3] = b * (b * b)
    <3>1. /\ q \in 0 .. XLEN /\ 2 * q \in 0 .. XLEN /\ 3 * q \in 0 .. XLEN /\ XLEN \in Nat
          /\ q * 0 = 0 /\ q * 1 = q /\ q * 2 = q + q /\ q * 3 = q + (q + q)
          /\ q + q \in 0 .. XLEN /\ q + (q + q) \in 0 .. XLEN /\ 0 \in 0 .. XLEN
      BY Widths
    <3>2. Pow2[q] = b
      BY DEF ByteSize
    <3> HIDE DEF q, b
    <3>3. Pow2[q + q] = Pow2[q] * Pow2[q]
      BY <3>1, PowerSum
    <3>4. Pow2[q + (q + q)] = Pow2[q] * Pow2[q + q]
      BY <3>1, PowerSum
    <3>5. Pow2[0] = 1
      BY SmallPowers
    <3> QED BY <3>1, <3>2, <3>3, <3>4, <3>5
  <2>2. a + 0 = a /\ v \div 1 = v
    BY <1>3
  <2>3. 0 \in 0 .. 4 - 1 /\ 1 \in 0 .. 4 - 1 /\ 2 \in 0 .. 4 - 1 /\ 3 \in 0 .. 4 - 1
    OBVIOUS
  <2> HIDE DEF b, q
  <2> QED BY <1>1, <2>1, <2>2, <2>3
<1> HIDE DEF b
<1>5. b = ByteSize
  BY DEF b
<1>6. Value(a, 4)' = Byte(a)' + b * Byte(a + 1)' + (b * b) * (Byte(a + 2)' + b * Byte(a + 3)')
  BY <1>2, <1>5 DEF Value
<1> DEFINE v1 == v \div b
           v2 == v1 \div b
           v3 == v2 \div b
<1>7. /\ v = b * v1 + (v % b) /\ v1 = b * v2 + (v1 % b) /\ v2 = b * v3 + (v2 % b)
      /\ v1 \in Nat /\ v2 \in Nat /\ v3 \in Nat
      /\ v % b \in Nat /\ v1 % b \in Nat /\ v2 % b \in Nat
  <2>1. \A x \in Nat : x \div b \in Nat /\ x % b \in 0 .. b - 1 /\ x = b * (x \div b) + (x % b)
    BY <1>2
  <2> QED BY <1>3, <2>1
<1> DEFINE d0 == v % b
           d1 == v1 % b
           d2 == v2 % b
           C  == b * b
<1>8. /\ v = b * v1 + d0 /\ v1 = b * v2 + d1 /\ v2 = b * v3 + d2
      /\ v1 \in Nat /\ v2 \in Nat /\ v3 \in Nat /\ v \in Nat /\ b \in Nat \ {0} /\ C = b * b
      /\ d0 \in 0 .. b - 1 /\ d1 \in 0 .. b - 1 /\ d2 \in 0 .. b - 1 /\ v < C * C
      /\ C \in Nat \ {0}
  BY <1>2, <1>3, <1>7
<1>9. Value(a, 4)' = d0 + b * (v1 % b) + C * (((v \div C) % b) + b * ((v \div (b * C)) % b))
  BY <1>4, <1>6
<1> HIDE DEF v1, v2, v3, d0, d1, d2, C
<1>10. v \div C = v2
  <2>1. d0 + b * d1 \in 0 .. b * b - 1
    BY ONLY <1>8, TwoDigits
  <2>2. v = C * v2 + (d0 + b * d1)
    BY ONLY <1>8
  <2>3. d0 + b * d1 \in 0 .. C - 1
    BY ONLY <1>8, <2>1
  <2> DEFINE r == d0 + b * d1
  <2>4. C \in Nat \ {0} /\ v2 \in Int /\ r \in 0 .. C - 1 /\ v = C * v2 + r
    BY ONLY <1>8, <2>2, <2>3
  <2> HIDE DEF r
  <2> QED BY ONLY <2>4, DivisionUnique
<1>11. v \div (b * C) = v3
  <2>1. d0 + b * d1 \in 0 .. b * b - 1
    BY ONLY <1>8, TwoDigits
  <2>2. (d0 + b * d1) + C * d2 \in 0 .. C * b - 1
    BY ONLY <1>8, <2>1, TwoDigits
  <2>3. v = (b * C) * v3 + ((d0 + b * d1) + C * d2)
    BY ONLY <1>8
  <2>4. C * b = b * C /\ b * C \in Nat \ {0}
    BY ONLY <1>8
  <2> DEFINE r == (d0 + b * d1) + C * d2
             P == b * C
  <2>5. P \in Nat \ {0} /\ v3 \in Int /\ r \in 0 .. P - 1 /\ v = P * v3 + r
    BY ONLY <1>8, <2>2, <2>3, <2>4
  <2> HIDE DEF r, P
  <2>6. v \div P = v3
    BY ONLY <2>5, DivisionUnique
  <2> QED BY ONLY <2>6 DEF P
<1>12. v3 < b
  <2>1. CASE v3 >= b
    <3>1. v2 >= b * v3 /\ b * v3 >= b * b
      BY ONLY <1>8, <2>1
    <3>2. v1 >= b * v2 /\ b * v2 >= b * C
      BY ONLY <1>8, <3>1
    <3>3. v >= b * v1 /\ b * v1 >= b * (b * C)
      BY ONLY <1>8, <3>2
    <3>4. b * (b * C) = C * C
      BY ONLY <1>8
    <3> QED BY ONLY <1>8, <3>3, <3>4
  <2> QED BY ONLY <1>8, <2>1
<1>13. v3 % b = v3
  BY ONLY <1>8, <1>12
<1>14. Value(a, 4)' = d0 + b * d1 + C * (d2 + b * v3)
  BY ONLY <1>9, <1>10, <1>11, <1>13 DEF d1, d2
<1> QED BY ONLY <1>8, <1>14

-----------------------------------------------------------------------------
\* The program that calls.

\* A 16-bit item, and an item of either length, are where they are placed.
LEMMA NextShort ==
  ASSUME NEW items, NEW base \in Int, NEW k \in Int, NEW n \in Int, NEW h,
         ItemAt(items, base, k, n), k <= Len(items), items[k] = Short(h)
  PROVE  LET c == assemble(items, base) IN
         /\ base + n \in DOMAIN c /\ c[base + n] = h
         /\ ItemAt(items, base, k + 1, n + 2)
<1> DEFINE p == AddressOf(items, base, k)
           c == assemble(items, base)
<1>1. items[k].kind = "half" /\ items[k].half = h
  BY DEF Short
<1>2. /\ Len(items) \in Nat /\ k \in 1 .. Len(items) /\ k + 1 \in 1 .. Len(items) + 1
      /\ base \in Int /\ p = base + n /\ n \in Int
  BY DEF ItemAt
<1>3. HalfCount(items[k]) = 1 /\ SizeOf(items[k]) = 2
  BY <1>1 DEF HalfCount, SizeOf
<1>4. HasHalves(c, p, <<h>>, 1)
  <2>1. CodeOf(items, base, k) = <<h>>
    BY <1>1 DEF CodeOf, Encoded
  <2>2. HasHalves(c, p, CodeOf(items, base, k), HalfCount(items[k]))
    BY <1>2, AssembleIs
  <2> QED BY <1>3, <2>1, <2>2
<1>5. AddressOf(items, base, k + 1) = p + 2
  BY <1>2, <1>3, PlacedIs
<1> HIDE DEF p, c
<1>6. p + 2 * (1 - 1) = p /\ 1 \in 1 .. 1 /\ <<h>>[1] = h
  BY <1>2
<1>7. p \in DOMAIN c /\ c[p] = h
  BY <1>4, <1>6 DEF HasHalves
<1>8. p + 2 = base + (n + 2) /\ n + 2 \in Int
  BY <1>2
<1>9. ItemAt(items, base, k + 1, n + 2)
  BY <1>2, <1>5, <1>8 DEF ItemAt, p
<1> QED BY <1>2, <1>7, <1>9 DEF c

\* The bytes of an instruction that may be compressed, and its item.
LengthOf(compressed) == IF compressed THEN 2 ELSE 4

ShortOr(short, h, w) == IF short THEN Short(h) ELSE Word(w)

\* See NextShort.
LEMMA NextEither ==
  ASSUME NEW items, NEW base \in Int, NEW k \in Int, NEW n \in Int, NEW h \in Int, NEW w,
         NEW short \in BOOLEAN, ItemAt(items, base, k, n), k <= Len(items),
         items[k] = ShortOr(short, h, w),
         h % 4 # 3, expand_compressed(h) = {w}
  PROVE  /\ Lies(assemble(items, base), base + n, w, LengthOf(short))
         /\ ItemAt(items, base, k + 1, n + LengthOf(short))
<1>1. CASE short
  <2>1. items[k] = Short(h) /\ LengthOf(short) = 2
    BY <1>1 DEF LengthOf, ShortOr
  <2> DEFINE c == assemble(items, base)
  <2>2. base + n \in DOMAIN c /\ c[base + n] = h /\ ItemAt(items, base, k + 1, n + 2)
    BY <2>1, NextShort
  <2> HIDE DEF c
  <2>3. Lies(c, base + n, w, 2)
    BY <2>2 DEF Lies
  <2> QED BY <2>1, <2>2, <2>3 DEF c
<1>2. CASE ~short
  <2>1. items[k] = Word(w) /\ LengthOf(short) = 4
    BY <1>2 DEF LengthOf, ShortOr
  <2> QED BY <2>1, NextWord DEF Lies
<1> QED BY <1>1, <1>2

\* A jump is where it is placed, with the distance to its label.
LEMMA NextJump ==
  ASSUME NEW items, NEW base \in Int, NEW k \in Int, NEW n \in Int, NEW rd,
         NEW name, NEW k0, NEW m \in Int, ItemAt(items, base, k, n), k <= Len(items),
         items[k] = jal(rd, name), Labels(items, name, k0), ItemAt(items, base, k0, m)
  PROVE  Holds(assemble(items, base), base + n, enc_j(m - n, rd, OP_JAL))
<1> DEFINE p == AddressOf(items, base, k)
           c == assemble(items, base)
           w == enc_j(m - n, rd, OP_JAL)
<1>1. items[k].kind = "jal" /\ items[k].to = name /\ items[k].rd = rd
  BY DEF jal
<1>2. /\ Len(items) \in Nat /\ k \in 1 .. Len(items) /\ base \in Int /\ p = base + n /\ n \in Int
  BY DEF ItemAt
<1>3. AddressOf(items, base, k0) = base + m
  BY DEF ItemAt
<1>4. Addresses(items, base)[name] - p = m - n
  BY <1>2, <1>3, LabelFound
<1>5. HalfCount(items[k]) = 2
  BY <1>1 DEF HalfCount
<1>6. HasHalves(c, p, Halves(w), 2)
  <2>1. CodeOf(items, base, k) = Halves(w)
    BY <1>1, <1>4 DEF CodeOf, Encoded
  <2>2. HasHalves(c, p, CodeOf(items, base, k), HalfCount(items[k]))
    BY <1>2, AssembleIs
  <2> QED BY <1>5, <2>1, <2>2
<1> HIDE DEF p, c, w
<1>7. p + 2 * (1 - 1) = p /\ p + 2 * (2 - 1) = p + 2
  BY <1>2
<1>8. 1 \in 1 .. 2 /\ 2 \in 1 .. 2
  OBVIOUS
<1>9. Holds(c, p, w)
  BY <1>6, <1>7, <1>8 DEF Holds, HasHalves
<1> QED BY <1>2, <1>9 DEF p, c, w

\* and what follows it is placed wherever the label is.
LEMMA PastJump ==
  ASSUME NEW items, NEW base \in Int, NEW k \in Int, NEW n \in Int, NEW rd,
         NEW name, ItemAt(items, base, k, n), k <= Len(items), items[k] = jal(rd, name)
  PROVE  ItemAt(items, base, k + 1, n + 4)
<1>1. SizeOf(items[k]) = 4
  BY DEF jal, SizeOf
<1>2. /\ Len(items) \in Nat /\ k \in 1 .. Len(items) /\ k + 1 \in 1 .. Len(items) + 1
      /\ base \in Int /\ AddressOf(items, base, k) = base + n /\ n \in Int
      /\ k \in 1 .. Len(items) + 1
  BY DEF ItemAt
<1>3. AddressOf(items, base, k + 1) = AddressOf(items, base, k) + SizeOf(items[k])
  BY ONLY <1>2, PlacedIs
<1>4. AddressOf(items, base, k + 1) = base + (n + 4)
  BY ONLY <1>1, <1>2, <1>3
<1> QED BY ONLY <1>2, <1>4 DEF ItemAt

\* What the program's 16-bit instructions stand for.
CallWord  == enc_i(0, T1, 0, RA, OP_JALR)
RetWord   == enc_i(0, RA, 0, 0, OP_JALR)
GrowWord  == enc_i(-4, SP, 0, SP, OP_ALUI)
SaveWord  == enc_s(0, RA, SP, 2, OP_STORE)
FetchWord == enc_i(0, SP, 2, RA, OP_LOAD)
DropWord  == enc_i(4, SP, 0, SP, OP_ALUI)

\* expand_compressed gives them.
LEMMA ShortForms ==
  /\ 36866 + T1 * 128 = 37634 /\ expand_compressed(37634) = {CallWord}
  /\ 32770 + RA * 128 = 32898 /\ expand_compressed(32898) = {RetWord}
  /\ c_addi(SP, -4) = 4465 /\ expand_compressed(4465) = {GrowWord}
  /\ 49154 + RA * 4 = 49158 /\ expand_compressed(49158) = {SaveWord}
  /\ 16386 + RA * 128 = 16514 /\ expand_compressed(16514) = {FetchWord}
  /\ c_addi(SP, 4) = 273 /\ expand_compressed(273) = {DropWord}
  /\ c_ebreak = 36866 /\ expand_compressed(36866) = {EBREAK}
<1>1. /\ T1 = 6 /\ RA = 1 /\ SP = 2
  BY Named
<1>2. /\ 36866 + T1 * 128 = 37634 /\ 32770 + RA * 128 = 32898 /\ 49154 + RA * 4 = 49158
      /\ 16386 + RA * 128 = 16514 /\ c_addi(SP, 4) = 273 /\ c_ebreak = 36866
      /\ c_addi(SP, -4) = 4465
  <2>1. 36866 + T1 * 128 = 37634 /\ 32770 + RA * 128 = 32898 /\ 49154 + RA * 4 = 49158
    BY <1>1
  <2>2. ((-4) \div 32) % 2 = 1 /\ (-4) % 32 = 28 /\ (4 \div 32) % 2 = 0 /\ 4 % 32 = 4
    <3>1. (-4) \div 32 = -1 /\ (-4) % 32 = 28
      <4> DEFINE d == 32
                 q == -1
                 r == 28
                 x == -4
      <4>1. d \in Nat \ {0} /\ q \in Int /\ r \in 0 .. d - 1 /\ x = d * q + r
        OBVIOUS
      <4> HIDE DEF d, q, r, x
      <4>2. x \div d = q /\ x % d = r
        BY ONLY <4>1, DivisionUnique
      <4> QED BY ONLY <4>2 DEF d, q, r, x
    <3>2. (-1) % 2 = 1
      <4> DEFINE d == 2
                 q == -1
                 r == 1
                 x == -1
      <4>1. d \in Nat \ {0} /\ q \in Int /\ r \in 0 .. d - 1 /\ x = d * q + r
        OBVIOUS
      <4> HIDE DEF d, q, r, x
      <4>2. x \div d = q /\ x % d = r
        BY ONLY <4>1, DivisionUnique
      <4> QED BY ONLY <4>2 DEF d, q, r, x
    <3>3. 4 \div 32 = 0 /\ 0 % 2 = 0 /\ 4 % 32 = 4
      OBVIOUS
    <3> QED BY <3>1, <3>2, <3>3
  <2>3. c_addi(SP, -4) = 4465
    BY <1>1, <2>2 DEF c_addi, c_i
  <2>4. c_addi(SP, 4) = 273
    BY <1>1, <2>2 DEF c_addi, c_i
  <2> QED BY <1>1, <2>1, <2>3, <2>4 DEF c_ebreak
<1>3. expand_compressed(37634) = {CallWord}
  <2> DEFINE c == 37634
  <2>1. /\ C_OP(c) = 2 /\ C_F3(c) = 4 /\ C_RD(c) = 6 /\ C_RS2(c) = 0 /\ Part(c, 4096, 2) = 1
    BY DEF C_OP, C_F3, C_RD, C_RS2, Part
  <2> HIDE DEF c
  <2>2. Quadrant2(c) = {enc_i(0, 6, 0, 1, OP_JALR)}
    BY <2>1 DEF Quadrant2, Row
  <2> QED BY <1>1, <2>1, <2>2 DEF expand_compressed, CallWord, c
<1>4. expand_compressed(32898) = {RetWord}
  <2> DEFINE c == 32898
  <2>1. /\ C_OP(c) = 2 /\ C_F3(c) = 4 /\ C_RD(c) = 1 /\ C_RS2(c) = 0 /\ Part(c, 4096, 2) = 0
    BY DEF C_OP, C_F3, C_RD, C_RS2, Part
  <2> HIDE DEF c
  <2>2. Quadrant2(c) = {enc_i(0, 1, 0, 0, OP_JALR)}
    BY <2>1 DEF Quadrant2, Row
  <2> QED BY <1>1, <2>1, <2>2 DEF expand_compressed, RetWord, c
<1>5. expand_compressed(4465) = {GrowWord}
  <2> DEFINE c == 4465
  <2>1. C_OP(c) = 1 /\ C_F3(c) = 0 /\ C_RD(c) = 2 /\ c_imm6(c) = 60
    BY DEF C_OP, C_F3, C_RD, c_imm6, Part
  <2>2. Sext(60, 32) = -4
    BY DEF Sext
  <2> HIDE DEF c
  <2>3. Quadrant1(c) = {enc_i(-4, 2, 0, 2, OP_ALUI)}
    BY <2>1, <2>2 DEF Quadrant1, Row
  <2> QED BY <1>1, <2>1, <2>3 DEF expand_compressed, GrowWord, c
<1>6. expand_compressed(49158) = {SaveWord}
  <2> DEFINE c == 49158
  <2>1. C_OP(c) = 2 /\ C_F3(c) = 6 /\ C_RS2(c) = 1 /\ c_uimm_swsp(c) = 0
    BY DEF C_OP, C_F3, C_RS2, c_uimm_swsp, Part
  <2> HIDE DEF c
  <2>2. Quadrant2(c) = {enc_s(0, 1, 2, 2, OP_STORE)}
    BY <2>1 DEF Quadrant2, Row
  <2> QED BY <1>1, <2>1, <2>2 DEF expand_compressed, SaveWord, c
<1>7. expand_compressed(16514) = {FetchWord}
  <2> DEFINE c == 16514
  <2>1. C_OP(c) = 2 /\ C_F3(c) = 2 /\ C_RD(c) = 1 /\ c_uimm_lwsp(c) = 0
    BY DEF C_OP, C_F3, C_RD, c_uimm_lwsp, Part
  <2> HIDE DEF c
  <2>2. Quadrant2(c) = {enc_i(0, 2, 2, 1, OP_LOAD)}
    BY <2>1 DEF Quadrant2, Row
  <2> QED BY <1>1, <2>1, <2>2 DEF expand_compressed, FetchWord, c
<1>8. expand_compressed(273) = {DropWord}
  <2> DEFINE c == 273
  <2>1. C_OP(c) = 1 /\ C_F3(c) = 0 /\ C_RD(c) = 2 /\ c_imm6(c) = 4
    BY DEF C_OP, C_F3, C_RD, c_imm6, Part
  <2>2. Sext(4, 32) = 4
    BY DEF Sext
  <2> HIDE DEF c
  <2>3. Quadrant1(c) = {enc_i(4, 2, 0, 2, OP_ALUI)}
    BY <2>1, <2>2 DEF Quadrant1, Row
  <2> QED BY <1>1, <2>1, <2>3 DEF expand_compressed, DropWord, c
<1>9. expand_compressed(36866) = {EBREAK}
  <2> DEFINE c == 36866
  <2>1. /\ C_OP(c) = 2 /\ C_F3(c) = 4 /\ C_RD(c) = 0 /\ C_RS2(c) = 0 /\ Part(c, 4096, 2) = 1
    BY DEF C_OP, C_F3, C_RD, C_RS2, Part
  <2> HIDE DEF c
  <2>2. Quadrant2(c) = {enc_i(1, 0, 0, 0, OP_SYSTEM)}
    BY <2>1 DEF Quadrant2, Row
  <2> QED BY <2>1, <2>2, EbreakIsWord DEF expand_compressed, c
<1> QED BY <1>2, <1>3, <1>4, <1>5, <1>6, <1>7, <1>8, <1>9

\* The other words of the program.
SetWord(j) == enc_i(j, 0, 0, T0, OP_ALUI)
OutWord    == enc_s(0, T0, S2, 0, OP_STORE)

\* One sequence follows another of the same kind of elements.
LEMMA JoinOn ==
  ASSUME NEW S, NEW a \in Seq(S), NEW b \in Seq(S), NEW n \in Nat, NEW m \in Nat,
         Len(a) = n, Len(b) = m
  PROVE  a \o b \in Seq(S) /\ IsJoin(a \o b, a, n, b, m)
BY ConcatProperties, Appended

\* The items of the program.
LEMMA CallsItems ==
  ASSUME NEW cm \in BOOLEAN, NEW cf \in BOOLEAN, NEW cg \in BOOLEAN, TEXT \in Nat
  PROVE  /\ Len(calls(cm, cf, cg)) = 25
         /\ calls(cm, cf, cg)[1] = jal(0, "main")
         /\ calls(cm, cf, cg)[2] = Word(SetWord(3))
         /\ calls(cm, cf, cg)[3] = Word(OutWord)
         /\ calls(cm, cf, cg)[4] = ShortOr(cg, 32898, RetWord)
         /\ calls(cm, cf, cg)[5] = ShortOr(cf, 4465, GrowWord)
         /\ calls(cm, cf, cg)[6] = ShortOr(cf, 49158, SaveWord)
         /\ calls(cm, cf, cg)[7] = Word(SetWord(2))
         /\ calls(cm, cf, cg)[8] = Word(OutWord)
         /\ calls(cm, cf, cg)[9] = li32(T1, TEXT + 4)
         /\ calls(cm, cf, cg)[10] = ShortOr(cf, 37634, CallWord)
         /\ calls(cm, cf, cg)[11] = Word(SetWord(4))
         /\ calls(cm, cf, cg)[12] = Word(OutWord)
         /\ calls(cm, cf, cg)[13] = ShortOr(cf, 16514, FetchWord)
         /\ calls(cm, cf, cg)[14] = ShortOr(cf, 273, DropWord)
         /\ calls(cm, cf, cg)[15] = ShortOr(cf, 32898, RetWord)
         /\ calls(cm, cf, cg)[16] = Label("main")
         /\ calls(cm, cf, cg)[17] = li32(SP, DATA + 64)
         /\ calls(cm, cf, cg)[18] = li32(S2, CSR_MMIO_UART)
         /\ calls(cm, cf, cg)[19] = Word(SetWord(1))
         /\ calls(cm, cf, cg)[20] = Word(OutWord)
         /\ calls(cm, cf, cg)[21] = li32(T1, TEXT + (12 + LengthOf(cg)))
         /\ calls(cm, cf, cg)[22] = ShortOr(cm, 37634, CallWord)
         /\ calls(cm, cf, cg)[23] = Word(SetWord(5))
         /\ calls(cm, cf, cg)[24] = Word(OutWord)
         /\ calls(cm, cf, cg)[25] = ShortOr(cm, 36866, EBREAK)
<1> DEFINE x1 == jal(0, "main")
           x2 == Word(SetWord(3))
           x3 == Word(OutWord)
           x4 == ShortOr(cg, 32898, RetWord)
           x5 == ShortOr(cf, 4465, GrowWord)
           x6 == ShortOr(cf, 49158, SaveWord)
           x7 == Word(SetWord(2))
           x8 == Word(OutWord)
           x9 == li32(T1, TEXT + 4)
           x10 == ShortOr(cf, 37634, CallWord)
           x11 == Word(SetWord(4))
           x12 == Word(OutWord)
           x13 == ShortOr(cf, 16514, FetchWord)
           x14 == ShortOr(cf, 273, DropWord)
           x15 == ShortOr(cf, 32898, RetWord)
           x16 == Label("main")
           x17 == li32(SP, DATA + 64)
           x18 == li32(S2, CSR_MMIO_UART)
           x19 == Word(SetWord(1))
           x20 == Word(OutWord)
           x21 == li32(T1, TEXT + (12 + LengthOf(cg)))
           x22 == ShortOr(cm, 37634, CallWord)
           x23 == Word(SetWord(5))
           x24 == Word(OutWord)
           x25 == ShortOr(cm, 36866, EBREAK)
           S == {x1, x2, x3, x4, x5, x6, x7, x8, x9, x10, x11, x12, x13,
             x14, x15, x16, x17, x18, x19, x20, x21, x22, x23, x24, x25}
           p1 == <<x1>>
           p2 == <<x2, x3>>
           p3 == <<x4>>
           p4 == <<x5, x6>>
           p5 == <<x7, x8>>
           p6 == <<x9, x10>>
           p7 == <<x11, x12>>
           p8 == <<x13, x14>>
           p9 == <<x15>>
           p10 == <<x16, x17, x18>>
           p11 == <<x19, x20>>
           p12 == <<x21, x22>>
           p13 == <<x23, x24>>
           p14 == <<x25>>
<1>1. /\ \A short \in BOOLEAN : /\ ret(short) = ShortOr(short, 32898, RetWord)
                                /\ call(short, T1) = ShortOr(short, 37634, CallWord)
      /\ \A n : say(n) = <<Word(SetWord(n)), Word(OutWord)>>
  BY ShortForms DEF ret, call, say, jalr, RetWord, CallWord, ShortOr, li, addi, sb, store,
     SetWord, OutWord
<1>2. /\ push(cf) = p4 /\ pop(cf) = p8
  <2>1. CASE cf
    BY <2>1, ShortForms DEF push, pop, ShortOr
  <2>2. CASE ~cf
    BY <2>2 DEF push, pop, ShortOr, addi, sw, lw, store, load, GrowWord, SaveWord, FetchWord,
       DropWord
  <2> QED BY <2>1, <2>2
<1>3. (IF cm THEN <<Short(c_ebreak)>> ELSE <<ebreak>>) = p14
  BY ShortForms, EbreakIsWord DEF ebreak, system, ShortOr
<1>4. TEXT + 4 + 8 + (IF cg THEN 2 ELSE 4) = TEXT + (12 + LengthOf(cg))
  BY DEF LengthOf
<1>5. calls(cm, cf, cg) =
        p1 \o p2 \o p3 \o p4 \o p5 \o p6 \o p7 \o p8 \o p9 \o p10 \o p11 \o p12 \o p13 \o p14
  <2>1. /\ ret(cg) = x4 /\ ret(cf) = x15 /\ call(cf, T1) = x10 /\ call(cm, T1) = x22
        /\ say(1) = p11 /\ say(2) = p5 /\ say(3) = p2 /\ say(4) = p7 /\ say(5) = p13
    BY <1>1
  <2>2. li32(T1, TEXT + 4 + 8 + (IF cg THEN 2 ELSE 4)) = x21
    BY <1>4
  <2>3. calls(cm, cf, cg) =
          <<jal(0, "main")>> \o say(3) \o <<ret(cg)>> \o push(cf) \o say(2)
          \o <<li32(T1, TEXT + 4), call(cf, T1)>> \o say(4) \o pop(cf) \o <<ret(cf)>>
          \o <<Label("main"), li32(SP, DATA + 64), li32(S2, CSR_MMIO_UART)>>
          \o say(1) \o <<li32(T1, TEXT + 4 + 8 + (IF cg THEN 2 ELSE 4)), call(cm, T1)>> \o say(5)
          \o (IF cm THEN <<Short(c_ebreak)>> ELSE <<ebreak>>)
    BY ONLY DEF calls
  <2>4. /\ <<jal(0, "main")>> = p1 /\ <<ret(cg)>> = p3 /\ <<li32(T1, TEXT + 4), call(cf, T1)>> = p6
        /\ <<ret(cf)>> = p9 /\ <<Label("main"), li32(SP, DATA + 64), li32(S2, CSR_MMIO_UART)>> = p10
        /\ <<li32(T1, TEXT + 4 + 8 + (IF cg THEN 2 ELSE 4)), call(cm, T1)>> = p12
    BY <2>1, <2>2
  <2>5. /\ say(1) = p11 /\ say(2) = p5 /\ say(3) = p2 /\ say(4) = p7 /\ say(5) = p13
        /\ push(cf) = p4 /\ pop(cf) = p8
    BY <1>2, <2>1
  <2>6. (IF cm THEN <<Short(c_ebreak)>> ELSE <<ebreak>>) = p14
    BY <1>3
  <2> HIDE DEF p1, p2, p3, p4, p5, p6, p7, p8, p9, p10, p11, p12, p13, p14
  <2> QED BY ONLY <2>3, <2>4, <2>5, <2>6
<1> HIDE DEF x1, x2, x3, x4, x5, x6, x7, x8, x9, x10, x11, x12, x13, x14, x15, x16, x17, x18,
   x19, x20, x21, x22, x23, x24, x25
<1>6. /\ p1 \in Seq(S) /\ Len(p1) = 1 /\ p2 \in Seq(S) /\ Len(p2) = 2 /\ p3 \in Seq(S)
      /\ Len(p3) = 1
      /\ p4 \in Seq(S) /\ Len(p4) = 2 /\ p5 \in Seq(S) /\ Len(p5) = 2 /\ p6 \in Seq(S)
      /\ Len(p6) = 2
      /\ p7 \in Seq(S) /\ Len(p7) = 2 /\ p8 \in Seq(S) /\ Len(p8) = 2 /\ p9 \in Seq(S)
      /\ Len(p9) = 1
      /\ p10 \in Seq(S) /\ Len(p10) = 3 /\ p11 \in Seq(S) /\ Len(p11) = 2 /\ p12 \in Seq(S)
      /\ Len(p12) = 2
      /\ p13 \in Seq(S) /\ Len(p13) = 2 /\ p14 \in Seq(S) /\ Len(p14) = 1
  OBVIOUS
<1>7. /\ p1[1] = x1
      /\ p2[1] = x2 /\ p2[2] = x3
      /\ p3[1] = x4
      /\ p4[1] = x5 /\ p4[2] = x6
      /\ p5[1] = x7 /\ p5[2] = x8
      /\ p6[1] = x9 /\ p6[2] = x10
      /\ p7[1] = x11 /\ p7[2] = x12
      /\ p8[1] = x13 /\ p8[2] = x14
      /\ p9[1] = x15
      /\ p10[1] = x16 /\ p10[2] = x17 /\ p10[3] = x18
      /\ p11[1] = x19 /\ p11[2] = x20
      /\ p12[1] = x21 /\ p12[2] = x22
      /\ p13[1] = x23 /\ p13[2] = x24
      /\ p14[1] = x25
  OBVIOUS
<1> HIDE DEF S, p1, p2, p3, p4, p5, p6, p7, p8, p9, p10, p11, p12, p13, p14
<1> DEFINE c1 == p1
           c2 == c1 \o p2
           c3 == c2 \o p3
           c4 == c3 \o p4
           c5 == c4 \o p5
           c6 == c5 \o p6
           c7 == c6 \o p7
           c8 == c7 \o p8
           c9 == c8 \o p9
           c10 == c9 \o p10
           c11 == c10 \o p11
           c12 == c11 \o p12
           c13 == c12 \o p13
           c14 == c13 \o p14
<1>8. c1 \in Seq(S) /\ Len(c1) = 1 /\ c1[1] = x1
  BY ONLY <1>6, <1>7
<1>9. /\ c2 \in Seq(S) /\ Len(c2) = 3
      /\ c2[1] = x1 /\ c2[2] = x2 /\ c2[3] = x3
  <2> HIDE DEF c1
  <2>1. /\ c2 \in Seq(S) /\ Len(c2) = 1 + 2
        /\ \A i \in 1 .. 1 : c2[i] = c1[i]
        /\ \A i \in 1 .. 2 : c2[1 + i] = p2[i]
    <3>1. c1 \in Seq(S) /\ Len(c1) = 1 /\ p2 \in Seq(S) /\ Len(p2) = 2 /\ 1 \in Nat /\ 2 \in Nat
      BY ONLY <1>6, <1>8
    <3>2. c2 \in Seq(S) /\ IsJoin(c2, c1, 1, p2, 2)
      BY ONLY <3>1, JoinOn
    <3> HIDE DEF c2
    <3> QED BY ONLY <3>2 DEF IsJoin
  <2> HIDE DEF c2
  <2>2. /\ 1 \in 1 .. 1
        /\ 1 \in 1 .. 2 /\ 1 + 1 = 2 /\ 2 \in 1 .. 2 /\ 1 + 2 = 3 /\ 1 + 2 = 3
    OBVIOUS
  <2> QED BY ONLY <1>7, <1>8, <2>1, <2>2
<1>10. /\ c3 \in Seq(S) /\ Len(c3) = 4
      /\ c3[1] = x1 /\ c3[2] = x2 /\ c3[3] = x3 /\ c3[4] = x4
  <2> HIDE DEF c2
  <2>1. /\ c3 \in Seq(S) /\ Len(c3) = 3 + 1
        /\ \A i \in 1 .. 3 : c3[i] = c2[i]
        /\ \A i \in 1 .. 1 : c3[3 + i] = p3[i]
    <3>1. c2 \in Seq(S) /\ Len(c2) = 3 /\ p3 \in Seq(S) /\ Len(p3) = 1 /\ 3 \in Nat /\ 1 \in Nat
      BY ONLY <1>6, <1>9
    <3>2. c3 \in Seq(S) /\ IsJoin(c3, c2, 3, p3, 1)
      BY ONLY <3>1, JoinOn
    <3> HIDE DEF c3
    <3> QED BY ONLY <3>2 DEF IsJoin
  <2> HIDE DEF c3
  <2>2. /\ 1 \in 1 .. 3 /\ 2 \in 1 .. 3 /\ 3 \in 1 .. 3
        /\ 1 \in 1 .. 1 /\ 3 + 1 = 4 /\ 3 + 1 = 4
    OBVIOUS
  <2> QED BY ONLY <1>7, <1>9, <2>1, <2>2
<1>11. /\ c4 \in Seq(S) /\ Len(c4) = 6
      /\ c4[1] = x1 /\ c4[2] = x2 /\ c4[3] = x3 /\ c4[4] = x4 /\ c4[5] = x5
      /\ c4[6] = x6
  <2> HIDE DEF c3
  <2>1. /\ c4 \in Seq(S) /\ Len(c4) = 4 + 2
        /\ \A i \in 1 .. 4 : c4[i] = c3[i]
        /\ \A i \in 1 .. 2 : c4[4 + i] = p4[i]
    <3>1. c3 \in Seq(S) /\ Len(c3) = 4 /\ p4 \in Seq(S) /\ Len(p4) = 2 /\ 4 \in Nat /\ 2 \in Nat
      BY ONLY <1>6, <1>10
    <3>2. c4 \in Seq(S) /\ IsJoin(c4, c3, 4, p4, 2)
      BY ONLY <3>1, JoinOn
    <3> HIDE DEF c4
    <3> QED BY ONLY <3>2 DEF IsJoin
  <2> HIDE DEF c4
  <2>2. /\ 1 \in 1 .. 4 /\ 2 \in 1 .. 4 /\ 3 \in 1 .. 4 /\ 4 \in 1 .. 4
        /\ 1 \in 1 .. 2 /\ 4 + 1 = 5 /\ 2 \in 1 .. 2 /\ 4 + 2 = 6 /\ 4 + 2 = 6
    OBVIOUS
  <2> QED BY ONLY <1>7, <1>10, <2>1, <2>2
<1>12. /\ c5 \in Seq(S) /\ Len(c5) = 8
      /\ c5[1] = x1 /\ c5[2] = x2 /\ c5[3] = x3 /\ c5[4] = x4 /\ c5[5] = x5
      /\ c5[6] = x6 /\ c5[7] = x7 /\ c5[8] = x8
  <2> HIDE DEF c4
  <2>1. /\ c5 \in Seq(S) /\ Len(c5) = 6 + 2
        /\ \A i \in 1 .. 6 : c5[i] = c4[i]
        /\ \A i \in 1 .. 2 : c5[6 + i] = p5[i]
    <3>1. c4 \in Seq(S) /\ Len(c4) = 6 /\ p5 \in Seq(S) /\ Len(p5) = 2 /\ 6 \in Nat /\ 2 \in Nat
      BY ONLY <1>6, <1>11
    <3>2. c5 \in Seq(S) /\ IsJoin(c5, c4, 6, p5, 2)
      BY ONLY <3>1, JoinOn
    <3> HIDE DEF c5
    <3> QED BY ONLY <3>2 DEF IsJoin
  <2> HIDE DEF c5
  <2>2. /\ 1 \in 1 .. 6 /\ 2 \in 1 .. 6 /\ 3 \in 1 .. 6 /\ 4 \in 1 .. 6 /\ 5 \in 1 .. 6
        /\ 6 \in 1 .. 6
        /\ 1 \in 1 .. 2 /\ 6 + 1 = 7 /\ 2 \in 1 .. 2 /\ 6 + 2 = 8 /\ 6 + 2 = 8
    OBVIOUS
  <2> QED BY ONLY <1>7, <1>11, <2>1, <2>2
<1>13. /\ c6 \in Seq(S) /\ Len(c6) = 10
      /\ c6[1] = x1 /\ c6[2] = x2 /\ c6[3] = x3 /\ c6[4] = x4 /\ c6[5] = x5
      /\ c6[6] = x6 /\ c6[7] = x7 /\ c6[8] = x8 /\ c6[9] = x9 /\ c6[10] = x10
  <2> HIDE DEF c5
  <2>1. /\ c6 \in Seq(S) /\ Len(c6) = 8 + 2
        /\ \A i \in 1 .. 8 : c6[i] = c5[i]
        /\ \A i \in 1 .. 2 : c6[8 + i] = p6[i]
    <3>1. c5 \in Seq(S) /\ Len(c5) = 8 /\ p6 \in Seq(S) /\ Len(p6) = 2 /\ 8 \in Nat /\ 2 \in Nat
      BY ONLY <1>6, <1>12
    <3>2. c6 \in Seq(S) /\ IsJoin(c6, c5, 8, p6, 2)
      BY ONLY <3>1, JoinOn
    <3> HIDE DEF c6
    <3> QED BY ONLY <3>2 DEF IsJoin
  <2> HIDE DEF c6
  <2>2. /\ 1 \in 1 .. 8 /\ 2 \in 1 .. 8 /\ 3 \in 1 .. 8 /\ 4 \in 1 .. 8 /\ 5 \in 1 .. 8
        /\ 6 \in 1 .. 8 /\ 7 \in 1 .. 8 /\ 8 \in 1 .. 8
        /\ 1 \in 1 .. 2 /\ 8 + 1 = 9 /\ 2 \in 1 .. 2 /\ 8 + 2 = 10 /\ 8 + 2 = 10
    OBVIOUS
  <2> QED BY ONLY <1>7, <1>12, <2>1, <2>2
<1>14. /\ c7 \in Seq(S) /\ Len(c7) = 12
      /\ c7[1] = x1 /\ c7[2] = x2 /\ c7[3] = x3 /\ c7[4] = x4 /\ c7[5] = x5
      /\ c7[6] = x6 /\ c7[7] = x7 /\ c7[8] = x8 /\ c7[9] = x9 /\ c7[10] = x10
      /\ c7[11] = x11 /\ c7[12] = x12
  <2> HIDE DEF c6
  <2>1. /\ c7 \in Seq(S) /\ Len(c7) = 10 + 2
        /\ \A i \in 1 .. 10 : c7[i] = c6[i]
        /\ \A i \in 1 .. 2 : c7[10 + i] = p7[i]
    <3>1. c6 \in Seq(S) /\ Len(c6) = 10 /\ p7 \in Seq(S) /\ Len(p7) = 2 /\ 10 \in Nat /\ 2 \in Nat
      BY ONLY <1>6, <1>13
    <3>2. c7 \in Seq(S) /\ IsJoin(c7, c6, 10, p7, 2)
      BY ONLY <3>1, JoinOn
    <3> HIDE DEF c7
    <3> QED BY ONLY <3>2 DEF IsJoin
  <2> HIDE DEF c7
  <2>2. /\ 1 \in 1 .. 10 /\ 2 \in 1 .. 10 /\ 3 \in 1 .. 10 /\ 4 \in 1 .. 10 /\ 5 \in 1 .. 10
        /\ 6 \in 1 .. 10 /\ 7 \in 1 .. 10 /\ 8 \in 1 .. 10
        /\ 9 \in 1 .. 10 /\ 10 \in 1 .. 10
        /\ 1 \in 1 .. 2 /\ 10 + 1 = 11 /\ 2 \in 1 .. 2 /\ 10 + 2 = 12 /\ 10 + 2 = 12
    OBVIOUS
  <2> QED BY ONLY <1>7, <1>13, <2>1, <2>2
<1>15. /\ c8 \in Seq(S) /\ Len(c8) = 14
      /\ c8[1] = x1 /\ c8[2] = x2 /\ c8[3] = x3 /\ c8[4] = x4 /\ c8[5] = x5
      /\ c8[6] = x6 /\ c8[7] = x7 /\ c8[8] = x8 /\ c8[9] = x9 /\ c8[10] = x10
      /\ c8[11] = x11 /\ c8[12] = x12 /\ c8[13] = x13 /\ c8[14] = x14
  <2> HIDE DEF c7
  <2>1. /\ c8 \in Seq(S) /\ Len(c8) = 12 + 2
        /\ \A i \in 1 .. 12 : c8[i] = c7[i]
        /\ \A i \in 1 .. 2 : c8[12 + i] = p8[i]
    <3>1. c7 \in Seq(S) /\ Len(c7) = 12 /\ p8 \in Seq(S) /\ Len(p8) = 2 /\ 12 \in Nat /\ 2 \in Nat
      BY ONLY <1>6, <1>14
    <3>2. c8 \in Seq(S) /\ IsJoin(c8, c7, 12, p8, 2)
      BY ONLY <3>1, JoinOn
    <3> HIDE DEF c8
    <3> QED BY ONLY <3>2 DEF IsJoin
  <2> HIDE DEF c8
  <2>2. /\ 1 \in 1 .. 12 /\ 2 \in 1 .. 12 /\ 3 \in 1 .. 12 /\ 4 \in 1 .. 12 /\ 5 \in 1 .. 12
        /\ 6 \in 1 .. 12 /\ 7 \in 1 .. 12 /\ 8 \in 1 .. 12
        /\ 9 \in 1 .. 12 /\ 10 \in 1 .. 12 /\ 11 \in 1 .. 12 /\ 12 \in 1 .. 12
        /\ 1 \in 1 .. 2 /\ 12 + 1 = 13 /\ 2 \in 1 .. 2 /\ 12 + 2 = 14 /\ 12 + 2 = 14
    OBVIOUS
  <2> QED BY ONLY <1>7, <1>14, <2>1, <2>2
<1>16. /\ c9 \in Seq(S) /\ Len(c9) = 15
      /\ c9[1] = x1 /\ c9[2] = x2 /\ c9[3] = x3 /\ c9[4] = x4 /\ c9[5] = x5
      /\ c9[6] = x6 /\ c9[7] = x7 /\ c9[8] = x8 /\ c9[9] = x9 /\ c9[10] = x10
      /\ c9[11] = x11 /\ c9[12] = x12 /\ c9[13] = x13 /\ c9[14] = x14 /\ c9[15] = x15
  <2> HIDE DEF c8
  <2>1. /\ c9 \in Seq(S) /\ Len(c9) = 14 + 1
        /\ \A i \in 1 .. 14 : c9[i] = c8[i]
        /\ \A i \in 1 .. 1 : c9[14 + i] = p9[i]
    <3>1. c8 \in Seq(S) /\ Len(c8) = 14 /\ p9 \in Seq(S) /\ Len(p9) = 1 /\ 14 \in Nat /\ 1 \in Nat
      BY ONLY <1>6, <1>15
    <3>2. c9 \in Seq(S) /\ IsJoin(c9, c8, 14, p9, 1)
      BY ONLY <3>1, JoinOn
    <3> HIDE DEF c9
    <3> QED BY ONLY <3>2 DEF IsJoin
  <2> HIDE DEF c9
  <2>2. /\ 1 \in 1 .. 14 /\ 2 \in 1 .. 14 /\ 3 \in 1 .. 14 /\ 4 \in 1 .. 14 /\ 5 \in 1 .. 14
        /\ 6 \in 1 .. 14 /\ 7 \in 1 .. 14 /\ 8 \in 1 .. 14
        /\ 9 \in 1 .. 14 /\ 10 \in 1 .. 14 /\ 11 \in 1 .. 14 /\ 12 \in 1 .. 14
        /\ 13 \in 1 .. 14 /\ 14 \in 1 .. 14
        /\ 1 \in 1 .. 1 /\ 14 + 1 = 15 /\ 14 + 1 = 15
    OBVIOUS
  <2> QED BY ONLY <1>7, <1>15, <2>1, <2>2
<1>17. /\ c10 \in Seq(S) /\ Len(c10) = 18
      /\ c10[1] = x1 /\ c10[2] = x2 /\ c10[3] = x3 /\ c10[4] = x4 /\ c10[5] = x5
      /\ c10[6] = x6 /\ c10[7] = x7 /\ c10[8] = x8 /\ c10[9] = x9 /\ c10[10] = x10
      /\ c10[11] = x11 /\ c10[12] = x12 /\ c10[13] = x13 /\ c10[14] = x14 /\ c10[15] = x15
      /\ c10[16] = x16 /\ c10[17] = x17 /\ c10[18] = x18
  <2> HIDE DEF c9
  <2>1. /\ c10 \in Seq(S) /\ Len(c10) = 15 + 3
        /\ \A i \in 1 .. 15 : c10[i] = c9[i]
        /\ \A i \in 1 .. 3 : c10[15 + i] = p10[i]
    <3>1. c9 \in Seq(S) /\ Len(c9) = 15 /\ p10 \in Seq(S) /\ Len(p10) = 3 /\ 15 \in Nat /\ 3 \in Nat
      BY ONLY <1>6, <1>16
    <3>2. c10 \in Seq(S) /\ IsJoin(c10, c9, 15, p10, 3)
      BY ONLY <3>1, JoinOn
    <3> HIDE DEF c10
    <3> QED BY ONLY <3>2 DEF IsJoin
  <2> HIDE DEF c10
  <2>2. /\ 1 \in 1 .. 15 /\ 2 \in 1 .. 15 /\ 3 \in 1 .. 15 /\ 4 \in 1 .. 15 /\ 5 \in 1 .. 15
        /\ 6 \in 1 .. 15 /\ 7 \in 1 .. 15 /\ 8 \in 1 .. 15
        /\ 9 \in 1 .. 15 /\ 10 \in 1 .. 15 /\ 11 \in 1 .. 15 /\ 12 \in 1 .. 15
        /\ 13 \in 1 .. 15 /\ 14 \in 1 .. 15 /\ 15 \in 1 .. 15
        /\ 1 \in 1 .. 3 /\ 15 + 1 = 16 /\ 2 \in 1 .. 3 /\ 15 + 2 = 17 /\ 3 \in 1 .. 3
        /\ 15 + 3 = 18 /\ 15 + 3 = 18
    OBVIOUS
  <2> QED BY ONLY <1>7, <1>16, <2>1, <2>2
<1>18. /\ c11 \in Seq(S) /\ Len(c11) = 20
      /\ c11[1] = x1 /\ c11[2] = x2 /\ c11[3] = x3 /\ c11[4] = x4 /\ c11[5] = x5
      /\ c11[6] = x6 /\ c11[7] = x7 /\ c11[8] = x8 /\ c11[9] = x9 /\ c11[10] = x10
      /\ c11[11] = x11 /\ c11[12] = x12 /\ c11[13] = x13 /\ c11[14] = x14 /\ c11[15] = x15
      /\ c11[16] = x16 /\ c11[17] = x17 /\ c11[18] = x18 /\ c11[19] = x19 /\ c11[20] = x20
  <2> HIDE DEF c10
  <2>1. /\ c11 \in Seq(S) /\ Len(c11) = 18 + 2
        /\ \A i \in 1 .. 18 : c11[i] = c10[i]
        /\ \A i \in 1 .. 2 : c11[18 + i] = p11[i]
    <3>1. /\ c10 \in Seq(S) /\ Len(c10) = 18 /\ p11 \in Seq(S) /\ Len(p11) = 2 /\ 18 \in Nat
          /\ 2 \in Nat
      BY ONLY <1>6, <1>17
    <3>2. c11 \in Seq(S) /\ IsJoin(c11, c10, 18, p11, 2)
      BY ONLY <3>1, JoinOn
    <3> HIDE DEF c11
    <3> QED BY ONLY <3>2 DEF IsJoin
  <2> HIDE DEF c11
  <2>2. /\ 1 \in 1 .. 18 /\ 2 \in 1 .. 18 /\ 3 \in 1 .. 18 /\ 4 \in 1 .. 18 /\ 5 \in 1 .. 18
        /\ 6 \in 1 .. 18 /\ 7 \in 1 .. 18 /\ 8 \in 1 .. 18
        /\ 9 \in 1 .. 18 /\ 10 \in 1 .. 18 /\ 11 \in 1 .. 18 /\ 12 \in 1 .. 18
        /\ 13 \in 1 .. 18 /\ 14 \in 1 .. 18 /\ 15 \in 1 .. 18 /\ 16 \in 1 .. 18
        /\ 17 \in 1 .. 18 /\ 18 \in 1 .. 18
        /\ 1 \in 1 .. 2 /\ 18 + 1 = 19 /\ 2 \in 1 .. 2 /\ 18 + 2 = 20 /\ 18 + 2 = 20
    OBVIOUS
  <2> QED BY ONLY <1>7, <1>17, <2>1, <2>2
<1>19. /\ c12 \in Seq(S) /\ Len(c12) = 22
      /\ c12[1] = x1 /\ c12[2] = x2 /\ c12[3] = x3 /\ c12[4] = x4 /\ c12[5] = x5
      /\ c12[6] = x6 /\ c12[7] = x7 /\ c12[8] = x8 /\ c12[9] = x9 /\ c12[10] = x10
      /\ c12[11] = x11 /\ c12[12] = x12 /\ c12[13] = x13 /\ c12[14] = x14 /\ c12[15] = x15
      /\ c12[16] = x16 /\ c12[17] = x17 /\ c12[18] = x18 /\ c12[19] = x19 /\ c12[20] = x20
      /\ c12[21] = x21 /\ c12[22] = x22
  <2> HIDE DEF c11
  <2>1. /\ c12 \in Seq(S) /\ Len(c12) = 20 + 2
        /\ \A i \in 1 .. 20 : c12[i] = c11[i]
        /\ \A i \in 1 .. 2 : c12[20 + i] = p12[i]
    <3>1. /\ c11 \in Seq(S) /\ Len(c11) = 20 /\ p12 \in Seq(S) /\ Len(p12) = 2 /\ 20 \in Nat
          /\ 2 \in Nat
      BY ONLY <1>6, <1>18
    <3>2. c12 \in Seq(S) /\ IsJoin(c12, c11, 20, p12, 2)
      BY ONLY <3>1, JoinOn
    <3> HIDE DEF c12
    <3> QED BY ONLY <3>2 DEF IsJoin
  <2> HIDE DEF c12
  <2>2. /\ 1 \in 1 .. 20 /\ 2 \in 1 .. 20 /\ 3 \in 1 .. 20 /\ 4 \in 1 .. 20 /\ 5 \in 1 .. 20
        /\ 6 \in 1 .. 20 /\ 7 \in 1 .. 20 /\ 8 \in 1 .. 20
        /\ 9 \in 1 .. 20 /\ 10 \in 1 .. 20 /\ 11 \in 1 .. 20 /\ 12 \in 1 .. 20
        /\ 13 \in 1 .. 20 /\ 14 \in 1 .. 20 /\ 15 \in 1 .. 20 /\ 16 \in 1 .. 20
        /\ 17 \in 1 .. 20 /\ 18 \in 1 .. 20 /\ 19 \in 1 .. 20 /\ 20 \in 1 .. 20
        /\ 1 \in 1 .. 2 /\ 20 + 1 = 21 /\ 2 \in 1 .. 2 /\ 20 + 2 = 22 /\ 20 + 2 = 22
    OBVIOUS
  <2> QED BY ONLY <1>7, <1>18, <2>1, <2>2
<1>20. /\ c13 \in Seq(S) /\ Len(c13) = 24
      /\ c13[1] = x1 /\ c13[2] = x2 /\ c13[3] = x3 /\ c13[4] = x4 /\ c13[5] = x5
      /\ c13[6] = x6 /\ c13[7] = x7 /\ c13[8] = x8 /\ c13[9] = x9 /\ c13[10] = x10
      /\ c13[11] = x11 /\ c13[12] = x12 /\ c13[13] = x13 /\ c13[14] = x14 /\ c13[15] = x15
      /\ c13[16] = x16 /\ c13[17] = x17 /\ c13[18] = x18 /\ c13[19] = x19 /\ c13[20] = x20
      /\ c13[21] = x21 /\ c13[22] = x22 /\ c13[23] = x23 /\ c13[24] = x24
  <2> HIDE DEF c12
  <2>1. /\ c13 \in Seq(S) /\ Len(c13) = 22 + 2
        /\ \A i \in 1 .. 22 : c13[i] = c12[i]
        /\ \A i \in 1 .. 2 : c13[22 + i] = p13[i]
    <3>1. /\ c12 \in Seq(S) /\ Len(c12) = 22 /\ p13 \in Seq(S) /\ Len(p13) = 2 /\ 22 \in Nat
          /\ 2 \in Nat
      BY ONLY <1>6, <1>19
    <3>2. c13 \in Seq(S) /\ IsJoin(c13, c12, 22, p13, 2)
      BY ONLY <3>1, JoinOn
    <3> HIDE DEF c13
    <3> QED BY ONLY <3>2 DEF IsJoin
  <2> HIDE DEF c13
  <2>2. /\ 1 \in 1 .. 22 /\ 2 \in 1 .. 22 /\ 3 \in 1 .. 22 /\ 4 \in 1 .. 22 /\ 5 \in 1 .. 22
        /\ 6 \in 1 .. 22 /\ 7 \in 1 .. 22 /\ 8 \in 1 .. 22
        /\ 9 \in 1 .. 22 /\ 10 \in 1 .. 22 /\ 11 \in 1 .. 22 /\ 12 \in 1 .. 22
        /\ 13 \in 1 .. 22 /\ 14 \in 1 .. 22 /\ 15 \in 1 .. 22 /\ 16 \in 1 .. 22
        /\ 17 \in 1 .. 22 /\ 18 \in 1 .. 22 /\ 19 \in 1 .. 22 /\ 20 \in 1 .. 22
        /\ 21 \in 1 .. 22 /\ 22 \in 1 .. 22
        /\ 1 \in 1 .. 2 /\ 22 + 1 = 23 /\ 2 \in 1 .. 2 /\ 22 + 2 = 24 /\ 22 + 2 = 24
    OBVIOUS
  <2> QED BY ONLY <1>7, <1>19, <2>1, <2>2
<1>21. /\ c14 \in Seq(S) /\ Len(c14) = 25
      /\ c14[1] = x1 /\ c14[2] = x2 /\ c14[3] = x3 /\ c14[4] = x4 /\ c14[5] = x5
      /\ c14[6] = x6 /\ c14[7] = x7 /\ c14[8] = x8 /\ c14[9] = x9 /\ c14[10] = x10
      /\ c14[11] = x11 /\ c14[12] = x12 /\ c14[13] = x13 /\ c14[14] = x14 /\ c14[15] = x15
      /\ c14[16] = x16 /\ c14[17] = x17 /\ c14[18] = x18 /\ c14[19] = x19 /\ c14[20] = x20
      /\ c14[21] = x21 /\ c14[22] = x22 /\ c14[23] = x23 /\ c14[24] = x24 /\ c14[25] = x25
  <2> HIDE DEF c13
  <2>1. /\ c14 \in Seq(S) /\ Len(c14) = 24 + 1
        /\ \A i \in 1 .. 24 : c14[i] = c13[i]
        /\ \A i \in 1 .. 1 : c14[24 + i] = p14[i]
    <3>1. /\ c13 \in Seq(S) /\ Len(c13) = 24 /\ p14 \in Seq(S) /\ Len(p14) = 1 /\ 24 \in Nat
          /\ 1 \in Nat
      BY ONLY <1>6, <1>20
    <3>2. c14 \in Seq(S) /\ IsJoin(c14, c13, 24, p14, 1)
      BY ONLY <3>1, JoinOn
    <3> HIDE DEF c14
    <3> QED BY ONLY <3>2 DEF IsJoin
  <2> HIDE DEF c14
  <2>2. /\ 1 \in 1 .. 24 /\ 2 \in 1 .. 24 /\ 3 \in 1 .. 24 /\ 4 \in 1 .. 24 /\ 5 \in 1 .. 24
        /\ 6 \in 1 .. 24 /\ 7 \in 1 .. 24 /\ 8 \in 1 .. 24
        /\ 9 \in 1 .. 24 /\ 10 \in 1 .. 24 /\ 11 \in 1 .. 24 /\ 12 \in 1 .. 24
        /\ 13 \in 1 .. 24 /\ 14 \in 1 .. 24 /\ 15 \in 1 .. 24 /\ 16 \in 1 .. 24
        /\ 17 \in 1 .. 24 /\ 18 \in 1 .. 24 /\ 19 \in 1 .. 24 /\ 20 \in 1 .. 24
        /\ 21 \in 1 .. 24 /\ 22 \in 1 .. 24 /\ 23 \in 1 .. 24 /\ 24 \in 1 .. 24
        /\ 1 \in 1 .. 1 /\ 24 + 1 = 25 /\ 24 + 1 = 25
    OBVIOUS
  <2> QED BY ONLY <1>7, <1>20, <2>1, <2>2
<1>22. calls(cm, cf, cg) = c14
  BY ONLY <1>5
<1> HIDE DEF c14
<1>23. Len(calls(cm, cf, cg)) = 25
  BY ONLY <1>21, <1>22
<1> QED BY ONLY <1>21, <1>22, <1>23 DEF x1, x2, x3, x4, x5, x6, x7, x8, x9, x10, x11, x12, x13,
   x14, x15, x16, x17, x18, x19, x20, x21, x22, x23, x24, x25

\* What lies where, m, f and g being the lengths of the instructions of the three parts that
\* may be compressed.
CallsText(c, m, f, g) ==
    /\ Holds(c, TEXT, enc_j(36 + g + 6 * f, 0, OP_JAL))
    /\ Holds(c, TEXT + 4, SetWord(3))
    /\ Holds(c, TEXT + 8, OutWord)
    /\ Lies(c, TEXT + 12, RetWord, g)
    /\ Lies(c, TEXT + (12 + g), GrowWord, f)
    /\ Lies(c, TEXT + (12 + g + f), SaveWord, f)
    /\ Holds(c, TEXT + (12 + g + 2 * f), SetWord(2))
    /\ Holds(c, TEXT + (16 + g + 2 * f), OutWord)
    /\ Holds(c, TEXT + (20 + g + 2 * f), Lui(T1, TEXT + 4))
    /\ Holds(c, TEXT + (24 + g + 2 * f), Addi(T1, TEXT + 4))
    /\ Lies(c, TEXT + (28 + g + 2 * f), CallWord, f)
    /\ Holds(c, TEXT + (28 + g + 3 * f), SetWord(4))
    /\ Holds(c, TEXT + (32 + g + 3 * f), OutWord)
    /\ Lies(c, TEXT + (36 + g + 3 * f), FetchWord, f)
    /\ Lies(c, TEXT + (36 + g + 4 * f), DropWord, f)
    /\ Lies(c, TEXT + (36 + g + 5 * f), RetWord, f)
    /\ Holds(c, TEXT + (36 + g + 6 * f), Lui(SP, DATA + 64))
    /\ Holds(c, TEXT + (40 + g + 6 * f), Addi(SP, DATA + 64))
    /\ Holds(c, TEXT + (44 + g + 6 * f), Lui(S2, CSR_MMIO_UART))
    /\ Holds(c, TEXT + (48 + g + 6 * f), Addi(S2, CSR_MMIO_UART))
    /\ Holds(c, TEXT + (52 + g + 6 * f), SetWord(1))
    /\ Holds(c, TEXT + (56 + g + 6 * f), OutWord)
    /\ Holds(c, TEXT + (60 + g + 6 * f), Lui(T1, TEXT + (12 + g)))
    /\ Holds(c, TEXT + (64 + g + 6 * f), Addi(T1, TEXT + (12 + g)))
    /\ Lies(c, TEXT + (68 + g + 6 * f), CallWord, m)
    /\ Holds(c, TEXT + (68 + g + 6 * f + m), SetWord(5))
    /\ Holds(c, TEXT + (72 + g + 6 * f + m), OutWord)
    /\ Lies(c, TEXT + (76 + g + 6 * f + m), EBREAK, m)

\* The assembler puts it there.
LEMMA CallsAssembled ==
  ASSUME TEXT \in Nat, NEW cm \in BOOLEAN, NEW cf \in BOOLEAN, NEW cg \in BOOLEAN
  PROVE  CallsText(assemble(calls(cm, cf, cg), TEXT), LengthOf(cm), LengthOf(cf), LengthOf(cg))
<1> DEFINE items == calls(cm, cf, cg)
           c == assemble(items, TEXT)
           m == LengthOf(cm)
           f == LengthOf(cf)
           g == LengthOf(cg)
<1>1. /\ Len(items) = 25
      /\ items[1] = jal(0, "main")
      /\ items[2] = Word(SetWord(3))
      /\ items[3] = Word(OutWord)
      /\ items[4] = ShortOr(cg, 32898, RetWord)
      /\ items[5] = ShortOr(cf, 4465, GrowWord)
      /\ items[6] = ShortOr(cf, 49158, SaveWord)
      /\ items[7] = Word(SetWord(2))
      /\ items[8] = Word(OutWord)
      /\ items[9] = li32(T1, TEXT + 4)
      /\ items[10] = ShortOr(cf, 37634, CallWord)
      /\ items[11] = Word(SetWord(4))
      /\ items[12] = Word(OutWord)
      /\ items[13] = ShortOr(cf, 16514, FetchWord)
      /\ items[14] = ShortOr(cf, 273, DropWord)
      /\ items[15] = ShortOr(cf, 32898, RetWord)
      /\ items[16] = Label("main")
      /\ items[17] = li32(SP, DATA + 64)
      /\ items[18] = li32(S2, CSR_MMIO_UART)
      /\ items[19] = Word(SetWord(1))
      /\ items[20] = Word(OutWord)
      /\ items[21] = li32(T1, TEXT + (12 + LengthOf(cg)))
      /\ items[22] = ShortOr(cm, 37634, CallWord)
      /\ items[23] = Word(SetWord(5))
      /\ items[24] = Word(OutWord)
      /\ items[25] = ShortOr(cm, 36866, EBREAK)
  BY ONLY TEXT \in Nat, CallsItems
<1> HIDE DEF items
<1>2. /\ items[1].kind # "label"
      /\ items[2].kind # "label"
      /\ items[3].kind # "label"
      /\ items[4].kind # "label"
      /\ items[5].kind # "label"
      /\ items[6].kind # "label"
      /\ items[7].kind # "label"
      /\ items[8].kind # "label"
      /\ items[9].kind # "label"
      /\ items[10].kind # "label"
      /\ items[11].kind # "label"
      /\ items[12].kind # "label"
      /\ items[13].kind # "label"
      /\ items[14].kind # "label"
      /\ items[15].kind # "label"
      /\ items[17].kind # "label"
      /\ items[18].kind # "label"
      /\ items[19].kind # "label"
      /\ items[20].kind # "label"
      /\ items[21].kind # "label"
      /\ items[22].kind # "label"
      /\ items[23].kind # "label"
      /\ items[24].kind # "label"
      /\ items[25].kind # "label"
      /\ items[16].kind = "label" /\ items[16].name = "main"
  BY ONLY <1>1 DEF li32, Word, Short, ShortOr, Label, jal
<1>3. \A k \in 1 .. 25 : items[k].kind = "label" => k = 16
  <2> SUFFICES ASSUME NEW k \in 1 .. 25, items[k].kind = "label" PROVE k = 16
    OBVIOUS
  <2>1. k \in {1, 2, 3, 4, 5, 6, 7, 8, 9, 10, 11, 12, 13, 14, 15, 16, 17, 18, 19, 20, 21, 22,
               23, 24, 25}
    OBVIOUS
  <2> QED BY ONLY <1>2, <2>1, items[k].kind = "label"
<1>4. Labels(items, "main", 16)
  <2>1. 16 \in 1 .. 25
    OBVIOUS
  <2> QED BY ONLY <1>1, <1>2, <1>3, <2>1 DEF Labels
<1>5. TEXT \in Int /\ m \in Int /\ f \in Int /\ g \in Int
  BY DEF LengthOf
<1>6. ItemAt(items, TEXT, 1, 0)
  <2>1. AddressOf(items, TEXT, 1) = TEXT
    <3>1. Len(items) \in Nat
      BY ONLY <1>1
    <3> QED BY ONLY <1>5, <3>1, PlacedIs
  <2>2. AddressOf(items, TEXT, 1) = TEXT + 0
    BY ONLY <1>5, <2>1
  <2> QED BY ONLY <1>1, <1>5, <2>2 DEF ItemAt
<1>7. ItemAt(items, TEXT, 2, 4)
  <2>1. items[1] = jal(0, "main") /\ 1 <= Len(items) /\ 1 \in Int /\ 0 \in Int
    BY ONLY <1>1, <1>5
  <2>3. ItemAt(items, TEXT, 1 + 1, (0) + 4)
    BY ONLY <1>5, <2>1, <1>6, PastJump
  <2>4. (0) + 4 = 4 /\ 1 + 1 = 2
    BY ONLY <1>5
  <2> QED BY ONLY <2>3, <2>4
<1>8. /\ Holds(c, TEXT + 4, SetWord(3))
      /\ ItemAt(items, TEXT, 3, 8)
  <2>1. items[2] = Word(SetWord(3)) /\ 2 <= Len(items) /\ 2 \in Int /\ 4 \in Int
    BY ONLY <1>1, <1>5
  <2>3. /\ Holds(c, TEXT + (4), SetWord(3))
        /\ ItemAt(items, TEXT, 2 + 1, (4) + 4)
    BY ONLY <1>5, <2>1, <1>7, NextWord DEF c
  <2>4. (4) + 4 = 8 /\ 2 + 1 = 3
    BY ONLY <1>5
  <2> QED BY ONLY <2>3, <2>4
<1>9. /\ Holds(c, TEXT + 8, OutWord)
      /\ ItemAt(items, TEXT, 4, 12)
  <2>1. items[3] = Word(OutWord) /\ 3 <= Len(items) /\ 3 \in Int /\ 8 \in Int
    BY ONLY <1>1, <1>5
  <2>3. /\ Holds(c, TEXT + (8), OutWord)
        /\ ItemAt(items, TEXT, 3 + 1, (8) + 4)
    BY ONLY <1>5, <2>1, <1>8, NextWord DEF c
  <2>4. (8) + 4 = 12 /\ 3 + 1 = 4
    BY ONLY <1>5
  <2> QED BY ONLY <2>3, <2>4
<1>10. /\ Lies(c, TEXT + 12, RetWord, g)
      /\ ItemAt(items, TEXT, 5, 12 + g)
  <2>1. items[4] = ShortOr(cg, 32898, RetWord) /\ 4 <= Len(items) /\ 4 \in Int /\ 12 \in Int
    BY ONLY <1>1, <1>5
  <2>2. 32898 \in Int /\ 32898 % 4 # 3 /\ expand_compressed(32898) = {RetWord} /\ cg \in BOOLEAN
    BY ShortForms
  <2>3. /\ Lies(c, TEXT + (12), RetWord, LengthOf(cg))
        /\ ItemAt(items, TEXT, 4 + 1, (12) + LengthOf(cg))
    <3> DEFINE n == 12
               h == 32898
    <3>1. /\ n \in Int /\ ItemAt(items, TEXT, 4, n) /\ 4 \in Int /\ TEXT \in Int
          /\ 4 <= Len(items) /\ items[4] = ShortOr(cg, h, RetWord) /\ h \in Int
          /\ h % 4 # 3 /\ expand_compressed(h) = {RetWord} /\ cg \in BOOLEAN
      BY ONLY <1>5, <2>1, <2>2, <1>9
    <3> HIDE DEF n, h, items
    <3>2. /\ Lies(assemble(items, TEXT), TEXT + n, RetWord, LengthOf(cg))
          /\ ItemAt(items, TEXT, 4 + 1, n + LengthOf(cg))
      BY ONLY <3>1, NextEither
    <3> QED BY ONLY <3>2 DEF n, c
  <2>4. (12) + LengthOf(cg) = 12 + g /\ 4 + 1 = 5
    BY ONLY <1>5 DEF g
  <2> QED BY ONLY <2>3, <2>4 DEF g
<1>11. /\ Lies(c, TEXT + (12 + g), GrowWord, f)
      /\ ItemAt(items, TEXT, 6, 12 + g + f)
  <2>1. items[5] = ShortOr(cf, 4465, GrowWord) /\ 5 <= Len(items) /\ 5 \in Int /\ (12 + g) \in Int
    BY ONLY <1>1, <1>5
  <2>2. 4465 \in Int /\ 4465 % 4 # 3 /\ expand_compressed(4465) = {GrowWord} /\ cf \in BOOLEAN
    BY ShortForms
  <2>3. /\ Lies(c, TEXT + (12 + g), GrowWord, LengthOf(cf))
        /\ ItemAt(items, TEXT, 5 + 1, (12 + g) + LengthOf(cf))
    <3> DEFINE n == 12 + g
               h == 4465
    <3>1. /\ n \in Int /\ ItemAt(items, TEXT, 5, n) /\ 5 \in Int /\ TEXT \in Int
          /\ 5 <= Len(items) /\ items[5] = ShortOr(cf, h, GrowWord) /\ h \in Int
          /\ h % 4 # 3 /\ expand_compressed(h) = {GrowWord} /\ cf \in BOOLEAN
      BY ONLY <1>5, <2>1, <2>2, <1>10
    <3> HIDE DEF n, h, items
    <3>2. /\ Lies(assemble(items, TEXT), TEXT + n, GrowWord, LengthOf(cf))
          /\ ItemAt(items, TEXT, 5 + 1, n + LengthOf(cf))
      BY ONLY <3>1, NextEither
    <3> QED BY ONLY <3>2 DEF n, c
  <2>4. (12 + g) + LengthOf(cf) = 12 + g + f /\ 5 + 1 = 6
    BY ONLY <1>5 DEF f
  <2> QED BY ONLY <2>3, <2>4 DEF f
<1>12. /\ Lies(c, TEXT + (12 + g + f), SaveWord, f)
      /\ ItemAt(items, TEXT, 7, 12 + g + 2 * f)
  <2>1. /\ items[6] = ShortOr(cf, 49158, SaveWord) /\ 6 <= Len(items) /\ 6 \in Int
        /\ (12 + g + f) \in Int
    BY ONLY <1>1, <1>5
  <2>2. 49158 \in Int /\ 49158 % 4 # 3 /\ expand_compressed(49158) = {SaveWord} /\ cf \in BOOLEAN
    BY ShortForms
  <2>3. /\ Lies(c, TEXT + (12 + g + f), SaveWord, LengthOf(cf))
        /\ ItemAt(items, TEXT, 6 + 1, (12 + g + f) + LengthOf(cf))
    <3> DEFINE n == 12 + g + f
               h == 49158
    <3>1. /\ n \in Int /\ ItemAt(items, TEXT, 6, n) /\ 6 \in Int /\ TEXT \in Int
          /\ 6 <= Len(items) /\ items[6] = ShortOr(cf, h, SaveWord) /\ h \in Int
          /\ h % 4 # 3 /\ expand_compressed(h) = {SaveWord} /\ cf \in BOOLEAN
      BY ONLY <1>5, <2>1, <2>2, <1>11
    <3> HIDE DEF n, h, items
    <3>2. /\ Lies(assemble(items, TEXT), TEXT + n, SaveWord, LengthOf(cf))
          /\ ItemAt(items, TEXT, 6 + 1, n + LengthOf(cf))
      BY ONLY <3>1, NextEither
    <3> QED BY ONLY <3>2 DEF n, c
  <2>4. (12 + g + f) + LengthOf(cf) = 12 + g + 2 * f /\ 6 + 1 = 7
    BY ONLY <1>5 DEF f
  <2> QED BY ONLY <2>3, <2>4 DEF f
<1>13. /\ Holds(c, TEXT + (12 + g + 2 * f), SetWord(2))
      /\ ItemAt(items, TEXT, 8, 16 + g + 2 * f)
  <2>1. items[7] = Word(SetWord(2)) /\ 7 <= Len(items) /\ 7 \in Int /\ (12 + g + 2 * f) \in Int
    BY ONLY <1>1, <1>5
  <2>3. /\ Holds(c, TEXT + (12 + g + 2 * f), SetWord(2))
        /\ ItemAt(items, TEXT, 7 + 1, (12 + g + 2 * f) + 4)
    BY ONLY <1>5, <2>1, <1>12, NextWord DEF c
  <2>4. (12 + g + 2 * f) + 4 = 16 + g + 2 * f /\ 7 + 1 = 8
    BY ONLY <1>5
  <2> QED BY ONLY <2>3, <2>4
<1>14. /\ Holds(c, TEXT + (16 + g + 2 * f), OutWord)
      /\ ItemAt(items, TEXT, 9, 20 + g + 2 * f)
  <2>1. items[8] = Word(OutWord) /\ 8 <= Len(items) /\ 8 \in Int /\ (16 + g + 2 * f) \in Int
    BY ONLY <1>1, <1>5
  <2>3. /\ Holds(c, TEXT + (16 + g + 2 * f), OutWord)
        /\ ItemAt(items, TEXT, 8 + 1, (16 + g + 2 * f) + 4)
    BY ONLY <1>5, <2>1, <1>13, NextWord DEF c
  <2>4. (16 + g + 2 * f) + 4 = 20 + g + 2 * f /\ 8 + 1 = 9
    BY ONLY <1>5
  <2> QED BY ONLY <2>3, <2>4
<1>15. /\ Holds(c, TEXT + (20 + g + 2 * f), Lui(T1, TEXT + 4))
      /\ Holds(c, TEXT + (24 + g + 2 * f), Addi(T1, TEXT + 4))
      /\ ItemAt(items, TEXT, 10, 28 + g + 2 * f)
  <2>1. items[9] = li32(T1, TEXT + 4) /\ 9 <= Len(items) /\ 9 \in Int /\ (20 + g + 2 * f) \in Int
    BY ONLY <1>1, <1>5
  <2>3. /\ Holds(c, TEXT + (20 + g + 2 * f), Lui(T1, TEXT + 4))
        /\ Holds(c, TEXT + ((20 + g + 2 * f) + 4), Addi(T1, TEXT + 4))
        /\ ItemAt(items, TEXT, 9 + 1, (20 + g + 2 * f) + 8)
    BY ONLY <1>5, <2>1, <1>14, NextConstant DEF c
  <2>4. (20 + g + 2 * f) + 8 = 28 + g + 2 * f /\ 9 + 1 = 10 /\ (20 + g + 2 * f) + 4 = 24 + g + 2 * f
    BY ONLY <1>5
  <2> QED BY ONLY <2>3, <2>4
<1>16. /\ Lies(c, TEXT + (28 + g + 2 * f), CallWord, f)
      /\ ItemAt(items, TEXT, 11, 28 + g + 3 * f)
  <2>1. /\ items[10] = ShortOr(cf, 37634, CallWord) /\ 10 <= Len(items) /\ 10 \in Int
        /\ (28 + g + 2 * f) \in Int
    BY ONLY <1>1, <1>5
  <2>2. 37634 \in Int /\ 37634 % 4 # 3 /\ expand_compressed(37634) = {CallWord} /\ cf \in BOOLEAN
    BY ShortForms
  <2>3. /\ Lies(c, TEXT + (28 + g + 2 * f), CallWord, LengthOf(cf))
        /\ ItemAt(items, TEXT, 10 + 1, (28 + g + 2 * f) + LengthOf(cf))
    <3> DEFINE n == 28 + g + 2 * f
               h == 37634
    <3>1. /\ n \in Int /\ ItemAt(items, TEXT, 10, n) /\ 10 \in Int /\ TEXT \in Int
          /\ 10 <= Len(items) /\ items[10] = ShortOr(cf, h, CallWord) /\ h \in Int
          /\ h % 4 # 3 /\ expand_compressed(h) = {CallWord} /\ cf \in BOOLEAN
      BY ONLY <1>5, <2>1, <2>2, <1>15
    <3> HIDE DEF n, h, items
    <3>2. /\ Lies(assemble(items, TEXT), TEXT + n, CallWord, LengthOf(cf))
          /\ ItemAt(items, TEXT, 10 + 1, n + LengthOf(cf))
      BY ONLY <3>1, NextEither
    <3> QED BY ONLY <3>2 DEF n, c
  <2>4. (28 + g + 2 * f) + LengthOf(cf) = 28 + g + 3 * f /\ 10 + 1 = 11
    BY ONLY <1>5 DEF f
  <2> QED BY ONLY <2>3, <2>4 DEF f
<1>17. /\ Holds(c, TEXT + (28 + g + 3 * f), SetWord(4))
      /\ ItemAt(items, TEXT, 12, 32 + g + 3 * f)
  <2>1. items[11] = Word(SetWord(4)) /\ 11 <= Len(items) /\ 11 \in Int /\ (28 + g + 3 * f) \in Int
    BY ONLY <1>1, <1>5
  <2>3. /\ Holds(c, TEXT + (28 + g + 3 * f), SetWord(4))
        /\ ItemAt(items, TEXT, 11 + 1, (28 + g + 3 * f) + 4)
    BY ONLY <1>5, <2>1, <1>16, NextWord DEF c
  <2>4. (28 + g + 3 * f) + 4 = 32 + g + 3 * f /\ 11 + 1 = 12
    BY ONLY <1>5
  <2> QED BY ONLY <2>3, <2>4
<1>18. /\ Holds(c, TEXT + (32 + g + 3 * f), OutWord)
      /\ ItemAt(items, TEXT, 13, 36 + g + 3 * f)
  <2>1. items[12] = Word(OutWord) /\ 12 <= Len(items) /\ 12 \in Int /\ (32 + g + 3 * f) \in Int
    BY ONLY <1>1, <1>5
  <2>3. /\ Holds(c, TEXT + (32 + g + 3 * f), OutWord)
        /\ ItemAt(items, TEXT, 12 + 1, (32 + g + 3 * f) + 4)
    BY ONLY <1>5, <2>1, <1>17, NextWord DEF c
  <2>4. (32 + g + 3 * f) + 4 = 36 + g + 3 * f /\ 12 + 1 = 13
    BY ONLY <1>5
  <2> QED BY ONLY <2>3, <2>4
<1>19. /\ Lies(c, TEXT + (36 + g + 3 * f), FetchWord, f)
      /\ ItemAt(items, TEXT, 14, 36 + g + 4 * f)
  <2>1. /\ items[13] = ShortOr(cf, 16514, FetchWord) /\ 13 <= Len(items) /\ 13 \in Int
        /\ (36 + g + 3 * f) \in Int
    BY ONLY <1>1, <1>5
  <2>2. 16514 \in Int /\ 16514 % 4 # 3 /\ expand_compressed(16514) = {FetchWord} /\ cf \in BOOLEAN
    BY ShortForms
  <2>3. /\ Lies(c, TEXT + (36 + g + 3 * f), FetchWord, LengthOf(cf))
        /\ ItemAt(items, TEXT, 13 + 1, (36 + g + 3 * f) + LengthOf(cf))
    <3> DEFINE n == 36 + g + 3 * f
               h == 16514
    <3>1. /\ n \in Int /\ ItemAt(items, TEXT, 13, n) /\ 13 \in Int /\ TEXT \in Int
          /\ 13 <= Len(items) /\ items[13] = ShortOr(cf, h, FetchWord) /\ h \in Int
          /\ h % 4 # 3 /\ expand_compressed(h) = {FetchWord} /\ cf \in BOOLEAN
      BY ONLY <1>5, <2>1, <2>2, <1>18
    <3> HIDE DEF n, h, items
    <3>2. /\ Lies(assemble(items, TEXT), TEXT + n, FetchWord, LengthOf(cf))
          /\ ItemAt(items, TEXT, 13 + 1, n + LengthOf(cf))
      BY ONLY <3>1, NextEither
    <3> QED BY ONLY <3>2 DEF n, c
  <2>4. (36 + g + 3 * f) + LengthOf(cf) = 36 + g + 4 * f /\ 13 + 1 = 14
    BY ONLY <1>5 DEF f
  <2> QED BY ONLY <2>3, <2>4 DEF f
<1>20. /\ Lies(c, TEXT + (36 + g + 4 * f), DropWord, f)
      /\ ItemAt(items, TEXT, 15, 36 + g + 5 * f)
  <2>1. /\ items[14] = ShortOr(cf, 273, DropWord) /\ 14 <= Len(items) /\ 14 \in Int
        /\ (36 + g + 4 * f) \in Int
    BY ONLY <1>1, <1>5
  <2>2. 273 \in Int /\ 273 % 4 # 3 /\ expand_compressed(273) = {DropWord} /\ cf \in BOOLEAN
    BY ShortForms
  <2>3. /\ Lies(c, TEXT + (36 + g + 4 * f), DropWord, LengthOf(cf))
        /\ ItemAt(items, TEXT, 14 + 1, (36 + g + 4 * f) + LengthOf(cf))
    <3> DEFINE n == 36 + g + 4 * f
               h == 273
    <3>1. /\ n \in Int /\ ItemAt(items, TEXT, 14, n) /\ 14 \in Int /\ TEXT \in Int
          /\ 14 <= Len(items) /\ items[14] = ShortOr(cf, h, DropWord) /\ h \in Int
          /\ h % 4 # 3 /\ expand_compressed(h) = {DropWord} /\ cf \in BOOLEAN
      BY ONLY <1>5, <2>1, <2>2, <1>19
    <3> HIDE DEF n, h, items
    <3>2. /\ Lies(assemble(items, TEXT), TEXT + n, DropWord, LengthOf(cf))
          /\ ItemAt(items, TEXT, 14 + 1, n + LengthOf(cf))
      BY ONLY <3>1, NextEither
    <3> QED BY ONLY <3>2 DEF n, c
  <2>4. (36 + g + 4 * f) + LengthOf(cf) = 36 + g + 5 * f /\ 14 + 1 = 15
    BY ONLY <1>5 DEF f
  <2> QED BY ONLY <2>3, <2>4 DEF f
<1>21. /\ Lies(c, TEXT + (36 + g + 5 * f), RetWord, f)
      /\ ItemAt(items, TEXT, 16, 36 + g + 6 * f)
  <2>1. /\ items[15] = ShortOr(cf, 32898, RetWord) /\ 15 <= Len(items) /\ 15 \in Int
        /\ (36 + g + 5 * f) \in Int
    BY ONLY <1>1, <1>5
  <2>2. 32898 \in Int /\ 32898 % 4 # 3 /\ expand_compressed(32898) = {RetWord} /\ cf \in BOOLEAN
    BY ShortForms
  <2>3. /\ Lies(c, TEXT + (36 + g + 5 * f), RetWord, LengthOf(cf))
        /\ ItemAt(items, TEXT, 15 + 1, (36 + g + 5 * f) + LengthOf(cf))
    <3> DEFINE n == 36 + g + 5 * f
               h == 32898
    <3>1. /\ n \in Int /\ ItemAt(items, TEXT, 15, n) /\ 15 \in Int /\ TEXT \in Int
          /\ 15 <= Len(items) /\ items[15] = ShortOr(cf, h, RetWord) /\ h \in Int
          /\ h % 4 # 3 /\ expand_compressed(h) = {RetWord} /\ cf \in BOOLEAN
      BY ONLY <1>5, <2>1, <2>2, <1>20
    <3> HIDE DEF n, h, items
    <3>2. /\ Lies(assemble(items, TEXT), TEXT + n, RetWord, LengthOf(cf))
          /\ ItemAt(items, TEXT, 15 + 1, n + LengthOf(cf))
      BY ONLY <3>1, NextEither
    <3> QED BY ONLY <3>2 DEF n, c
  <2>4. (36 + g + 5 * f) + LengthOf(cf) = 36 + g + 6 * f /\ 15 + 1 = 16
    BY ONLY <1>5 DEF f
  <2> QED BY ONLY <2>3, <2>4 DEF f
<1>22. ItemAt(items, TEXT, 17, 36 + g + 6 * f)
  <2>1. items[16] = Label("main") /\ 16 <= Len(items) /\ 16 \in Int /\ (36 + g + 6 * f) \in Int
    BY ONLY <1>1, <1>5
  <2>3. ItemAt(items, TEXT, 16 + 1, 36 + g + 6 * f)
    BY ONLY <1>5, <2>1, <1>21, NextLabel
  <2> QED BY ONLY <2>3
<1>23. /\ Holds(c, TEXT + (36 + g + 6 * f), Lui(SP, DATA + 64))
      /\ Holds(c, TEXT + (40 + g + 6 * f), Addi(SP, DATA + 64))
      /\ ItemAt(items, TEXT, 18, 44 + g + 6 * f)
  <2>1. /\ items[17] = li32(SP, DATA + 64) /\ 17 <= Len(items) /\ 17 \in Int
        /\ (36 + g + 6 * f) \in Int
    BY ONLY <1>1, <1>5
  <2>3. /\ Holds(c, TEXT + (36 + g + 6 * f), Lui(SP, DATA + 64))
        /\ Holds(c, TEXT + ((36 + g + 6 * f) + 4), Addi(SP, DATA + 64))
        /\ ItemAt(items, TEXT, 17 + 1, (36 + g + 6 * f) + 8)
    BY ONLY <1>5, <2>1, <1>22, NextConstant DEF c
  <2>4. /\ (36 + g + 6 * f) + 8 = 44 + g + 6 * f /\ 17 + 1 = 18
        /\ (36 + g + 6 * f) + 4 = 40 + g + 6 * f
    BY ONLY <1>5
  <2> QED BY ONLY <2>3, <2>4
<1>24. /\ Holds(c, TEXT + (44 + g + 6 * f), Lui(S2, CSR_MMIO_UART))
      /\ Holds(c, TEXT + (48 + g + 6 * f), Addi(S2, CSR_MMIO_UART))
      /\ ItemAt(items, TEXT, 19, 52 + g + 6 * f)
  <2>1. /\ items[18] = li32(S2, CSR_MMIO_UART) /\ 18 <= Len(items) /\ 18 \in Int
        /\ (44 + g + 6 * f) \in Int
    BY ONLY <1>1, <1>5
  <2>3. /\ Holds(c, TEXT + (44 + g + 6 * f), Lui(S2, CSR_MMIO_UART))
        /\ Holds(c, TEXT + ((44 + g + 6 * f) + 4), Addi(S2, CSR_MMIO_UART))
        /\ ItemAt(items, TEXT, 18 + 1, (44 + g + 6 * f) + 8)
    BY ONLY <1>5, <2>1, <1>23, NextConstant DEF c
  <2>4. /\ (44 + g + 6 * f) + 8 = 52 + g + 6 * f /\ 18 + 1 = 19
        /\ (44 + g + 6 * f) + 4 = 48 + g + 6 * f
    BY ONLY <1>5
  <2> QED BY ONLY <2>3, <2>4
<1>25. /\ Holds(c, TEXT + (52 + g + 6 * f), SetWord(1))
      /\ ItemAt(items, TEXT, 20, 56 + g + 6 * f)
  <2>1. items[19] = Word(SetWord(1)) /\ 19 <= Len(items) /\ 19 \in Int /\ (52 + g + 6 * f) \in Int
    BY ONLY <1>1, <1>5
  <2>3. /\ Holds(c, TEXT + (52 + g + 6 * f), SetWord(1))
        /\ ItemAt(items, TEXT, 19 + 1, (52 + g + 6 * f) + 4)
    BY ONLY <1>5, <2>1, <1>24, NextWord DEF c
  <2>4. (52 + g + 6 * f) + 4 = 56 + g + 6 * f /\ 19 + 1 = 20
    BY ONLY <1>5
  <2> QED BY ONLY <2>3, <2>4
<1>26. /\ Holds(c, TEXT + (56 + g + 6 * f), OutWord)
      /\ ItemAt(items, TEXT, 21, 60 + g + 6 * f)
  <2>1. items[20] = Word(OutWord) /\ 20 <= Len(items) /\ 20 \in Int /\ (56 + g + 6 * f) \in Int
    BY ONLY <1>1, <1>5
  <2>3. /\ Holds(c, TEXT + (56 + g + 6 * f), OutWord)
        /\ ItemAt(items, TEXT, 20 + 1, (56 + g + 6 * f) + 4)
    BY ONLY <1>5, <2>1, <1>25, NextWord DEF c
  <2>4. (56 + g + 6 * f) + 4 = 60 + g + 6 * f /\ 20 + 1 = 21
    BY ONLY <1>5
  <2> QED BY ONLY <2>3, <2>4
<1>27. /\ Holds(c, TEXT + (60 + g + 6 * f), Lui(T1, TEXT + (12 + g)))
      /\ Holds(c, TEXT + (64 + g + 6 * f), Addi(T1, TEXT + (12 + g)))
      /\ ItemAt(items, TEXT, 22, 68 + g + 6 * f)
  <2>1. /\ items[21] = li32(T1, TEXT + (12 + g)) /\ 21 <= Len(items) /\ 21 \in Int
        /\ (60 + g + 6 * f) \in Int
    BY ONLY <1>1, <1>5 DEF g
  <2>3. /\ Holds(c, TEXT + (60 + g + 6 * f), Lui(T1, TEXT + (12 + g)))
        /\ Holds(c, TEXT + ((60 + g + 6 * f) + 4), Addi(T1, TEXT + (12 + g)))
        /\ ItemAt(items, TEXT, 21 + 1, (60 + g + 6 * f) + 8)
    BY ONLY <1>5, <2>1, <1>26, NextConstant DEF c
  <2>4. /\ (60 + g + 6 * f) + 8 = 68 + g + 6 * f /\ 21 + 1 = 22
        /\ (60 + g + 6 * f) + 4 = 64 + g + 6 * f
    BY ONLY <1>5
  <2> QED BY ONLY <2>3, <2>4
<1>28. /\ Lies(c, TEXT + (68 + g + 6 * f), CallWord, m)
      /\ ItemAt(items, TEXT, 23, 68 + g + 6 * f + m)
  <2>1. /\ items[22] = ShortOr(cm, 37634, CallWord) /\ 22 <= Len(items) /\ 22 \in Int
        /\ (68 + g + 6 * f) \in Int
    BY ONLY <1>1, <1>5
  <2>2. 37634 \in Int /\ 37634 % 4 # 3 /\ expand_compressed(37634) = {CallWord} /\ cm \in BOOLEAN
    BY ShortForms
  <2>3. /\ Lies(c, TEXT + (68 + g + 6 * f), CallWord, LengthOf(cm))
        /\ ItemAt(items, TEXT, 22 + 1, (68 + g + 6 * f) + LengthOf(cm))
    <3> DEFINE n == 68 + g + 6 * f
               h == 37634
    <3>1. /\ n \in Int /\ ItemAt(items, TEXT, 22, n) /\ 22 \in Int /\ TEXT \in Int
          /\ 22 <= Len(items) /\ items[22] = ShortOr(cm, h, CallWord) /\ h \in Int
          /\ h % 4 # 3 /\ expand_compressed(h) = {CallWord} /\ cm \in BOOLEAN
      BY ONLY <1>5, <2>1, <2>2, <1>27
    <3> HIDE DEF n, h, items
    <3>2. /\ Lies(assemble(items, TEXT), TEXT + n, CallWord, LengthOf(cm))
          /\ ItemAt(items, TEXT, 22 + 1, n + LengthOf(cm))
      BY ONLY <3>1, NextEither
    <3> QED BY ONLY <3>2 DEF n, c
  <2>4. (68 + g + 6 * f) + LengthOf(cm) = 68 + g + 6 * f + m /\ 22 + 1 = 23
    BY ONLY <1>5 DEF m
  <2> QED BY ONLY <2>3, <2>4 DEF m
<1>29. /\ Holds(c, TEXT + (68 + g + 6 * f + m), SetWord(5))
      /\ ItemAt(items, TEXT, 24, 72 + g + 6 * f + m)
  <2>1. /\ items[23] = Word(SetWord(5)) /\ 23 <= Len(items) /\ 23 \in Int
        /\ (68 + g + 6 * f + m) \in Int
    BY ONLY <1>1, <1>5
  <2>3. /\ Holds(c, TEXT + (68 + g + 6 * f + m), SetWord(5))
        /\ ItemAt(items, TEXT, 23 + 1, (68 + g + 6 * f + m) + 4)
    BY ONLY <1>5, <2>1, <1>28, NextWord DEF c
  <2>4. (68 + g + 6 * f + m) + 4 = 72 + g + 6 * f + m /\ 23 + 1 = 24
    BY ONLY <1>5
  <2> QED BY ONLY <2>3, <2>4
<1>30. /\ Holds(c, TEXT + (72 + g + 6 * f + m), OutWord)
      /\ ItemAt(items, TEXT, 25, 76 + g + 6 * f + m)
  <2>1. items[24] = Word(OutWord) /\ 24 <= Len(items) /\ 24 \in Int /\ (72 + g + 6 * f + m) \in Int
    BY ONLY <1>1, <1>5
  <2>3. /\ Holds(c, TEXT + (72 + g + 6 * f + m), OutWord)
        /\ ItemAt(items, TEXT, 24 + 1, (72 + g + 6 * f + m) + 4)
    BY ONLY <1>5, <2>1, <1>29, NextWord DEF c
  <2>4. (72 + g + 6 * f + m) + 4 = 76 + g + 6 * f + m /\ 24 + 1 = 25
    BY ONLY <1>5
  <2> QED BY ONLY <2>3, <2>4
<1>31. /\ Lies(c, TEXT + (76 + g + 6 * f + m), EBREAK, m)
      /\ ItemAt(items, TEXT, 26, 76 + g + 6 * f + 2 * m)
  <2>1. /\ items[25] = ShortOr(cm, 36866, EBREAK) /\ 25 <= Len(items) /\ 25 \in Int
        /\ (76 + g + 6 * f + m) \in Int
    BY ONLY <1>1, <1>5
  <2>2. 36866 \in Int /\ 36866 % 4 # 3 /\ expand_compressed(36866) = {EBREAK} /\ cm \in BOOLEAN
    BY ShortForms
  <2>3. /\ Lies(c, TEXT + (76 + g + 6 * f + m), EBREAK, LengthOf(cm))
        /\ ItemAt(items, TEXT, 25 + 1, (76 + g + 6 * f + m) + LengthOf(cm))
    <3> DEFINE n == 76 + g + 6 * f + m
               h == 36866
    <3>1. /\ n \in Int /\ ItemAt(items, TEXT, 25, n) /\ 25 \in Int /\ TEXT \in Int
          /\ 25 <= Len(items) /\ items[25] = ShortOr(cm, h, EBREAK) /\ h \in Int
          /\ h % 4 # 3 /\ expand_compressed(h) = {EBREAK} /\ cm \in BOOLEAN
      BY ONLY <1>5, <2>1, <2>2, <1>30
    <3> HIDE DEF n, h, items
    <3>2. /\ Lies(assemble(items, TEXT), TEXT + n, EBREAK, LengthOf(cm))
          /\ ItemAt(items, TEXT, 25 + 1, n + LengthOf(cm))
      BY ONLY <3>1, NextEither
    <3> QED BY ONLY <3>2 DEF n, c
  <2>4. (76 + g + 6 * f + m) + LengthOf(cm) = 76 + g + 6 * f + 2 * m /\ 25 + 1 = 26
    BY ONLY <1>5 DEF m
  <2> QED BY ONLY <2>3, <2>4 DEF m
<1>32. Holds(c, TEXT, enc_j(36 + g + 6 * f, 0, OP_JAL))
  <2>1. /\ items[1] = jal(0, "main") /\ 1 <= Len(items) /\ 1 \in Int /\ 0 \in Int
        /\ (36 + g + 6 * f) \in Int
    BY ONLY <1>1, <1>5
  <2>2. Holds(c, TEXT + 0, enc_j((36 + g + 6 * f) - 0, 0, OP_JAL))
    BY ONLY <1>4, <1>5, <1>6, <1>21, <2>1, NextJump DEF c
  <2>3. TEXT + 0 = TEXT /\ (36 + g + 6 * f) - 0 = 36 + g + 6 * f
    BY ONLY <1>5
  <2> QED BY ONLY <2>2, <2>3
<1> HIDE DEF m, f, g, c
<1>33. CallsText(c, m, f, g)
  BY ONLY <1>8, <1>9, <1>10, <1>11, <1>12, <1>13, <1>14, <1>15, <1>16, <1>17, <1>18, <1>19,
     <1>20, <1>21, <1>23, <1>24, <1>25, <1>26, <1>27, <1>28, <1>29, <1>30, <1>31,
     <1>32 DEF CallsText
<1> QED BY ONLY <1>33 DEF m, f, g, c, items

\* Where the program is after t steps, what it has said, and what is known of its
\* registers and of the word it saves.
CallPlace(t, m, f, g) ==
    IF t = 0 THEN 0
    ELSE IF t <= 9 THEN 36 + g + 6 * f + 4 * (t - 1)
    ELSE IF t = 10 THEN 12 + g
    ELSE IF t = 11 THEN 12 + g + f
    ELSE IF t <= 16 THEN 12 + g + 2 * f + 4 * (t - 12)
    ELSE IF t <= 19 THEN 4 + 4 * (t - 17)
    ELSE IF t <= 21 THEN 28 + g + 3 * f + 4 * (t - 20)
    ELSE IF t <= 24 THEN 36 + g + 3 * f + f * (t - 22)
    ELSE 68 + g + 6 * f + m + 4 * (t - 25)

Said(t) == IF t <= 6 THEN 0 ELSE IF t <= 13 THEN 1 ELSE IF t <= 18 THEN 2
           ELSE IF t <= 21 THEN 3 ELSE IF t <= 26 THEN 4 ELSE 5

CallsAt(t, m, f, g) ==
    /\ out = Counting(Said(t))
    /\ t \in {6, 13, 18, 21, 26} => regs[T0] = Said(t) + 1
    /\ t = 2 => regs[SP] = Wrap(Immediate(Lui(SP, DATA + 64)))
    /\ t \in (3 .. 10) \cup (24 .. 28) => regs[SP] = DATA + 64
    /\ t \in 11 .. 23 => regs[SP] = DATA + 60
    /\ t = 4 => regs[S2] = Wrap(Immediate(Lui(S2, CSR_MMIO_UART)))
    /\ t >= 5 => regs[S2] = CSR_MMIO_UART
    /\ t = 8 => regs[T1] = Wrap(Immediate(Lui(T1, TEXT + (12 + g))))
    /\ t = 9 => regs[T1] = TEXT + (12 + g)
    /\ t = 15 => regs[T1] = Wrap(Immediate(Lui(T1, TEXT + 4)))
    /\ t = 16 => regs[T1] = TEXT + 4
    /\ t \in (10 .. 16) \cup (23 .. 24) => regs[RA] = TEXT + (68 + g + 6 * f + m)
    /\ t \in 17 .. 22 => regs[RA] = TEXT + (28 + g + 3 * f)
    /\ t \in 12 .. 22 => Value(DATA + 60, 4) = TEXT + (68 + g + 6 * f + m)

CallsFacts(m, f, g) ==
    /\ mtime \in 0 .. 28 /\ CallsAt(mtime, m, f, g)
    /\ state = "RUNNING" => mtime < 28 /\ pc = TEXT + CallPlace(mtime, m, f, g)
    /\ state # "RUNNING" => mtime = 28 /\ state = "HALTED"


\* The numbers of the program.
LEMMA CallsNumbers ==
  ASSUME CInv, TextFits(28), DataFits(64)
  PROVE  /\ regs \in [Registers -> Words] /\ regs[0] = 0 /\ Words = 0 .. Size - 1
         /\ Size \in Nat /\ MemSize \in Nat /\ MemSize < Size
         /\ TEXT \in Nat /\ TEXT % 2 = 0 /\ TEXT + 112 <= MemSize
         /\ DATA \in Nat /\ DATA % 4 = 0 /\ DATA + 64 <= MemSize
         /\ CSR_MMIO_UART \in Words /\ ByteSize \in Nat /\ ByteSize > 5 /\ Size >= 4096
<1>1. regs \in [Registers -> Words] /\ regs[0] = 0
  BY DEF CInv, CTypeOK
<1>2. /\ Words = 0 .. Size - 1 /\ Size \in Nat /\ Size >= 4096
      /\ MemSize \in Nat /\ MemSize < Size
  BY MemoryAssumption, WordSizes
<1>3. TEXT \in Nat /\ TEXT % 2 = 0 /\ TEXT + 112 <= MemSize
  BY DEF TextFits
<1>4. DATA \in Nat /\ DATA % 4 = 0 /\ DATA + 64 <= MemSize
  BY DEF DataFits
<1>5. CSR_MMIO_UART \in Words
  BY Outside
<1>6. ByteSize \in Nat /\ ByteSize > 5
  <2> DEFINE b == ByteSize
  <2>1. b \in Nat \ {0} /\ Size = (b * b) * (b * b)
    BY ByteSizes
  <2> HIDE DEF b
  <2>2. CASE b <= 5
    <3>1. b * b \in Nat /\ b * b <= 25
      <4>1. b \in 1 .. 5
        BY ONLY <2>1, <2>2
      <4> QED BY ONLY <4>1
    <3> DEFINE s == b * b
    <3>2. s \in 0 .. 25
      BY ONLY <3>1
    <3> HIDE DEF s
    <3>3. s * s <= 25 * 25
      BY ONLY <3>2
    <3>4. Size = s * s
      BY <2>1 DEF s
    <3> QED BY ONLY <1>2, <3>3, <3>4
  <2>3. b \in Nat
    BY <2>1
  <2> QED BY ONLY <2>2, <2>3 DEF b
<1> QED BY ONLY <1>1, <1>2, <1>3, <1>4, <1>5, <1>6

\* One more is said.
LEMMA SayOn ==
  ASSUME ByteSize \in Nat, ByteSize > 5, NEW j \in 0 .. 4
  PROVE  Append(Counting(j), (j + 1) % ByteSize) = Counting(j + 1)
<1>1. (j + 1) % ByteSize = j + 1
  OBVIOUS
<1> DEFINE s == <<j + 1>>
<1>2. s = [k \in 1 .. 1 |-> j + k]
  OBVIOUS
<1> HIDE DEF s
<1>3. Counting(j) \o s = Counting(j + 1)
  <2>1. j \in Nat /\ 1 \in Nat
    OBVIOUS
  <2> QED BY ONLY <1>2, <2>1, CountingOn
<1>4. Counting(j) \in Seq(Nat) /\ j + 1 \in Nat
  BY DEF Counting
<1> DEFINE c == Counting(j)
<1> HIDE DEF c
<1>5. Append(c, j + 1) = c \o <<j + 1>>
  BY ONLY <1>4, AppendIsConcat DEF c
<1> QED BY ONLY <1>1, <1>3, <1>5 DEF c, s


\* A step of the program.
LEMMA CallsStep ==
  ASSUME CInv, Step, XLEN <= 32, TextFits(28), DataFits(64),
         NEW m \in {2, 4}, NEW f \in {2, 4}, NEW g \in {2, 4},
         CallsText(boot.code, m, f, g), CallsFacts(m, f, g)
  PROVE  CallsFacts(m, f, g)'
<1>0. /\ regs \in [Registers -> Words] /\ regs[0] = 0 /\ Words = 0 .. Size - 1
      /\ Size \in Nat /\ MemSize \in Nat /\ MemSize < Size /\ Size >= 4096
      /\ TEXT \in Nat /\ TEXT % 2 = 0 /\ TEXT + 112 <= MemSize
      /\ DATA \in Nat /\ DATA % 4 = 0 /\ DATA + 64 <= MemSize
      /\ CSR_MMIO_UART \in Words /\ ByteSize \in Nat /\ ByteSize > 5
      /\ m \in {2, 4} /\ f \in {2, 4} /\ g \in {2, 4}
  BY CallsNumbers
<1>a. state = "RUNNING" /\ CallsText(boot.code, m, f, g) /\ CallsFacts(m, f, g)
  BY DEF Step, Going
<1>b. mtime \in 0 .. 27 /\ CallsAt(mtime, m, f, g) /\ pc = TEXT + CallPlace(mtime, m, f, g)
  BY <1>a DEF CallsFacts
<1>c. /\ {T0, T1, S2, RA, SP} \subseteq 1 .. 31 /\ {T0, T1, S2, RA, SP} \subseteq Registers
      /\ 0 \in Registers
  BY InRange, NamedCodes
<1>d. /\ T0 # T1 /\ T0 # S2 /\ T0 # RA /\ T0 # SP /\ T1 # S2 /\ T1 # RA /\ T1 # SP
      /\ S2 # RA /\ S2 # SP /\ RA # SP /\ RA # 0
  BY ONLY Named
<1>e. ASSUME NEW w, NEW a \in Nat, Holds(boot.code, a, w), pc = a, a % 2 = 0, a + 4 <= MemSize
      PROVE  AtWord(w)
  BY ONLY <1>e DEF AtWord
<1>f. ASSUME NEW w, NEW n, NEW a \in Nat, Lies(boot.code, a, w, n), pc = a, a % 2 = 0,
             a + n <= MemSize
      PROVE  AtEither(w, n)
  BY ONLY <1>f DEF AtEither
<1>g. ASSUME NEW r \in {T0, T1, S2, RA, SP}, NEW v, Writes(r, v)
      PROVE  /\ Moves /\ pc' = pc + 4 /\ mem' = mem /\ out' = out
             /\ regs' = [regs EXCEPT ![r] = v]
  BY ONLY <1>a, <1>g DEF Writes, Advances, Moves
<1>h. mem' = mem => Value(DATA + 60, 4)' = Value(DATA + 60, 4)
  BY DEF Value, Byte
<1>j. ASSUME NEW r \in {T0, T1, S2, RA, SP}, NEW v, regs' = [regs EXCEPT ![r] = v]
      PROVE  regs'[r] = v /\ \A q \in {T0, T1, S2, RA, SP} : q # r => regs'[q] = regs[q]
  BY ONLY <1>0, <1>c, <1>j
<1>i. DATA + 64 \in Words /\ DATA + 60 \in Words /\ TEXT + 4 \in Words /\ TEXT + (12 + g) \in Words
  BY ONLY <1>0
<1>1. CASE mtime = 0
  <2>1. pc = TEXT /\ out = Counting(0)
    <3>1. CallsAt(0, m, f, g) /\ pc = TEXT + CallPlace(0, m, f, g)
      BY ONLY <1>b, <1>1
    <3>2. TEXT + CallPlace(0, m, f, g) = TEXT
      BY ONLY <1>0 DEF CallPlace
    <3>3. Said(0) = 0
      BY ONLY DEF Said
    <3> QED BY ONLY <3>1, <3>2, <3>3 DEF CallsAt
  <2>2. AtWord(enc_j(36 + g + 6 * f, 0, OP_JAL))
    <3>1. Holds(boot.code, TEXT, enc_j(36 + g + 6 * f, 0, OP_JAL))
      BY ONLY <1>a DEF CallsText
    <3>2. /\ TEXT \in Nat /\ (TEXT) % 2 = 0
          /\ (TEXT) + 4 <= MemSize
      BY ONLY <1>0
    <3> QED BY ONLY <1>e, <2>1, <3>1, <3>2
  <2>3. Moves /\ pc' = TEXT + (36 + g + 6 * f) /\ regs' = regs /\ mem' = mem /\ out' = out
    <3> DEFINE d == 36 + g + 6 * f
    <3>1. /\ d \in Int /\ -1048576 <= d /\ d < 1048576 /\ d % 2 = 0 /\ pc + d \in Words
          /\ pc + d = TEXT + d /\ AtWord(enc_j(d, 0, OP_JAL))
      BY ONLY <1>0, <2>1, <2>2
    <3> HIDE DEF d
    <3>2. Moves /\ pc' = pc + d /\ UNCHANGED <<regs, mem, out>>
      BY ONLY <3>1, CInv, Step, JalRuns
    <3> QED BY ONLY <3>1, <3>2 DEF d
  <2>4. mtime' = 1 /\ state' = "RUNNING" /\ pc' = TEXT + (36 + g + 6 * f)
    BY ONLY <1>0, <1>1, <2>1, <2>3 DEF Moves
  <2>5. out' = Counting(0)
    BY ONLY <2>1, <2>3
  <2>6. CallsAt(1, m, f, g)'
    <3>1. Said(1) = 0
      BY ONLY DEF Said
    <3> QED BY ONLY <2>5, <3>1 DEF CallsAt
  <2>7. TEXT + CallPlace(1, m, f, g) = TEXT + (36 + g + 6 * f)
    BY ONLY <1>0 DEF CallPlace
  <2> QED BY ONLY <2>4, <2>6, <2>7 DEF CallsFacts
<1>2. CASE mtime = 1
  <2>1. pc = TEXT + (36 + g + 6 * f) /\ out = Counting(0)
    <3>1. CallsAt(1, m, f, g) /\ pc = TEXT + CallPlace(1, m, f, g)
      BY ONLY <1>b, <1>2
    <3>2. TEXT + CallPlace(1, m, f, g) = TEXT + (36 + g + 6 * f)
      BY ONLY <1>0 DEF CallPlace
    <3>3. Said(1) = 0
      BY ONLY DEF Said
    <3> QED BY ONLY <3>1, <3>2, <3>3 DEF CallsAt
  <2>2. AtWord(Lui(SP, DATA + 64))
    <3>1. Holds(boot.code, TEXT + (36 + g + 6 * f), Lui(SP, DATA + 64))
      BY ONLY <1>a DEF CallsText
    <3>2. /\ TEXT + (36 + g + 6 * f) \in Nat /\ (TEXT + (36 + g + 6 * f)) % 2 = 0
          /\ (TEXT + (36 + g + 6 * f)) + 4 <= MemSize
      BY ONLY <1>0
    <3> QED BY ONLY <1>e, <2>1, <3>1, <3>2
  <2>3. /\ Moves /\ pc' = pc + 4 /\ mem' = mem /\ out' = out
        /\ regs' = [regs EXCEPT ![SP] = Wrap(Immediate(Lui(SP, DATA + 64)))]
    <3>1. Writes(SP, Wrap(Immediate(Lui(SP, DATA + 64))))
      <4> DEFINE v == DATA + 64
      <4>1. SP \in 1 .. 31 /\ v \in Words /\ AtWord(Lui(SP, v))
        BY ONLY <1>0, <1>c, <1>i, <2>2
      <4> HIDE DEF v
      <4>2. Writes(SP, Wrap(Immediate(Lui(SP, v))))
        BY ONLY <4>1, CInv, Step, LuiRuns
      <4> QED BY ONLY <4>2 DEF v
    <3> QED BY ONLY <1>g, <3>1
  <2>4. mtime' = 2 /\ state' = "RUNNING" /\ pc' = TEXT + (40 + g + 6 * f)
    BY ONLY <1>0, <1>2, <2>1, <2>3 DEF Moves
  <2>e. regs'[SP] = Wrap(Immediate(Lui(SP, DATA + 64)))
    BY ONLY <1>d, <1>j, <2>3
  <2>5. out' = Counting(0) /\ regs'[SP] = Wrap(Immediate(Lui(SP, DATA + 64)))
    BY ONLY <2>1, <2>3, <2>e
  <2>6. CallsAt(2, m, f, g)'
    <3>1. Said(2) = 0
      BY ONLY DEF Said
    <3> QED BY ONLY <2>5, <3>1 DEF CallsAt
  <2>7. TEXT + CallPlace(2, m, f, g) = TEXT + (40 + g + 6 * f)
    BY ONLY <1>0 DEF CallPlace
  <2> QED BY ONLY <2>4, <2>6, <2>7 DEF CallsFacts
<1>3. CASE mtime = 2
  <2>1. /\ pc = TEXT + (40 + g + 6 * f) /\ out = Counting(0)
        /\ regs[SP] = Wrap(Immediate(Lui(SP, DATA + 64)))
    <3>1. CallsAt(2, m, f, g) /\ pc = TEXT + CallPlace(2, m, f, g)
      BY ONLY <1>b, <1>3
    <3>2. TEXT + CallPlace(2, m, f, g) = TEXT + (40 + g + 6 * f)
      BY ONLY <1>0 DEF CallPlace
    <3>3. Said(2) = 0
      BY ONLY DEF Said
    <3> QED BY ONLY <3>1, <3>2, <3>3 DEF CallsAt
  <2>2. AtWord(Addi(SP, DATA + 64))
    <3>1. Holds(boot.code, TEXT + (40 + g + 6 * f), Addi(SP, DATA + 64))
      BY ONLY <1>a DEF CallsText
    <3>2. /\ TEXT + (40 + g + 6 * f) \in Nat /\ (TEXT + (40 + g + 6 * f)) % 2 = 0
          /\ (TEXT + (40 + g + 6 * f)) + 4 <= MemSize
      BY ONLY <1>0
    <3> QED BY ONLY <1>e, <2>1, <3>1, <3>2
  <2>3. /\ Moves /\ pc' = pc + 4 /\ mem' = mem /\ out' = out
        /\ regs' = [regs EXCEPT ![SP] = DATA + 64]
    <3>1. Writes(SP, DATA + 64)
      <4> DEFINE v == DATA + 64
      <4>1. /\ SP \in 1 .. 31 /\ v \in Words /\ AtWord(Addi(SP, v))
            /\ regs[SP] = Wrap(Immediate(Lui(SP, v)))
        BY ONLY <1>0, <1>c, <1>i, <2>1, <2>2
      <4> HIDE DEF v
      <4>2. Writes(SP, v)
        BY ONLY <4>1, CInv, Step, XLEN <= 32, AddiRuns
      <4> QED BY ONLY <4>2 DEF v
    <3> QED BY ONLY <1>g, <3>1
  <2>4. mtime' = 3 /\ state' = "RUNNING" /\ pc' = TEXT + (44 + g + 6 * f)
    BY ONLY <1>0, <1>3, <2>1, <2>3 DEF Moves
  <2>e. regs'[SP] = DATA + 64
    BY ONLY <1>d, <1>j, <2>3
  <2>5. out' = Counting(0) /\ regs'[SP] = DATA + 64
    BY ONLY <2>1, <2>3, <2>e
  <2>6. CallsAt(3, m, f, g)'
    <3>1. Said(3) = 0
      BY ONLY DEF Said
    <3> QED BY ONLY <2>5, <3>1 DEF CallsAt
  <2>7. TEXT + CallPlace(3, m, f, g) = TEXT + (44 + g + 6 * f)
    BY ONLY <1>0 DEF CallPlace
  <2> QED BY ONLY <2>4, <2>6, <2>7 DEF CallsFacts
<1>4. CASE mtime = 3
  <2>1. pc = TEXT + (44 + g + 6 * f) /\ out = Counting(0) /\ regs[SP] = DATA + 64
    <3>1. CallsAt(3, m, f, g) /\ pc = TEXT + CallPlace(3, m, f, g)
      BY ONLY <1>b, <1>4
    <3>2. TEXT + CallPlace(3, m, f, g) = TEXT + (44 + g + 6 * f)
      BY ONLY <1>0 DEF CallPlace
    <3>3. Said(3) = 0
      BY ONLY DEF Said
    <3> QED BY ONLY <3>1, <3>2, <3>3 DEF CallsAt
  <2>2. AtWord(Lui(S2, CSR_MMIO_UART))
    <3>1. Holds(boot.code, TEXT + (44 + g + 6 * f), Lui(S2, CSR_MMIO_UART))
      BY ONLY <1>a DEF CallsText
    <3>2. /\ TEXT + (44 + g + 6 * f) \in Nat /\ (TEXT + (44 + g + 6 * f)) % 2 = 0
          /\ (TEXT + (44 + g + 6 * f)) + 4 <= MemSize
      BY ONLY <1>0
    <3> QED BY ONLY <1>e, <2>1, <3>1, <3>2
  <2>3. /\ Moves /\ pc' = pc + 4 /\ mem' = mem /\ out' = out
        /\ regs' = [regs EXCEPT ![S2] = Wrap(Immediate(Lui(S2, CSR_MMIO_UART)))]
    <3>1. Writes(S2, Wrap(Immediate(Lui(S2, CSR_MMIO_UART))))
      <4> DEFINE v == CSR_MMIO_UART
      <4>1. S2 \in 1 .. 31 /\ v \in Words /\ AtWord(Lui(S2, v))
        BY ONLY <1>0, <1>c, <1>i, <2>2
      <4> HIDE DEF v
      <4>2. Writes(S2, Wrap(Immediate(Lui(S2, v))))
        BY ONLY <4>1, CInv, Step, LuiRuns
      <4> QED BY ONLY <4>2 DEF v
    <3> QED BY ONLY <1>g, <3>1
  <2>4. mtime' = 4 /\ state' = "RUNNING" /\ pc' = TEXT + (48 + g + 6 * f)
    BY ONLY <1>0, <1>4, <2>1, <2>3 DEF Moves
  <2>e. regs'[S2] = Wrap(Immediate(Lui(S2, CSR_MMIO_UART))) /\ regs'[SP] = regs[SP]
    BY ONLY <1>d, <1>j, <2>3
  <2>5. /\ out' = Counting(0) /\ regs'[SP] = DATA + 64
        /\ regs'[S2] = Wrap(Immediate(Lui(S2, CSR_MMIO_UART)))
    BY ONLY <2>1, <2>3, <2>e
  <2>6. CallsAt(4, m, f, g)'
    <3>1. Said(4) = 0
      BY ONLY DEF Said
    <3> QED BY ONLY <2>5, <3>1 DEF CallsAt
  <2>7. TEXT + CallPlace(4, m, f, g) = TEXT + (48 + g + 6 * f)
    BY ONLY <1>0 DEF CallPlace
  <2> QED BY ONLY <2>4, <2>6, <2>7 DEF CallsFacts
<1>5. CASE mtime = 4
  <2>1. /\ pc = TEXT + (48 + g + 6 * f) /\ out = Counting(0) /\ regs[SP] = DATA + 64
        /\ regs[S2] = Wrap(Immediate(Lui(S2, CSR_MMIO_UART)))
    <3>1. CallsAt(4, m, f, g) /\ pc = TEXT + CallPlace(4, m, f, g)
      BY ONLY <1>b, <1>5
    <3>2. TEXT + CallPlace(4, m, f, g) = TEXT + (48 + g + 6 * f)
      BY ONLY <1>0 DEF CallPlace
    <3>3. Said(4) = 0
      BY ONLY DEF Said
    <3> QED BY ONLY <3>1, <3>2, <3>3 DEF CallsAt
  <2>2. AtWord(Addi(S2, CSR_MMIO_UART))
    <3>1. Holds(boot.code, TEXT + (48 + g + 6 * f), Addi(S2, CSR_MMIO_UART))
      BY ONLY <1>a DEF CallsText
    <3>2. /\ TEXT + (48 + g + 6 * f) \in Nat /\ (TEXT + (48 + g + 6 * f)) % 2 = 0
          /\ (TEXT + (48 + g + 6 * f)) + 4 <= MemSize
      BY ONLY <1>0
    <3> QED BY ONLY <1>e, <2>1, <3>1, <3>2
  <2>3. /\ Moves /\ pc' = pc + 4 /\ mem' = mem /\ out' = out
        /\ regs' = [regs EXCEPT ![S2] = CSR_MMIO_UART]
    <3>1. Writes(S2, CSR_MMIO_UART)
      <4> DEFINE v == CSR_MMIO_UART
      <4>1. /\ S2 \in 1 .. 31 /\ v \in Words /\ AtWord(Addi(S2, v))
            /\ regs[S2] = Wrap(Immediate(Lui(S2, v)))
        BY ONLY <1>0, <1>c, <1>i, <2>1, <2>2
      <4> HIDE DEF v
      <4>2. Writes(S2, v)
        BY ONLY <4>1, CInv, Step, XLEN <= 32, AddiRuns
      <4> QED BY ONLY <4>2 DEF v
    <3> QED BY ONLY <1>g, <3>1
  <2>4. mtime' = 5 /\ state' = "RUNNING" /\ pc' = TEXT + (52 + g + 6 * f)
    BY ONLY <1>0, <1>5, <2>1, <2>3 DEF Moves
  <2>e. regs'[S2] = CSR_MMIO_UART /\ regs'[SP] = regs[SP]
    BY ONLY <1>d, <1>j, <2>3
  <2>5. out' = Counting(0) /\ regs'[SP] = DATA + 64 /\ regs'[S2] = CSR_MMIO_UART
    BY ONLY <2>1, <2>3, <2>e
  <2>6. CallsAt(5, m, f, g)'
    <3>1. Said(5) = 0
      BY ONLY DEF Said
    <3> QED BY ONLY <2>5, <3>1 DEF CallsAt
  <2>7. TEXT + CallPlace(5, m, f, g) = TEXT + (52 + g + 6 * f)
    BY ONLY <1>0 DEF CallPlace
  <2> QED BY ONLY <2>4, <2>6, <2>7 DEF CallsFacts
<1>6. CASE mtime = 5
  <2>1. /\ pc = TEXT + (52 + g + 6 * f) /\ out = Counting(0) /\ regs[SP] = DATA + 64
        /\ regs[S2] = CSR_MMIO_UART
    <3>1. CallsAt(5, m, f, g) /\ pc = TEXT + CallPlace(5, m, f, g)
      BY ONLY <1>b, <1>6
    <3>2. TEXT + CallPlace(5, m, f, g) = TEXT + (52 + g + 6 * f)
      BY ONLY <1>0 DEF CallPlace
    <3>3. Said(5) = 0
      BY ONLY DEF Said
    <3> QED BY ONLY <3>1, <3>2, <3>3 DEF CallsAt
  <2>2. AtWord(SetWord(1))
    <3>1. Holds(boot.code, TEXT + (52 + g + 6 * f), SetWord(1))
      BY ONLY <1>a DEF CallsText
    <3>2. /\ TEXT + (52 + g + 6 * f) \in Nat /\ (TEXT + (52 + g + 6 * f)) % 2 = 0
          /\ (TEXT + (52 + g + 6 * f)) + 4 <= MemSize
      BY ONLY <1>0
    <3> QED BY ONLY <1>e, <2>1, <3>1, <3>2
  <2>3. /\ Moves /\ pc' = pc + 4 /\ mem' = mem /\ out' = out
        /\ regs' = [regs EXCEPT ![T0] = 1]
    <3>1. Writes(T0, 1)
      <4>1. /\ 1 \in Int /\ -2048 <= 1 /\ 1 < 2048 /\ regs[0] + 1 = 1
            /\ regs[0] + 1 \in Words /\ AtWord(enc_i(1, 0, 0, T0, OP_ALUI))
        BY ONLY <1>0, <2>2 DEF SetWord
      <4>2. Writes(T0, regs[0] + 1)
        BY ONLY <1>c, <4>1, CInv, Step, BumpRuns
      <4> QED BY ONLY <4>1, <4>2
    <3> QED BY ONLY <1>g, <3>1
  <2>4. mtime' = 6 /\ state' = "RUNNING" /\ pc' = TEXT + (56 + g + 6 * f)
    BY ONLY <1>0, <1>6, <2>1, <2>3 DEF Moves
  <2>e. regs'[T0] = 1 /\ regs'[SP] = regs[SP] /\ regs'[S2] = regs[S2]
    BY ONLY <1>d, <1>j, <2>3
  <2>5. /\ out' = Counting(0) /\ regs'[T0] = 1 /\ regs'[SP] = DATA + 64
        /\ regs'[S2] = CSR_MMIO_UART
    BY ONLY <2>1, <2>3, <2>e
  <2>6. CallsAt(6, m, f, g)'
    <3>1. Said(6) = 0
      BY ONLY DEF Said
    <3> QED BY ONLY <2>5, <3>1 DEF CallsAt
  <2>7. TEXT + CallPlace(6, m, f, g) = TEXT + (56 + g + 6 * f)
    BY ONLY <1>0 DEF CallPlace
  <2> QED BY ONLY <2>4, <2>6, <2>7 DEF CallsFacts
<1>7. CASE mtime = 6
  <2>1. /\ pc = TEXT + (56 + g + 6 * f) /\ out = Counting(0) /\ regs[T0] = 1
        /\ regs[SP] = DATA + 64 /\ regs[S2] = CSR_MMIO_UART
    <3>1. CallsAt(6, m, f, g) /\ pc = TEXT + CallPlace(6, m, f, g)
      BY ONLY <1>b, <1>7
    <3>2. TEXT + CallPlace(6, m, f, g) = TEXT + (56 + g + 6 * f)
      BY ONLY <1>0 DEF CallPlace
    <3>3. Said(6) = 0
      BY ONLY DEF Said
    <3> QED BY ONLY <3>1, <3>2, <3>3 DEF CallsAt
  <2>2. AtWord(OutWord)
    <3>1. Holds(boot.code, TEXT + (56 + g + 6 * f), OutWord)
      BY ONLY <1>a DEF CallsText
    <3>2. /\ TEXT + (56 + g + 6 * f) \in Nat /\ (TEXT + (56 + g + 6 * f)) % 2 = 0
          /\ (TEXT + (56 + g + 6 * f)) + 4 <= MemSize
      BY ONLY <1>0
    <3> QED BY ONLY <1>e, <2>1, <3>1, <3>2
  <2>3. Moves /\ pc' = pc + 4 /\ mem' = mem /\ out' = Counting(1) /\ regs' = regs
    <3>1. /\ Moves /\ pc' = pc + 4 /\ out' = Append(out, regs[T0] % ByteSize)
          /\ UNCHANGED <<regs, mem>>
      BY ONLY <1>c, <2>1, <2>2, CInv, Step, PrintRuns DEF OutWord
    <3>2. Append(Counting(0), 1 % ByteSize) = Counting(1)
      <4>1. 0 \in 0 .. 4 /\ 0 + 1 = 1
        OBVIOUS
      <4> QED BY ONLY <1>0, <4>1, SayOn
    <3> QED BY ONLY <2>1, <3>1, <3>2
  <2>4. mtime' = 7 /\ state' = "RUNNING" /\ pc' = TEXT + (60 + g + 6 * f)
    BY ONLY <1>0, <1>7, <2>1, <2>3 DEF Moves
  <2>5. out' = Counting(1) /\ regs'[SP] = DATA + 64 /\ regs'[S2] = CSR_MMIO_UART
    BY ONLY <2>1, <2>3
  <2>6. CallsAt(7, m, f, g)'
    <3>1. Said(7) = 1
      BY ONLY DEF Said
    <3> QED BY ONLY <2>5, <3>1 DEF CallsAt
  <2>7. TEXT + CallPlace(7, m, f, g) = TEXT + (60 + g + 6 * f)
    BY ONLY <1>0 DEF CallPlace
  <2> QED BY ONLY <2>4, <2>6, <2>7 DEF CallsFacts
<1>8. CASE mtime = 7
  <2>1. /\ pc = TEXT + (60 + g + 6 * f) /\ out = Counting(1) /\ regs[SP] = DATA + 64
        /\ regs[S2] = CSR_MMIO_UART
    <3>1. CallsAt(7, m, f, g) /\ pc = TEXT + CallPlace(7, m, f, g)
      BY ONLY <1>b, <1>8
    <3>2. TEXT + CallPlace(7, m, f, g) = TEXT + (60 + g + 6 * f)
      BY ONLY <1>0 DEF CallPlace
    <3>3. Said(7) = 1
      BY ONLY DEF Said
    <3> QED BY ONLY <3>1, <3>2, <3>3 DEF CallsAt
  <2>2. AtWord(Lui(T1, TEXT + (12 + g)))
    <3>1. Holds(boot.code, TEXT + (60 + g + 6 * f), Lui(T1, TEXT + (12 + g)))
      BY ONLY <1>a DEF CallsText
    <3>2. /\ TEXT + (60 + g + 6 * f) \in Nat /\ (TEXT + (60 + g + 6 * f)) % 2 = 0
          /\ (TEXT + (60 + g + 6 * f)) + 4 <= MemSize
      BY ONLY <1>0
    <3> QED BY ONLY <1>e, <2>1, <3>1, <3>2
  <2>3. /\ Moves /\ pc' = pc + 4 /\ mem' = mem /\ out' = out
        /\ regs' = [regs EXCEPT ![T1] = Wrap(Immediate(Lui(T1, TEXT + (12 + g))))]
    <3>1. Writes(T1, Wrap(Immediate(Lui(T1, TEXT + (12 + g)))))
      <4> DEFINE v == TEXT + (12 + g)
      <4>1. T1 \in 1 .. 31 /\ v \in Words /\ AtWord(Lui(T1, v))
        BY ONLY <1>0, <1>c, <1>i, <2>2
      <4> HIDE DEF v
      <4>2. Writes(T1, Wrap(Immediate(Lui(T1, v))))
        BY ONLY <4>1, CInv, Step, LuiRuns
      <4> QED BY ONLY <4>2 DEF v
    <3> QED BY ONLY <1>g, <3>1
  <2>4. mtime' = 8 /\ state' = "RUNNING" /\ pc' = TEXT + (64 + g + 6 * f)
    BY ONLY <1>0, <1>8, <2>1, <2>3 DEF Moves
  <2>e. /\ regs'[T1] = Wrap(Immediate(Lui(T1, TEXT + (12 + g)))) /\ regs'[SP] = regs[SP]
        /\ regs'[S2] = regs[S2]
    BY ONLY <1>d, <1>j, <2>3
  <2>5. /\ out' = Counting(1) /\ regs'[SP] = DATA + 64 /\ regs'[S2] = CSR_MMIO_UART
        /\ regs'[T1] = Wrap(Immediate(Lui(T1, TEXT + (12 + g))))
    BY ONLY <2>1, <2>3, <2>e
  <2>6. CallsAt(8, m, f, g)'
    <3>1. Said(8) = 1
      BY ONLY DEF Said
    <3> QED BY ONLY <2>5, <3>1 DEF CallsAt
  <2>7. TEXT + CallPlace(8, m, f, g) = TEXT + (64 + g + 6 * f)
    BY ONLY <1>0 DEF CallPlace
  <2> QED BY ONLY <2>4, <2>6, <2>7 DEF CallsFacts
<1>9. CASE mtime = 8
  <2>1. /\ pc = TEXT + (64 + g + 6 * f) /\ out = Counting(1) /\ regs[SP] = DATA + 64
        /\ regs[S2] = CSR_MMIO_UART /\ regs[T1] = Wrap(Immediate(Lui(T1, TEXT + (12 + g))))
    <3>1. CallsAt(8, m, f, g) /\ pc = TEXT + CallPlace(8, m, f, g)
      BY ONLY <1>b, <1>9
    <3>2. TEXT + CallPlace(8, m, f, g) = TEXT + (64 + g + 6 * f)
      BY ONLY <1>0 DEF CallPlace
    <3>3. Said(8) = 1
      BY ONLY DEF Said
    <3> QED BY ONLY <3>1, <3>2, <3>3 DEF CallsAt
  <2>2. AtWord(Addi(T1, TEXT + (12 + g)))
    <3>1. Holds(boot.code, TEXT + (64 + g + 6 * f), Addi(T1, TEXT + (12 + g)))
      BY ONLY <1>a DEF CallsText
    <3>2. /\ TEXT + (64 + g + 6 * f) \in Nat /\ (TEXT + (64 + g + 6 * f)) % 2 = 0
          /\ (TEXT + (64 + g + 6 * f)) + 4 <= MemSize
      BY ONLY <1>0
    <3> QED BY ONLY <1>e, <2>1, <3>1, <3>2
  <2>3. /\ Moves /\ pc' = pc + 4 /\ mem' = mem /\ out' = out
        /\ regs' = [regs EXCEPT ![T1] = TEXT + (12 + g)]
    <3>1. Writes(T1, TEXT + (12 + g))
      <4> DEFINE v == TEXT + (12 + g)
      <4>1. /\ T1 \in 1 .. 31 /\ v \in Words /\ AtWord(Addi(T1, v))
            /\ regs[T1] = Wrap(Immediate(Lui(T1, v)))
        BY ONLY <1>0, <1>c, <1>i, <2>1, <2>2
      <4> HIDE DEF v
      <4>2. Writes(T1, v)
        BY ONLY <4>1, CInv, Step, XLEN <= 32, AddiRuns
      <4> QED BY ONLY <4>2 DEF v
    <3> QED BY ONLY <1>g, <3>1
  <2>4. mtime' = 9 /\ state' = "RUNNING" /\ pc' = TEXT + (68 + g + 6 * f)
    BY ONLY <1>0, <1>9, <2>1, <2>3 DEF Moves
  <2>e. regs'[T1] = TEXT + (12 + g) /\ regs'[SP] = regs[SP] /\ regs'[S2] = regs[S2]
    BY ONLY <1>d, <1>j, <2>3
  <2>5. /\ out' = Counting(1) /\ regs'[SP] = DATA + 64 /\ regs'[S2] = CSR_MMIO_UART
        /\ regs'[T1] = TEXT + (12 + g)
    BY ONLY <2>1, <2>3, <2>e
  <2>6. CallsAt(9, m, f, g)'
    <3>1. Said(9) = 1
      BY ONLY DEF Said
    <3> QED BY ONLY <2>5, <3>1 DEF CallsAt
  <2>7. TEXT + CallPlace(9, m, f, g) = TEXT + (68 + g + 6 * f)
    BY ONLY <1>0 DEF CallPlace
  <2> QED BY ONLY <2>4, <2>6, <2>7 DEF CallsFacts
<1>10. CASE mtime = 9
  <2>1. /\ pc = TEXT + (68 + g + 6 * f) /\ out = Counting(1) /\ regs[SP] = DATA + 64
        /\ regs[S2] = CSR_MMIO_UART /\ regs[T1] = TEXT + (12 + g)
    <3>1. CallsAt(9, m, f, g) /\ pc = TEXT + CallPlace(9, m, f, g)
      BY ONLY <1>b, <1>10
    <3>2. TEXT + CallPlace(9, m, f, g) = TEXT + (68 + g + 6 * f)
      BY ONLY <1>0 DEF CallPlace
    <3>3. Said(9) = 1
      BY ONLY DEF Said
    <3> QED BY ONLY <3>1, <3>2, <3>3 DEF CallsAt
  <2>2. AtEither(CallWord, m)
    <3>1. Lies(boot.code, TEXT + (68 + g + 6 * f), CallWord, m)
      BY ONLY <1>a DEF CallsText
    <3>2. /\ TEXT + (68 + g + 6 * f) \in Nat /\ (TEXT + (68 + g + 6 * f)) % 2 = 0
          /\ (TEXT + (68 + g + 6 * f)) + m <= MemSize
      BY ONLY <1>0
    <3> QED BY ONLY <1>f, <2>1, <3>1, <3>2
  <2>3. /\ Moves /\ pc' = TEXT + (12 + g) /\ mem' = mem /\ out' = out
        /\ regs' = [regs EXCEPT ![RA] = TEXT + (68 + g + 6 * f + m)]
    <3>1. regs[T1] % 2 = 0 /\ pc + m = TEXT + (68 + g + 6 * f + m)
      BY ONLY <1>0, <2>1
    <3>2. /\ Moves /\ pc' = regs[T1] /\ UNCHANGED <<mem, out>>
          /\ regs' = IF RA = 0 THEN regs ELSE [regs EXCEPT ![RA] = pc + m]
      <4>1. /\ m \in {2, 4} /\ RA \in Registers /\ T1 \in Registers
            /\ AtEither(enc_i(0, T1, 0, RA, OP_JALR), m)
        BY ONLY <1>0, <1>c, <2>2 DEF CallWord
      <4> QED BY ONLY <3>1, <4>1, CInv, Step, JalrRuns
    <3> QED BY ONLY <1>d, <2>1, <3>1, <3>2
  <2>4. mtime' = 10 /\ state' = "RUNNING" /\ pc' = TEXT + (12 + g)
    BY ONLY <1>0, <1>10, <2>1, <2>3 DEF Moves
  <2>e. regs'[RA] = TEXT + (68 + g + 6 * f + m) /\ regs'[SP] = regs[SP] /\ regs'[S2] = regs[S2]
    BY ONLY <1>d, <1>j, <2>3
  <2>5. /\ out' = Counting(1) /\ regs'[SP] = DATA + 64 /\ regs'[S2] = CSR_MMIO_UART
        /\ regs'[RA] = TEXT + (68 + g + 6 * f + m)
    BY ONLY <2>1, <2>3, <2>e
  <2>6. CallsAt(10, m, f, g)'
    <3>1. Said(10) = 1
      BY ONLY DEF Said
    <3> QED BY ONLY <2>5, <3>1 DEF CallsAt
  <2>7. TEXT + CallPlace(10, m, f, g) = TEXT + (12 + g)
    BY ONLY <1>0 DEF CallPlace
  <2> QED BY ONLY <2>4, <2>6, <2>7 DEF CallsFacts
<1>11. CASE mtime = 10
  <2>1. /\ pc = TEXT + (12 + g) /\ out = Counting(1) /\ regs[SP] = DATA + 64
        /\ regs[S2] = CSR_MMIO_UART /\ regs[RA] = TEXT + (68 + g + 6 * f + m)
    <3>1. CallsAt(10, m, f, g) /\ pc = TEXT + CallPlace(10, m, f, g)
      BY ONLY <1>b, <1>11
    <3>2. TEXT + CallPlace(10, m, f, g) = TEXT + (12 + g)
      BY ONLY <1>0 DEF CallPlace
    <3>3. Said(10) = 1
      BY ONLY DEF Said
    <3> QED BY ONLY <3>1, <3>2, <3>3 DEF CallsAt
  <2>2. AtEither(GrowWord, f)
    <3>1. Lies(boot.code, TEXT + (12 + g), GrowWord, f)
      BY ONLY <1>a DEF CallsText
    <3>2. /\ TEXT + (12 + g) \in Nat /\ (TEXT + (12 + g)) % 2 = 0
          /\ (TEXT + (12 + g)) + f <= MemSize
      BY ONLY <1>0
    <3> QED BY ONLY <1>f, <2>1, <3>1, <3>2
  <2>3. /\ Moves /\ pc' = pc + f /\ mem' = mem /\ out' = out
        /\ regs' = [regs EXCEPT ![SP] = DATA + 60]
    <3> DEFINE i == -4
    <3>1. /\ i \in Int /\ -2048 <= i /\ i < 2048 /\ regs[SP] + i = DATA + 60
          /\ regs[SP] + i \in Words /\ AtEither(enc_i(i, SP, 0, SP, OP_ALUI), f)
          /\ SP \in 1 .. 31 /\ f \in {2, 4}
      BY ONLY <1>0, <1>c, <1>i, <2>1, <2>2 DEF GrowWord
    <3> HIDE DEF i
    <3>2. /\ Moves /\ pc' = pc + f /\ regs' = [regs EXCEPT ![SP] = regs[SP] + i]
          /\ UNCHANGED <<mem, out>>
      BY ONLY <3>1, CInv, Step, EitherBumps
    <3>3. PICK v : v = regs[SP] + i /\ regs' = [regs EXCEPT ![SP] = v]
      BY ONLY <3>2, Zenon
    <3>4. v = DATA + 60
      BY ONLY <3>1, <3>3
    <3> QED BY ONLY <3>2, <3>3, <3>4
  <2>4. mtime' = 11 /\ state' = "RUNNING" /\ pc' = TEXT + (12 + g + f)
    BY ONLY <1>0, <1>11, <2>1, <2>3 DEF Moves
  <2>e. regs'[SP] = DATA + 60 /\ regs'[S2] = regs[S2] /\ regs'[RA] = regs[RA]
    BY ONLY <1>d, <1>j, <2>3
  <2>5. /\ out' = Counting(1) /\ regs'[SP] = DATA + 60 /\ regs'[S2] = CSR_MMIO_UART
        /\ regs'[RA] = TEXT + (68 + g + 6 * f + m)
    BY ONLY <2>1, <2>3, <2>e
  <2>6. CallsAt(11, m, f, g)'
    <3>1. Said(11) = 1
      BY ONLY DEF Said
    <3> QED BY ONLY <2>5, <3>1 DEF CallsAt
  <2>7. TEXT + CallPlace(11, m, f, g) = TEXT + (12 + g + f)
    BY ONLY <1>0 DEF CallPlace
  <2> QED BY ONLY <2>4, <2>6, <2>7 DEF CallsFacts
<1>12. CASE mtime = 11
  <2>1. /\ pc = TEXT + (12 + g + f) /\ out = Counting(1) /\ regs[SP] = DATA + 60
        /\ regs[S2] = CSR_MMIO_UART /\ regs[RA] = TEXT + (68 + g + 6 * f + m)
    <3>1. CallsAt(11, m, f, g) /\ pc = TEXT + CallPlace(11, m, f, g)
      BY ONLY <1>b, <1>12
    <3>2. TEXT + CallPlace(11, m, f, g) = TEXT + (12 + g + f)
      BY ONLY <1>0 DEF CallPlace
    <3>3. Said(11) = 1
      BY ONLY DEF Said
    <3> QED BY ONLY <3>1, <3>2, <3>3 DEF CallsAt
  <2>2. AtEither(SaveWord, f)
    <3>1. Lies(boot.code, TEXT + (12 + g + f), SaveWord, f)
      BY ONLY <1>a DEF CallsText
    <3>2. /\ TEXT + (12 + g + f) \in Nat /\ (TEXT + (12 + g + f)) % 2 = 0
          /\ (TEXT + (12 + g + f)) + f <= MemSize
      BY ONLY <1>0
    <3> QED BY ONLY <1>f, <2>1, <3>1, <3>2
  <2>3. /\ Moves /\ pc' = pc + f /\ regs' = regs /\ out' = out
        /\ Value(DATA + 60, 4)' = TEXT + (68 + g + 6 * f + m)
    <3>1. Names(SP, 0, DATA + 60, 4)
      <4>1. regs[SP] + 0 = DATA + 60 /\ DATA + 60 \in Words /\ (DATA + 60) % 4 = 0
        BY ONLY <1>0, <2>1
      <4>2. Wrap(regs[SP] + 0) = DATA + 60
        BY ONLY <4>1, WrapWord
      <4> QED BY ONLY <1>0, <4>1, <4>2 DEF Names
    <3>2. /\ Moves /\ pc' = pc + f /\ mem' = Stored(DATA + 60, 4, regs[RA])
          /\ UNCHANGED <<regs, out>>
      BY ONLY <1>0, <1>c, <2>2, <3>1, CInv, Step, EitherStores DEF SaveWord
    <3>3. DATA + 60 \in Int /\ regs[RA] \in Words
      BY ONLY <1>0, <1>c
    <3>4. Value(DATA + 60, 4)' = regs[RA]
      BY ONLY <3>2, <3>3, StoredLoads
    <3> QED BY ONLY <2>1, <3>2, <3>4
  <2>4. mtime' = 12 /\ state' = "RUNNING" /\ pc' = TEXT + (12 + g + 2 * f)
    BY ONLY <1>0, <1>12, <2>1, <2>3 DEF Moves
  <2>5. /\ out' = Counting(1) /\ regs'[SP] = DATA + 60 /\ regs'[S2] = CSR_MMIO_UART
        /\ regs'[RA] = TEXT + (68 + g + 6 * f + m)
        /\ Value(DATA + 60, 4)' = TEXT + (68 + g + 6 * f + m)
    BY ONLY <2>1, <2>3
  <2>6. CallsAt(12, m, f, g)'
    <3>1. Said(12) = 1
      BY ONLY DEF Said
    <3> QED BY ONLY <2>5, <3>1 DEF CallsAt
  <2>7. TEXT + CallPlace(12, m, f, g) = TEXT + (12 + g + 2 * f)
    BY ONLY <1>0 DEF CallPlace
  <2> QED BY ONLY <2>4, <2>6, <2>7 DEF CallsFacts
<1>13. CASE mtime = 12
  <2>1. /\ pc = TEXT + (12 + g + 2 * f) /\ out = Counting(1) /\ regs[SP] = DATA + 60
        /\ regs[S2] = CSR_MMIO_UART /\ regs[RA] = TEXT + (68 + g + 6 * f + m)
        /\ Value(DATA + 60, 4) = TEXT + (68 + g + 6 * f + m)
    <3>1. CallsAt(12, m, f, g) /\ pc = TEXT + CallPlace(12, m, f, g)
      BY ONLY <1>b, <1>13
    <3>2. TEXT + CallPlace(12, m, f, g) = TEXT + (12 + g + 2 * f)
      BY ONLY <1>0 DEF CallPlace
    <3>3. Said(12) = 1
      BY ONLY DEF Said
    <3> QED BY ONLY <3>1, <3>2, <3>3 DEF CallsAt
  <2>2. AtWord(SetWord(2))
    <3>1. Holds(boot.code, TEXT + (12 + g + 2 * f), SetWord(2))
      BY ONLY <1>a DEF CallsText
    <3>2. /\ TEXT + (12 + g + 2 * f) \in Nat /\ (TEXT + (12 + g + 2 * f)) % 2 = 0
          /\ (TEXT + (12 + g + 2 * f)) + 4 <= MemSize
      BY ONLY <1>0
    <3> QED BY ONLY <1>e, <2>1, <3>1, <3>2
  <2>3. /\ Moves /\ pc' = pc + 4 /\ mem' = mem /\ out' = out
        /\ regs' = [regs EXCEPT ![T0] = 2]
    <3>1. Writes(T0, 2)
      <4>1. /\ 2 \in Int /\ -2048 <= 2 /\ 2 < 2048 /\ regs[0] + 2 = 2
            /\ regs[0] + 2 \in Words /\ AtWord(enc_i(2, 0, 0, T0, OP_ALUI))
        BY ONLY <1>0, <2>2 DEF SetWord
      <4>2. Writes(T0, regs[0] + 2)
        BY ONLY <1>c, <4>1, CInv, Step, BumpRuns
      <4> QED BY ONLY <4>1, <4>2
    <3> QED BY ONLY <1>g, <3>1
  <2>4. mtime' = 13 /\ state' = "RUNNING" /\ pc' = TEXT + (16 + g + 2 * f)
    BY ONLY <1>0, <1>13, <2>1, <2>3 DEF Moves
  <2>e. regs'[T0] = 2 /\ regs'[SP] = regs[SP] /\ regs'[S2] = regs[S2] /\ regs'[RA] = regs[RA]
    BY ONLY <1>d, <1>j, <2>3
  <2>5. /\ out' = Counting(1) /\ regs'[T0] = 2 /\ regs'[SP] = DATA + 60
        /\ regs'[S2] = CSR_MMIO_UART /\ regs'[RA] = TEXT + (68 + g + 6 * f + m)
        /\ Value(DATA + 60, 4)' = TEXT + (68 + g + 6 * f + m)
    <3>1. Value(DATA + 60, 4)' = TEXT + (68 + g + 6 * f + m)
      BY ONLY <1>h, <2>1, <2>3
    <3>2. /\ out' = Counting(1) /\ regs'[T0] = 2 /\ regs'[SP] = DATA + 60
          /\ regs'[S2] = CSR_MMIO_UART /\ regs'[RA] = TEXT + (68 + g + 6 * f + m)
      BY ONLY <2>1, <2>3, <2>e
    <3> QED BY ONLY <3>1, <3>2
  <2>6. CallsAt(13, m, f, g)'
    <3>1. Said(13) = 1
      BY ONLY DEF Said
    <3> QED BY ONLY <2>5, <3>1 DEF CallsAt
  <2>7. TEXT + CallPlace(13, m, f, g) = TEXT + (16 + g + 2 * f)
    BY ONLY <1>0 DEF CallPlace
  <2> QED BY ONLY <2>4, <2>6, <2>7 DEF CallsFacts
<1>14. CASE mtime = 13
  <2>1. /\ pc = TEXT + (16 + g + 2 * f) /\ out = Counting(1) /\ regs[T0] = 2
        /\ regs[SP] = DATA + 60 /\ regs[S2] = CSR_MMIO_UART
        /\ regs[RA] = TEXT + (68 + g + 6 * f + m)
        /\ Value(DATA + 60, 4) = TEXT + (68 + g + 6 * f + m)
    <3>1. CallsAt(13, m, f, g) /\ pc = TEXT + CallPlace(13, m, f, g)
      BY ONLY <1>b, <1>14
    <3>2. TEXT + CallPlace(13, m, f, g) = TEXT + (16 + g + 2 * f)
      BY ONLY <1>0 DEF CallPlace
    <3>3. Said(13) = 1
      BY ONLY DEF Said
    <3> QED BY ONLY <3>1, <3>2, <3>3 DEF CallsAt
  <2>2. AtWord(OutWord)
    <3>1. Holds(boot.code, TEXT + (16 + g + 2 * f), OutWord)
      BY ONLY <1>a DEF CallsText
    <3>2. /\ TEXT + (16 + g + 2 * f) \in Nat /\ (TEXT + (16 + g + 2 * f)) % 2 = 0
          /\ (TEXT + (16 + g + 2 * f)) + 4 <= MemSize
      BY ONLY <1>0
    <3> QED BY ONLY <1>e, <2>1, <3>1, <3>2
  <2>3. Moves /\ pc' = pc + 4 /\ mem' = mem /\ out' = Counting(2) /\ regs' = regs
    <3>1. /\ Moves /\ pc' = pc + 4 /\ out' = Append(out, regs[T0] % ByteSize)
          /\ UNCHANGED <<regs, mem>>
      BY ONLY <1>c, <2>1, <2>2, CInv, Step, PrintRuns DEF OutWord
    <3>2. Append(Counting(1), 2 % ByteSize) = Counting(2)
      <4>1. 1 \in 0 .. 4 /\ 1 + 1 = 2
        OBVIOUS
      <4> QED BY ONLY <1>0, <4>1, SayOn
    <3> QED BY ONLY <2>1, <3>1, <3>2
  <2>4. mtime' = 14 /\ state' = "RUNNING" /\ pc' = TEXT + (20 + g + 2 * f)
    BY ONLY <1>0, <1>14, <2>1, <2>3 DEF Moves
  <2>5. /\ out' = Counting(2) /\ regs'[SP] = DATA + 60 /\ regs'[S2] = CSR_MMIO_UART
        /\ regs'[RA] = TEXT + (68 + g + 6 * f + m)
        /\ Value(DATA + 60, 4)' = TEXT + (68 + g + 6 * f + m)
    <3>1. Value(DATA + 60, 4)' = TEXT + (68 + g + 6 * f + m)
      BY ONLY <1>h, <2>1, <2>3
    <3>2. /\ out' = Counting(2) /\ regs'[SP] = DATA + 60 /\ regs'[S2] = CSR_MMIO_UART
          /\ regs'[RA] = TEXT + (68 + g + 6 * f + m)
      BY ONLY <2>1, <2>3
    <3> QED BY ONLY <3>1, <3>2
  <2>6. CallsAt(14, m, f, g)'
    <3>1. Said(14) = 2
      BY ONLY DEF Said
    <3> QED BY ONLY <2>5, <3>1 DEF CallsAt
  <2>7. TEXT + CallPlace(14, m, f, g) = TEXT + (20 + g + 2 * f)
    BY ONLY <1>0 DEF CallPlace
  <2> QED BY ONLY <2>4, <2>6, <2>7 DEF CallsFacts
<1>15. CASE mtime = 14
  <2>1. /\ pc = TEXT + (20 + g + 2 * f) /\ out = Counting(2) /\ regs[SP] = DATA + 60
        /\ regs[S2] = CSR_MMIO_UART /\ regs[RA] = TEXT + (68 + g + 6 * f + m)
        /\ Value(DATA + 60, 4) = TEXT + (68 + g + 6 * f + m)
    <3>1. CallsAt(14, m, f, g) /\ pc = TEXT + CallPlace(14, m, f, g)
      BY ONLY <1>b, <1>15
    <3>2. TEXT + CallPlace(14, m, f, g) = TEXT + (20 + g + 2 * f)
      BY ONLY <1>0 DEF CallPlace
    <3>3. Said(14) = 2
      BY ONLY DEF Said
    <3> QED BY ONLY <3>1, <3>2, <3>3 DEF CallsAt
  <2>2. AtWord(Lui(T1, TEXT + 4))
    <3>1. Holds(boot.code, TEXT + (20 + g + 2 * f), Lui(T1, TEXT + 4))
      BY ONLY <1>a DEF CallsText
    <3>2. /\ TEXT + (20 + g + 2 * f) \in Nat /\ (TEXT + (20 + g + 2 * f)) % 2 = 0
          /\ (TEXT + (20 + g + 2 * f)) + 4 <= MemSize
      BY ONLY <1>0
    <3> QED BY ONLY <1>e, <2>1, <3>1, <3>2
  <2>3. /\ Moves /\ pc' = pc + 4 /\ mem' = mem /\ out' = out
        /\ regs' = [regs EXCEPT ![T1] = Wrap(Immediate(Lui(T1, TEXT + 4)))]
    <3>1. Writes(T1, Wrap(Immediate(Lui(T1, TEXT + 4))))
      <4> DEFINE v == TEXT + 4
      <4>1. T1 \in 1 .. 31 /\ v \in Words /\ AtWord(Lui(T1, v))
        BY ONLY <1>0, <1>c, <1>i, <2>2
      <4> HIDE DEF v
      <4>2. Writes(T1, Wrap(Immediate(Lui(T1, v))))
        BY ONLY <4>1, CInv, Step, LuiRuns
      <4> QED BY ONLY <4>2 DEF v
    <3> QED BY ONLY <1>g, <3>1
  <2>4. mtime' = 15 /\ state' = "RUNNING" /\ pc' = TEXT + (24 + g + 2 * f)
    BY ONLY <1>0, <1>15, <2>1, <2>3 DEF Moves
  <2>e. /\ regs'[T1] = Wrap(Immediate(Lui(T1, TEXT + 4))) /\ regs'[SP] = regs[SP]
        /\ regs'[S2] = regs[S2] /\ regs'[RA] = regs[RA]
    BY ONLY <1>d, <1>j, <2>3
  <2>5. /\ out' = Counting(2) /\ regs'[SP] = DATA + 60 /\ regs'[S2] = CSR_MMIO_UART
        /\ regs'[T1] = Wrap(Immediate(Lui(T1, TEXT + 4)))
        /\ regs'[RA] = TEXT + (68 + g + 6 * f + m)
        /\ Value(DATA + 60, 4)' = TEXT + (68 + g + 6 * f + m)
    <3>1. Value(DATA + 60, 4)' = TEXT + (68 + g + 6 * f + m)
      BY ONLY <1>h, <2>1, <2>3
    <3>2. /\ out' = Counting(2) /\ regs'[SP] = DATA + 60 /\ regs'[S2] = CSR_MMIO_UART
          /\ regs'[T1] = Wrap(Immediate(Lui(T1, TEXT + 4)))
          /\ regs'[RA] = TEXT + (68 + g + 6 * f + m)
      BY ONLY <2>1, <2>3, <2>e
    <3> QED BY ONLY <3>1, <3>2
  <2>6. CallsAt(15, m, f, g)'
    <3>1. Said(15) = 2
      BY ONLY DEF Said
    <3> QED BY ONLY <2>5, <3>1 DEF CallsAt
  <2>7. TEXT + CallPlace(15, m, f, g) = TEXT + (24 + g + 2 * f)
    BY ONLY <1>0 DEF CallPlace
  <2> QED BY ONLY <2>4, <2>6, <2>7 DEF CallsFacts
<1>16. CASE mtime = 15
  <2>1. /\ pc = TEXT + (24 + g + 2 * f) /\ out = Counting(2) /\ regs[SP] = DATA + 60
        /\ regs[S2] = CSR_MMIO_UART /\ regs[T1] = Wrap(Immediate(Lui(T1, TEXT + 4)))
        /\ regs[RA] = TEXT + (68 + g + 6 * f + m)
        /\ Value(DATA + 60, 4) = TEXT + (68 + g + 6 * f + m)
    <3>1. CallsAt(15, m, f, g) /\ pc = TEXT + CallPlace(15, m, f, g)
      BY ONLY <1>b, <1>16
    <3>2. TEXT + CallPlace(15, m, f, g) = TEXT + (24 + g + 2 * f)
      BY ONLY <1>0 DEF CallPlace
    <3>3. Said(15) = 2
      BY ONLY DEF Said
    <3> QED BY ONLY <3>1, <3>2, <3>3 DEF CallsAt
  <2>2. AtWord(Addi(T1, TEXT + 4))
    <3>1. Holds(boot.code, TEXT + (24 + g + 2 * f), Addi(T1, TEXT + 4))
      BY ONLY <1>a DEF CallsText
    <3>2. /\ TEXT + (24 + g + 2 * f) \in Nat /\ (TEXT + (24 + g + 2 * f)) % 2 = 0
          /\ (TEXT + (24 + g + 2 * f)) + 4 <= MemSize
      BY ONLY <1>0
    <3> QED BY ONLY <1>e, <2>1, <3>1, <3>2
  <2>3. /\ Moves /\ pc' = pc + 4 /\ mem' = mem /\ out' = out
        /\ regs' = [regs EXCEPT ![T1] = TEXT + 4]
    <3>1. Writes(T1, TEXT + 4)
      <4> DEFINE v == TEXT + 4
      <4>1. /\ T1 \in 1 .. 31 /\ v \in Words /\ AtWord(Addi(T1, v))
            /\ regs[T1] = Wrap(Immediate(Lui(T1, v)))
        BY ONLY <1>0, <1>c, <1>i, <2>1, <2>2
      <4> HIDE DEF v
      <4>2. Writes(T1, v)
        BY ONLY <4>1, CInv, Step, XLEN <= 32, AddiRuns
      <4> QED BY ONLY <4>2 DEF v
    <3> QED BY ONLY <1>g, <3>1
  <2>4. mtime' = 16 /\ state' = "RUNNING" /\ pc' = TEXT + (28 + g + 2 * f)
    BY ONLY <1>0, <1>16, <2>1, <2>3 DEF Moves
  <2>e. /\ regs'[T1] = TEXT + 4 /\ regs'[SP] = regs[SP] /\ regs'[S2] = regs[S2]
        /\ regs'[RA] = regs[RA]
    BY ONLY <1>d, <1>j, <2>3
  <2>5. /\ out' = Counting(2) /\ regs'[SP] = DATA + 60 /\ regs'[S2] = CSR_MMIO_UART
        /\ regs'[T1] = TEXT + 4 /\ regs'[RA] = TEXT + (68 + g + 6 * f + m)
        /\ Value(DATA + 60, 4)' = TEXT + (68 + g + 6 * f + m)
    <3>1. Value(DATA + 60, 4)' = TEXT + (68 + g + 6 * f + m)
      BY ONLY <1>h, <2>1, <2>3
    <3>2. /\ out' = Counting(2) /\ regs'[SP] = DATA + 60 /\ regs'[S2] = CSR_MMIO_UART
          /\ regs'[T1] = TEXT + 4 /\ regs'[RA] = TEXT + (68 + g + 6 * f + m)
      BY ONLY <2>1, <2>3, <2>e
    <3> QED BY ONLY <3>1, <3>2
  <2>6. CallsAt(16, m, f, g)'
    <3>1. Said(16) = 2
      BY ONLY DEF Said
    <3> QED BY ONLY <2>5, <3>1 DEF CallsAt
  <2>7. TEXT + CallPlace(16, m, f, g) = TEXT + (28 + g + 2 * f)
    BY ONLY <1>0 DEF CallPlace
  <2> QED BY ONLY <2>4, <2>6, <2>7 DEF CallsFacts
<1>17. CASE mtime = 16
  <2>1. /\ pc = TEXT + (28 + g + 2 * f) /\ out = Counting(2) /\ regs[SP] = DATA + 60
        /\ regs[S2] = CSR_MMIO_UART /\ regs[T1] = TEXT + 4
        /\ regs[RA] = TEXT + (68 + g + 6 * f + m)
        /\ Value(DATA + 60, 4) = TEXT + (68 + g + 6 * f + m)
    <3>1. CallsAt(16, m, f, g) /\ pc = TEXT + CallPlace(16, m, f, g)
      BY ONLY <1>b, <1>17
    <3>2. TEXT + CallPlace(16, m, f, g) = TEXT + (28 + g + 2 * f)
      BY ONLY <1>0 DEF CallPlace
    <3>3. Said(16) = 2
      BY ONLY DEF Said
    <3> QED BY ONLY <3>1, <3>2, <3>3 DEF CallsAt
  <2>2. AtEither(CallWord, f)
    <3>1. Lies(boot.code, TEXT + (28 + g + 2 * f), CallWord, f)
      BY ONLY <1>a DEF CallsText
    <3>2. /\ TEXT + (28 + g + 2 * f) \in Nat /\ (TEXT + (28 + g + 2 * f)) % 2 = 0
          /\ (TEXT + (28 + g + 2 * f)) + f <= MemSize
      BY ONLY <1>0
    <3> QED BY ONLY <1>f, <2>1, <3>1, <3>2
  <2>3. /\ Moves /\ pc' = TEXT + 4 /\ mem' = mem /\ out' = out
        /\ regs' = [regs EXCEPT ![RA] = TEXT + (28 + g + 3 * f)]
    <3>1. regs[T1] % 2 = 0 /\ pc + f = TEXT + (28 + g + 3 * f)
      BY ONLY <1>0, <2>1
    <3>2. /\ Moves /\ pc' = regs[T1] /\ UNCHANGED <<mem, out>>
          /\ regs' = IF RA = 0 THEN regs ELSE [regs EXCEPT ![RA] = pc + f]
      <4>1. /\ f \in {2, 4} /\ RA \in Registers /\ T1 \in Registers
            /\ AtEither(enc_i(0, T1, 0, RA, OP_JALR), f)
        BY ONLY <1>0, <1>c, <2>2 DEF CallWord
      <4> QED BY ONLY <3>1, <4>1, CInv, Step, JalrRuns
    <3> QED BY ONLY <1>d, <2>1, <3>1, <3>2
  <2>4. mtime' = 17 /\ state' = "RUNNING" /\ pc' = TEXT + 4
    BY ONLY <1>0, <1>17, <2>1, <2>3 DEF Moves
  <2>e. regs'[RA] = TEXT + (28 + g + 3 * f) /\ regs'[SP] = regs[SP] /\ regs'[S2] = regs[S2]
    BY ONLY <1>d, <1>j, <2>3
  <2>5. /\ out' = Counting(2) /\ regs'[SP] = DATA + 60 /\ regs'[S2] = CSR_MMIO_UART
        /\ regs'[RA] = TEXT + (28 + g + 3 * f)
        /\ Value(DATA + 60, 4)' = TEXT + (68 + g + 6 * f + m)
    <3>1. Value(DATA + 60, 4)' = TEXT + (68 + g + 6 * f + m)
      BY ONLY <1>h, <2>1, <2>3
    <3>2. /\ out' = Counting(2) /\ regs'[SP] = DATA + 60 /\ regs'[S2] = CSR_MMIO_UART
          /\ regs'[RA] = TEXT + (28 + g + 3 * f)
      BY ONLY <2>1, <2>3, <2>e
    <3> QED BY ONLY <3>1, <3>2
  <2>6. CallsAt(17, m, f, g)'
    <3>1. Said(17) = 2
      BY ONLY DEF Said
    <3> QED BY ONLY <2>5, <3>1 DEF CallsAt
  <2>7. TEXT + CallPlace(17, m, f, g) = TEXT + 4
    BY ONLY <1>0 DEF CallPlace
  <2> QED BY ONLY <2>4, <2>6, <2>7 DEF CallsFacts
<1>18. CASE mtime = 17
  <2>1. /\ pc = TEXT + 4 /\ out = Counting(2) /\ regs[SP] = DATA + 60 /\ regs[S2] = CSR_MMIO_UART
        /\ regs[RA] = TEXT + (28 + g + 3 * f) /\ Value(DATA + 60, 4) = TEXT + (68 + g + 6 * f + m)
    <3>1. CallsAt(17, m, f, g) /\ pc = TEXT + CallPlace(17, m, f, g)
      BY ONLY <1>b, <1>18
    <3>2. TEXT + CallPlace(17, m, f, g) = TEXT + 4
      BY ONLY <1>0 DEF CallPlace
    <3>3. Said(17) = 2
      BY ONLY DEF Said
    <3> QED BY ONLY <3>1, <3>2, <3>3 DEF CallsAt
  <2>2. AtWord(SetWord(3))
    <3>1. Holds(boot.code, TEXT + 4, SetWord(3))
      BY ONLY <1>a DEF CallsText
    <3>2. /\ TEXT + 4 \in Nat /\ (TEXT + 4) % 2 = 0
          /\ (TEXT + 4) + 4 <= MemSize
      BY ONLY <1>0
    <3> QED BY ONLY <1>e, <2>1, <3>1, <3>2
  <2>3. /\ Moves /\ pc' = pc + 4 /\ mem' = mem /\ out' = out
        /\ regs' = [regs EXCEPT ![T0] = 3]
    <3>1. Writes(T0, 3)
      <4>1. /\ 3 \in Int /\ -2048 <= 3 /\ 3 < 2048 /\ regs[0] + 3 = 3
            /\ regs[0] + 3 \in Words /\ AtWord(enc_i(3, 0, 0, T0, OP_ALUI))
        BY ONLY <1>0, <2>2 DEF SetWord
      <4>2. Writes(T0, regs[0] + 3)
        BY ONLY <1>c, <4>1, CInv, Step, BumpRuns
      <4> QED BY ONLY <4>1, <4>2
    <3> QED BY ONLY <1>g, <3>1
  <2>4. mtime' = 18 /\ state' = "RUNNING" /\ pc' = TEXT + 8
    BY ONLY <1>0, <1>18, <2>1, <2>3 DEF Moves
  <2>e. regs'[T0] = 3 /\ regs'[SP] = regs[SP] /\ regs'[S2] = regs[S2] /\ regs'[RA] = regs[RA]
    BY ONLY <1>d, <1>j, <2>3
  <2>5. /\ out' = Counting(2) /\ regs'[T0] = 3 /\ regs'[SP] = DATA + 60
        /\ regs'[S2] = CSR_MMIO_UART /\ regs'[RA] = TEXT + (28 + g + 3 * f)
        /\ Value(DATA + 60, 4)' = TEXT + (68 + g + 6 * f + m)
    <3>1. Value(DATA + 60, 4)' = TEXT + (68 + g + 6 * f + m)
      BY ONLY <1>h, <2>1, <2>3
    <3>2. /\ out' = Counting(2) /\ regs'[T0] = 3 /\ regs'[SP] = DATA + 60
          /\ regs'[S2] = CSR_MMIO_UART /\ regs'[RA] = TEXT + (28 + g + 3 * f)
      BY ONLY <2>1, <2>3, <2>e
    <3> QED BY ONLY <3>1, <3>2
  <2>6. CallsAt(18, m, f, g)'
    <3>1. Said(18) = 2
      BY ONLY DEF Said
    <3> QED BY ONLY <2>5, <3>1 DEF CallsAt
  <2>7. TEXT + CallPlace(18, m, f, g) = TEXT + 8
    BY ONLY <1>0 DEF CallPlace
  <2> QED BY ONLY <2>4, <2>6, <2>7 DEF CallsFacts
<1>19. CASE mtime = 18
  <2>1. /\ pc = TEXT + 8 /\ out = Counting(2) /\ regs[T0] = 3 /\ regs[SP] = DATA + 60
        /\ regs[S2] = CSR_MMIO_UART /\ regs[RA] = TEXT + (28 + g + 3 * f)
        /\ Value(DATA + 60, 4) = TEXT + (68 + g + 6 * f + m)
    <3>1. CallsAt(18, m, f, g) /\ pc = TEXT + CallPlace(18, m, f, g)
      BY ONLY <1>b, <1>19
    <3>2. TEXT + CallPlace(18, m, f, g) = TEXT + 8
      BY ONLY <1>0 DEF CallPlace
    <3>3. Said(18) = 2
      BY ONLY DEF Said
    <3> QED BY ONLY <3>1, <3>2, <3>3 DEF CallsAt
  <2>2. AtWord(OutWord)
    <3>1. Holds(boot.code, TEXT + 8, OutWord)
      BY ONLY <1>a DEF CallsText
    <3>2. /\ TEXT + 8 \in Nat /\ (TEXT + 8) % 2 = 0
          /\ (TEXT + 8) + 4 <= MemSize
      BY ONLY <1>0
    <3> QED BY ONLY <1>e, <2>1, <3>1, <3>2
  <2>3. Moves /\ pc' = pc + 4 /\ mem' = mem /\ out' = Counting(3) /\ regs' = regs
    <3>1. /\ Moves /\ pc' = pc + 4 /\ out' = Append(out, regs[T0] % ByteSize)
          /\ UNCHANGED <<regs, mem>>
      BY ONLY <1>c, <2>1, <2>2, CInv, Step, PrintRuns DEF OutWord
    <3>2. Append(Counting(2), 3 % ByteSize) = Counting(3)
      <4>1. 2 \in 0 .. 4 /\ 2 + 1 = 3
        OBVIOUS
      <4> QED BY ONLY <1>0, <4>1, SayOn
    <3> QED BY ONLY <2>1, <3>1, <3>2
  <2>4. mtime' = 19 /\ state' = "RUNNING" /\ pc' = TEXT + 12
    BY ONLY <1>0, <1>19, <2>1, <2>3 DEF Moves
  <2>5. /\ out' = Counting(3) /\ regs'[SP] = DATA + 60 /\ regs'[S2] = CSR_MMIO_UART
        /\ regs'[RA] = TEXT + (28 + g + 3 * f)
        /\ Value(DATA + 60, 4)' = TEXT + (68 + g + 6 * f + m)
    <3>1. Value(DATA + 60, 4)' = TEXT + (68 + g + 6 * f + m)
      BY ONLY <1>h, <2>1, <2>3
    <3>2. /\ out' = Counting(3) /\ regs'[SP] = DATA + 60 /\ regs'[S2] = CSR_MMIO_UART
          /\ regs'[RA] = TEXT + (28 + g + 3 * f)
      BY ONLY <2>1, <2>3
    <3> QED BY ONLY <3>1, <3>2
  <2>6. CallsAt(19, m, f, g)'
    <3>1. Said(19) = 3
      BY ONLY DEF Said
    <3> QED BY ONLY <2>5, <3>1 DEF CallsAt
  <2>7. TEXT + CallPlace(19, m, f, g) = TEXT + 12
    BY ONLY <1>0 DEF CallPlace
  <2> QED BY ONLY <2>4, <2>6, <2>7 DEF CallsFacts
<1>20. CASE mtime = 19
  <2>1. /\ pc = TEXT + 12 /\ out = Counting(3) /\ regs[SP] = DATA + 60 /\ regs[S2] = CSR_MMIO_UART
        /\ regs[RA] = TEXT + (28 + g + 3 * f) /\ Value(DATA + 60, 4) = TEXT + (68 + g + 6 * f + m)
    <3>1. CallsAt(19, m, f, g) /\ pc = TEXT + CallPlace(19, m, f, g)
      BY ONLY <1>b, <1>20
    <3>2. TEXT + CallPlace(19, m, f, g) = TEXT + 12
      BY ONLY <1>0 DEF CallPlace
    <3>3. Said(19) = 3
      BY ONLY DEF Said
    <3> QED BY ONLY <3>1, <3>2, <3>3 DEF CallsAt
  <2>2. AtEither(RetWord, g)
    <3>1. Lies(boot.code, TEXT + 12, RetWord, g)
      BY ONLY <1>a DEF CallsText
    <3>2. /\ TEXT + 12 \in Nat /\ (TEXT + 12) % 2 = 0
          /\ (TEXT + 12) + g <= MemSize
      BY ONLY <1>0
    <3> QED BY ONLY <1>f, <2>1, <3>1, <3>2
  <2>3. Moves /\ pc' = TEXT + (28 + g + 3 * f) /\ regs' = regs /\ mem' = mem /\ out' = out
    <3>1. regs[RA] % 2 = 0 /\ regs[RA] = TEXT + (28 + g + 3 * f)
      BY ONLY <1>0, <2>1
    <3>2. /\ Moves /\ pc' = regs[RA] /\ UNCHANGED <<mem, out>>
          /\ regs' = IF 0 = 0 THEN regs ELSE [regs EXCEPT ![0] = pc + g]
      BY ONLY <1>0, <1>c, <2>2, <3>1, CInv, Step, JalrRuns DEF RetWord
    <3> QED BY ONLY <3>1, <3>2
  <2>4. mtime' = 20 /\ state' = "RUNNING" /\ pc' = TEXT + (28 + g + 3 * f)
    BY ONLY <1>0, <1>20, <2>1, <2>3 DEF Moves
  <2>5. /\ out' = Counting(3) /\ regs'[SP] = DATA + 60 /\ regs'[S2] = CSR_MMIO_UART
        /\ regs'[RA] = TEXT + (28 + g + 3 * f)
        /\ Value(DATA + 60, 4)' = TEXT + (68 + g + 6 * f + m)
    <3>1. Value(DATA + 60, 4)' = TEXT + (68 + g + 6 * f + m)
      BY ONLY <1>h, <2>1, <2>3
    <3>2. /\ out' = Counting(3) /\ regs'[SP] = DATA + 60 /\ regs'[S2] = CSR_MMIO_UART
          /\ regs'[RA] = TEXT + (28 + g + 3 * f)
      BY ONLY <2>1, <2>3
    <3> QED BY ONLY <3>1, <3>2
  <2>6. CallsAt(20, m, f, g)'
    <3>1. Said(20) = 3
      BY ONLY DEF Said
    <3> QED BY ONLY <2>5, <3>1 DEF CallsAt
  <2>7. TEXT + CallPlace(20, m, f, g) = TEXT + (28 + g + 3 * f)
    BY ONLY <1>0 DEF CallPlace
  <2> QED BY ONLY <2>4, <2>6, <2>7 DEF CallsFacts
<1>21. CASE mtime = 20
  <2>1. /\ pc = TEXT + (28 + g + 3 * f) /\ out = Counting(3) /\ regs[SP] = DATA + 60
        /\ regs[S2] = CSR_MMIO_UART /\ regs[RA] = TEXT + (28 + g + 3 * f)
        /\ Value(DATA + 60, 4) = TEXT + (68 + g + 6 * f + m)
    <3>1. CallsAt(20, m, f, g) /\ pc = TEXT + CallPlace(20, m, f, g)
      BY ONLY <1>b, <1>21
    <3>2. TEXT + CallPlace(20, m, f, g) = TEXT + (28 + g + 3 * f)
      BY ONLY <1>0 DEF CallPlace
    <3>3. Said(20) = 3
      BY ONLY DEF Said
    <3> QED BY ONLY <3>1, <3>2, <3>3 DEF CallsAt
  <2>2. AtWord(SetWord(4))
    <3>1. Holds(boot.code, TEXT + (28 + g + 3 * f), SetWord(4))
      BY ONLY <1>a DEF CallsText
    <3>2. /\ TEXT + (28 + g + 3 * f) \in Nat /\ (TEXT + (28 + g + 3 * f)) % 2 = 0
          /\ (TEXT + (28 + g + 3 * f)) + 4 <= MemSize
      BY ONLY <1>0
    <3> QED BY ONLY <1>e, <2>1, <3>1, <3>2
  <2>3. /\ Moves /\ pc' = pc + 4 /\ mem' = mem /\ out' = out
        /\ regs' = [regs EXCEPT ![T0] = 4]
    <3>1. Writes(T0, 4)
      <4>1. /\ 4 \in Int /\ -2048 <= 4 /\ 4 < 2048 /\ regs[0] + 4 = 4
            /\ regs[0] + 4 \in Words /\ AtWord(enc_i(4, 0, 0, T0, OP_ALUI))
        BY ONLY <1>0, <2>2 DEF SetWord
      <4>2. Writes(T0, regs[0] + 4)
        BY ONLY <1>c, <4>1, CInv, Step, BumpRuns
      <4> QED BY ONLY <4>1, <4>2
    <3> QED BY ONLY <1>g, <3>1
  <2>4. mtime' = 21 /\ state' = "RUNNING" /\ pc' = TEXT + (32 + g + 3 * f)
    BY ONLY <1>0, <1>21, <2>1, <2>3 DEF Moves
  <2>e. regs'[T0] = 4 /\ regs'[SP] = regs[SP] /\ regs'[S2] = regs[S2] /\ regs'[RA] = regs[RA]
    BY ONLY <1>d, <1>j, <2>3
  <2>5. /\ out' = Counting(3) /\ regs'[T0] = 4 /\ regs'[SP] = DATA + 60
        /\ regs'[S2] = CSR_MMIO_UART /\ regs'[RA] = TEXT + (28 + g + 3 * f)
        /\ Value(DATA + 60, 4)' = TEXT + (68 + g + 6 * f + m)
    <3>1. Value(DATA + 60, 4)' = TEXT + (68 + g + 6 * f + m)
      BY ONLY <1>h, <2>1, <2>3
    <3>2. /\ out' = Counting(3) /\ regs'[T0] = 4 /\ regs'[SP] = DATA + 60
          /\ regs'[S2] = CSR_MMIO_UART /\ regs'[RA] = TEXT + (28 + g + 3 * f)
      BY ONLY <2>1, <2>3, <2>e
    <3> QED BY ONLY <3>1, <3>2
  <2>6. CallsAt(21, m, f, g)'
    <3>1. Said(21) = 3
      BY ONLY DEF Said
    <3> QED BY ONLY <2>5, <3>1 DEF CallsAt
  <2>7. TEXT + CallPlace(21, m, f, g) = TEXT + (32 + g + 3 * f)
    BY ONLY <1>0 DEF CallPlace
  <2> QED BY ONLY <2>4, <2>6, <2>7 DEF CallsFacts
<1>22. CASE mtime = 21
  <2>1. /\ pc = TEXT + (32 + g + 3 * f) /\ out = Counting(3) /\ regs[T0] = 4
        /\ regs[SP] = DATA + 60 /\ regs[S2] = CSR_MMIO_UART /\ regs[RA] = TEXT + (28 + g + 3 * f)
        /\ Value(DATA + 60, 4) = TEXT + (68 + g + 6 * f + m)
    <3>1. CallsAt(21, m, f, g) /\ pc = TEXT + CallPlace(21, m, f, g)
      BY ONLY <1>b, <1>22
    <3>2. TEXT + CallPlace(21, m, f, g) = TEXT + (32 + g + 3 * f)
      BY ONLY <1>0 DEF CallPlace
    <3>3. Said(21) = 3
      BY ONLY DEF Said
    <3> QED BY ONLY <3>1, <3>2, <3>3 DEF CallsAt
  <2>2. AtWord(OutWord)
    <3>1. Holds(boot.code, TEXT + (32 + g + 3 * f), OutWord)
      BY ONLY <1>a DEF CallsText
    <3>2. /\ TEXT + (32 + g + 3 * f) \in Nat /\ (TEXT + (32 + g + 3 * f)) % 2 = 0
          /\ (TEXT + (32 + g + 3 * f)) + 4 <= MemSize
      BY ONLY <1>0
    <3> QED BY ONLY <1>e, <2>1, <3>1, <3>2
  <2>3. Moves /\ pc' = pc + 4 /\ mem' = mem /\ out' = Counting(4) /\ regs' = regs
    <3>1. /\ Moves /\ pc' = pc + 4 /\ out' = Append(out, regs[T0] % ByteSize)
          /\ UNCHANGED <<regs, mem>>
      BY ONLY <1>c, <2>1, <2>2, CInv, Step, PrintRuns DEF OutWord
    <3>2. Append(Counting(3), 4 % ByteSize) = Counting(4)
      <4>1. 3 \in 0 .. 4 /\ 3 + 1 = 4
        OBVIOUS
      <4> QED BY ONLY <1>0, <4>1, SayOn
    <3> QED BY ONLY <2>1, <3>1, <3>2
  <2>4. mtime' = 22 /\ state' = "RUNNING" /\ pc' = TEXT + (36 + g + 3 * f)
    BY ONLY <1>0, <1>22, <2>1, <2>3 DEF Moves
  <2>5. /\ out' = Counting(4) /\ regs'[SP] = DATA + 60 /\ regs'[S2] = CSR_MMIO_UART
        /\ regs'[RA] = TEXT + (28 + g + 3 * f)
        /\ Value(DATA + 60, 4)' = TEXT + (68 + g + 6 * f + m)
    <3>1. Value(DATA + 60, 4)' = TEXT + (68 + g + 6 * f + m)
      BY ONLY <1>h, <2>1, <2>3
    <3>2. /\ out' = Counting(4) /\ regs'[SP] = DATA + 60 /\ regs'[S2] = CSR_MMIO_UART
          /\ regs'[RA] = TEXT + (28 + g + 3 * f)
      BY ONLY <2>1, <2>3
    <3> QED BY ONLY <3>1, <3>2
  <2>6. CallsAt(22, m, f, g)'
    <3>1. Said(22) = 4
      BY ONLY DEF Said
    <3> QED BY ONLY <2>5, <3>1 DEF CallsAt
  <2>7. TEXT + CallPlace(22, m, f, g) = TEXT + (36 + g + 3 * f)
    BY ONLY <1>0 DEF CallPlace
  <2> QED BY ONLY <2>4, <2>6, <2>7 DEF CallsFacts
<1>23. CASE mtime = 22
  <2>1. /\ pc = TEXT + (36 + g + 3 * f) /\ out = Counting(4) /\ regs[SP] = DATA + 60
        /\ regs[S2] = CSR_MMIO_UART /\ regs[RA] = TEXT + (28 + g + 3 * f)
        /\ Value(DATA + 60, 4) = TEXT + (68 + g + 6 * f + m)
    <3>1. CallsAt(22, m, f, g) /\ pc = TEXT + CallPlace(22, m, f, g)
      BY ONLY <1>b, <1>23
    <3>2. TEXT + CallPlace(22, m, f, g) = TEXT + (36 + g + 3 * f)
      BY ONLY <1>0 DEF CallPlace
    <3>3. Said(22) = 4
      BY ONLY DEF Said
    <3> QED BY ONLY <3>1, <3>2, <3>3 DEF CallsAt
  <2>2. AtEither(FetchWord, f)
    <3>1. Lies(boot.code, TEXT + (36 + g + 3 * f), FetchWord, f)
      BY ONLY <1>a DEF CallsText
    <3>2. /\ TEXT + (36 + g + 3 * f) \in Nat /\ (TEXT + (36 + g + 3 * f)) % 2 = 0
          /\ (TEXT + (36 + g + 3 * f)) + f <= MemSize
      BY ONLY <1>0
    <3> QED BY ONLY <1>f, <2>1, <3>1, <3>2
  <2>3. /\ Moves /\ pc' = pc + f /\ mem' = mem /\ out' = out
        /\ regs' = [regs EXCEPT ![RA] = TEXT + (68 + g + 6 * f + m)]
    <3>1. Names(SP, 0, DATA + 60, 4)
      <4>1. regs[SP] + 0 = DATA + 60 /\ DATA + 60 \in Words /\ (DATA + 60) % 4 = 0
        BY ONLY <1>0, <2>1
      <4>2. Wrap(regs[SP] + 0) = DATA + 60
        BY ONLY <4>1, WrapWord
      <4> QED BY ONLY <1>0, <4>1, <4>2 DEF Names
    <3>2. /\ Moves /\ pc' = pc + f
          /\ regs' = [regs EXCEPT ![RA] = SignExtended(Value(DATA + 60, 4), 4)]
          /\ UNCHANGED <<mem, out>>
      <4>1. /\ f \in {2, 4} /\ RA \in 1 .. 31 /\ SP \in Registers
            /\ AtEither(enc_i(0, SP, 2, RA, OP_LOAD), f)
        BY ONLY <1>0, <1>c, <2>2 DEF FetchWord
      <4> QED BY ONLY <3>1, <4>1, CInv, Step, EitherLoads
    <3>3. SignExtended(TEXT + (68 + g + 6 * f + m), 4) = TEXT + (68 + g + 6 * f + m)
      <4>1. Pow2[(XLEN \div 4) * 4] = Size /\ (TEXT + (68 + g + 6 * f + m)) \in Int
        BY <1>0, Widths DEF Size
      <4> QED BY ONLY <1>0, <4>1 DEF SignExtended
    <3> QED BY ONLY <2>1, <3>2, <3>3
  <2>4. mtime' = 23 /\ state' = "RUNNING" /\ pc' = TEXT + (36 + g + 4 * f)
    BY ONLY <1>0, <1>23, <2>1, <2>3 DEF Moves
  <2>e. regs'[RA] = TEXT + (68 + g + 6 * f + m) /\ regs'[SP] = regs[SP] /\ regs'[S2] = regs[S2]
    BY ONLY <1>d, <1>j, <2>3
  <2>5. /\ out' = Counting(4) /\ regs'[SP] = DATA + 60 /\ regs'[S2] = CSR_MMIO_UART
        /\ regs'[RA] = TEXT + (68 + g + 6 * f + m)
    BY ONLY <2>1, <2>3, <2>e
  <2>6. CallsAt(23, m, f, g)'
    <3>1. Said(23) = 4
      BY ONLY DEF Said
    <3> QED BY ONLY <2>5, <3>1 DEF CallsAt
  <2>7. TEXT + CallPlace(23, m, f, g) = TEXT + (36 + g + 4 * f)
    BY ONLY <1>0 DEF CallPlace
  <2> QED BY ONLY <2>4, <2>6, <2>7 DEF CallsFacts
<1>24. CASE mtime = 23
  <2>1. /\ pc = TEXT + (36 + g + 4 * f) /\ out = Counting(4) /\ regs[SP] = DATA + 60
        /\ regs[S2] = CSR_MMIO_UART /\ regs[RA] = TEXT + (68 + g + 6 * f + m)
    <3>1. CallsAt(23, m, f, g) /\ pc = TEXT + CallPlace(23, m, f, g)
      BY ONLY <1>b, <1>24
    <3>2. TEXT + CallPlace(23, m, f, g) = TEXT + (36 + g + 4 * f)
      BY ONLY <1>0 DEF CallPlace
    <3>3. Said(23) = 4
      BY ONLY DEF Said
    <3> QED BY ONLY <3>1, <3>2, <3>3 DEF CallsAt
  <2>2. AtEither(DropWord, f)
    <3>1. Lies(boot.code, TEXT + (36 + g + 4 * f), DropWord, f)
      BY ONLY <1>a DEF CallsText
    <3>2. /\ TEXT + (36 + g + 4 * f) \in Nat /\ (TEXT + (36 + g + 4 * f)) % 2 = 0
          /\ (TEXT + (36 + g + 4 * f)) + f <= MemSize
      BY ONLY <1>0
    <3> QED BY ONLY <1>f, <2>1, <3>1, <3>2
  <2>3. /\ Moves /\ pc' = pc + f /\ mem' = mem /\ out' = out
        /\ regs' = [regs EXCEPT ![SP] = DATA + 64]
    <3> DEFINE i == 4
    <3>1. /\ i \in Int /\ -2048 <= i /\ i < 2048 /\ regs[SP] + i = DATA + 64
          /\ regs[SP] + i \in Words /\ AtEither(enc_i(i, SP, 0, SP, OP_ALUI), f)
          /\ SP \in 1 .. 31 /\ f \in {2, 4}
      BY ONLY <1>0, <1>c, <1>i, <2>1, <2>2 DEF DropWord
    <3> HIDE DEF i
    <3>2. /\ Moves /\ pc' = pc + f /\ regs' = [regs EXCEPT ![SP] = regs[SP] + i]
          /\ UNCHANGED <<mem, out>>
      BY ONLY <3>1, CInv, Step, EitherBumps
    <3>3. PICK v : v = regs[SP] + i /\ regs' = [regs EXCEPT ![SP] = v]
      BY ONLY <3>2, Zenon
    <3>4. v = DATA + 64
      BY ONLY <3>1, <3>3
    <3> QED BY ONLY <3>2, <3>3, <3>4
  <2>4. mtime' = 24 /\ state' = "RUNNING" /\ pc' = TEXT + (36 + g + 5 * f)
    BY ONLY <1>0, <1>24, <2>1, <2>3 DEF Moves
  <2>e. regs'[SP] = DATA + 64 /\ regs'[S2] = regs[S2] /\ regs'[RA] = regs[RA]
    BY ONLY <1>d, <1>j, <2>3
  <2>5. /\ out' = Counting(4) /\ regs'[SP] = DATA + 64 /\ regs'[S2] = CSR_MMIO_UART
        /\ regs'[RA] = TEXT + (68 + g + 6 * f + m)
    BY ONLY <2>1, <2>3, <2>e
  <2>6. CallsAt(24, m, f, g)'
    <3>1. Said(24) = 4
      BY ONLY DEF Said
    <3> QED BY ONLY <2>5, <3>1 DEF CallsAt
  <2>7. TEXT + CallPlace(24, m, f, g) = TEXT + (36 + g + 5 * f)
    BY ONLY <1>0 DEF CallPlace
  <2> QED BY ONLY <2>4, <2>6, <2>7 DEF CallsFacts
<1>25. CASE mtime = 24
  <2>1. /\ pc = TEXT + (36 + g + 5 * f) /\ out = Counting(4) /\ regs[SP] = DATA + 64
        /\ regs[S2] = CSR_MMIO_UART /\ regs[RA] = TEXT + (68 + g + 6 * f + m)
    <3>1. CallsAt(24, m, f, g) /\ pc = TEXT + CallPlace(24, m, f, g)
      BY ONLY <1>b, <1>25
    <3>2. TEXT + CallPlace(24, m, f, g) = TEXT + (36 + g + 5 * f)
      BY ONLY <1>0 DEF CallPlace
    <3>3. Said(24) = 4
      BY ONLY DEF Said
    <3> QED BY ONLY <3>1, <3>2, <3>3 DEF CallsAt
  <2>2. AtEither(RetWord, f)
    <3>1. Lies(boot.code, TEXT + (36 + g + 5 * f), RetWord, f)
      BY ONLY <1>a DEF CallsText
    <3>2. /\ TEXT + (36 + g + 5 * f) \in Nat /\ (TEXT + (36 + g + 5 * f)) % 2 = 0
          /\ (TEXT + (36 + g + 5 * f)) + f <= MemSize
      BY ONLY <1>0
    <3> QED BY ONLY <1>f, <2>1, <3>1, <3>2
  <2>3. Moves /\ pc' = TEXT + (68 + g + 6 * f + m) /\ regs' = regs /\ mem' = mem /\ out' = out
    <3>1. regs[RA] % 2 = 0 /\ regs[RA] = TEXT + (68 + g + 6 * f + m)
      BY ONLY <1>0, <2>1
    <3>2. /\ Moves /\ pc' = regs[RA] /\ UNCHANGED <<mem, out>>
          /\ regs' = IF 0 = 0 THEN regs ELSE [regs EXCEPT ![0] = pc + f]
      BY ONLY <1>0, <1>c, <2>2, <3>1, CInv, Step, JalrRuns DEF RetWord
    <3> QED BY ONLY <3>1, <3>2
  <2>4. mtime' = 25 /\ state' = "RUNNING" /\ pc' = TEXT + (68 + g + 6 * f + m)
    BY ONLY <1>0, <1>25, <2>1, <2>3 DEF Moves
  <2>5. out' = Counting(4) /\ regs'[SP] = DATA + 64 /\ regs'[S2] = CSR_MMIO_UART
    BY ONLY <2>1, <2>3
  <2>6. CallsAt(25, m, f, g)'
    <3>1. Said(25) = 4
      BY ONLY DEF Said
    <3> QED BY ONLY <2>5, <3>1 DEF CallsAt
  <2>7. TEXT + CallPlace(25, m, f, g) = TEXT + (68 + g + 6 * f + m)
    BY ONLY <1>0 DEF CallPlace
  <2> QED BY ONLY <2>4, <2>6, <2>7 DEF CallsFacts
<1>26. CASE mtime = 25
  <2>1. /\ pc = TEXT + (68 + g + 6 * f + m) /\ out = Counting(4) /\ regs[SP] = DATA + 64
        /\ regs[S2] = CSR_MMIO_UART
    <3>1. CallsAt(25, m, f, g) /\ pc = TEXT + CallPlace(25, m, f, g)
      BY ONLY <1>b, <1>26
    <3>2. TEXT + CallPlace(25, m, f, g) = TEXT + (68 + g + 6 * f + m)
      BY ONLY <1>0 DEF CallPlace
    <3>3. Said(25) = 4
      BY ONLY DEF Said
    <3> QED BY ONLY <3>1, <3>2, <3>3 DEF CallsAt
  <2>2. AtWord(SetWord(5))
    <3>1. Holds(boot.code, TEXT + (68 + g + 6 * f + m), SetWord(5))
      BY ONLY <1>a DEF CallsText
    <3>2. /\ TEXT + (68 + g + 6 * f + m) \in Nat /\ (TEXT + (68 + g + 6 * f + m)) % 2 = 0
          /\ (TEXT + (68 + g + 6 * f + m)) + 4 <= MemSize
      BY ONLY <1>0
    <3> QED BY ONLY <1>e, <2>1, <3>1, <3>2
  <2>3. /\ Moves /\ pc' = pc + 4 /\ mem' = mem /\ out' = out
        /\ regs' = [regs EXCEPT ![T0] = 5]
    <3>1. Writes(T0, 5)
      <4>1. /\ 5 \in Int /\ -2048 <= 5 /\ 5 < 2048 /\ regs[0] + 5 = 5
            /\ regs[0] + 5 \in Words /\ AtWord(enc_i(5, 0, 0, T0, OP_ALUI))
        BY ONLY <1>0, <2>2 DEF SetWord
      <4>2. Writes(T0, regs[0] + 5)
        BY ONLY <1>c, <4>1, CInv, Step, BumpRuns
      <4> QED BY ONLY <4>1, <4>2
    <3> QED BY ONLY <1>g, <3>1
  <2>4. mtime' = 26 /\ state' = "RUNNING" /\ pc' = TEXT + (72 + g + 6 * f + m)
    BY ONLY <1>0, <1>26, <2>1, <2>3 DEF Moves
  <2>e. regs'[T0] = 5 /\ regs'[SP] = regs[SP] /\ regs'[S2] = regs[S2]
    BY ONLY <1>d, <1>j, <2>3
  <2>5. /\ out' = Counting(4) /\ regs'[T0] = 5 /\ regs'[SP] = DATA + 64
        /\ regs'[S2] = CSR_MMIO_UART
    BY ONLY <2>1, <2>3, <2>e
  <2>6. CallsAt(26, m, f, g)'
    <3>1. Said(26) = 4
      BY ONLY DEF Said
    <3> QED BY ONLY <2>5, <3>1 DEF CallsAt
  <2>7. TEXT + CallPlace(26, m, f, g) = TEXT + (72 + g + 6 * f + m)
    BY ONLY <1>0 DEF CallPlace
  <2> QED BY ONLY <2>4, <2>6, <2>7 DEF CallsFacts
<1>27. CASE mtime = 26
  <2>1. /\ pc = TEXT + (72 + g + 6 * f + m) /\ out = Counting(4) /\ regs[T0] = 5
        /\ regs[SP] = DATA + 64 /\ regs[S2] = CSR_MMIO_UART
    <3>1. CallsAt(26, m, f, g) /\ pc = TEXT + CallPlace(26, m, f, g)
      BY ONLY <1>b, <1>27
    <3>2. TEXT + CallPlace(26, m, f, g) = TEXT + (72 + g + 6 * f + m)
      BY ONLY <1>0 DEF CallPlace
    <3>3. Said(26) = 4
      BY ONLY DEF Said
    <3> QED BY ONLY <3>1, <3>2, <3>3 DEF CallsAt
  <2>2. AtWord(OutWord)
    <3>1. Holds(boot.code, TEXT + (72 + g + 6 * f + m), OutWord)
      BY ONLY <1>a DEF CallsText
    <3>2. /\ TEXT + (72 + g + 6 * f + m) \in Nat /\ (TEXT + (72 + g + 6 * f + m)) % 2 = 0
          /\ (TEXT + (72 + g + 6 * f + m)) + 4 <= MemSize
      BY ONLY <1>0
    <3> QED BY ONLY <1>e, <2>1, <3>1, <3>2
  <2>3. Moves /\ pc' = pc + 4 /\ mem' = mem /\ out' = Counting(5) /\ regs' = regs
    <3>1. /\ Moves /\ pc' = pc + 4 /\ out' = Append(out, regs[T0] % ByteSize)
          /\ UNCHANGED <<regs, mem>>
      BY ONLY <1>c, <2>1, <2>2, CInv, Step, PrintRuns DEF OutWord
    <3>2. Append(Counting(4), 5 % ByteSize) = Counting(5)
      <4>1. 4 \in 0 .. 4 /\ 4 + 1 = 5
        OBVIOUS
      <4> QED BY ONLY <1>0, <4>1, SayOn
    <3> QED BY ONLY <2>1, <3>1, <3>2
  <2>4. mtime' = 27 /\ state' = "RUNNING" /\ pc' = TEXT + (76 + g + 6 * f + m)
    BY ONLY <1>0, <1>27, <2>1, <2>3 DEF Moves
  <2>5. out' = Counting(5) /\ regs'[SP] = DATA + 64 /\ regs'[S2] = CSR_MMIO_UART
    BY ONLY <2>1, <2>3
  <2>6. CallsAt(27, m, f, g)'
    <3>1. Said(27) = 5
      BY ONLY DEF Said
    <3> QED BY ONLY <2>5, <3>1 DEF CallsAt
  <2>7. TEXT + CallPlace(27, m, f, g) = TEXT + (76 + g + 6 * f + m)
    BY ONLY <1>0 DEF CallPlace
  <2> QED BY ONLY <2>4, <2>6, <2>7 DEF CallsFacts
<1>28. CASE mtime = 27
  <2>1. /\ pc = TEXT + (76 + g + 6 * f + m) /\ out = Counting(5) /\ regs[SP] = DATA + 64
        /\ regs[S2] = CSR_MMIO_UART
    <3>1. CallsAt(27, m, f, g) /\ pc = TEXT + CallPlace(27, m, f, g)
      BY ONLY <1>b, <1>28
    <3>2. TEXT + CallPlace(27, m, f, g) = TEXT + (76 + g + 6 * f + m)
      BY ONLY <1>0 DEF CallPlace
    <3>3. Said(27) = 5
      BY ONLY DEF Said
    <3> QED BY ONLY <3>1, <3>2, <3>3 DEF CallsAt
  <2>2. AtEither(EBREAK, m)
    <3>1. Lies(boot.code, TEXT + (76 + g + 6 * f + m), EBREAK, m)
      BY ONLY <1>a DEF CallsText
    <3>2. /\ TEXT + (76 + g + 6 * f + m) \in Nat /\ (TEXT + (76 + g + 6 * f + m)) % 2 = 0
          /\ (TEXT + (76 + g + 6 * f + m)) + m <= MemSize
      BY ONLY <1>0
    <3> QED BY ONLY <1>f, <2>1, <3>1, <3>2
  <2>3. /\ mtime' = mtime + 1 /\ boot' = boot /\ state' = "HALTED"
        /\ UNCHANGED <<regs, mem, out>>
    BY ONLY <1>0, <2>2, CInv, Step, EitherBreaks
  <2>4. mtime' = 28 /\ state' = "HALTED"
    BY ONLY <1>28, <2>3
  <2>5. out' = Counting(5) /\ regs'[SP] = DATA + 64 /\ regs'[S2] = CSR_MMIO_UART
    BY ONLY <2>1, <2>3
  <2>6. CallsAt(28, m, f, g)'
    <3>1. Said(28) = 5
      BY ONLY DEF Said
    <3> QED BY ONLY <2>5, <3>1 DEF CallsAt
  <2> QED BY ONLY <2>4, <2>6 DEF CallsFacts
<1>x. mtime \in 0 .. 27
  BY ONLY <1>b
<1> QED
  BY ONLY <1>x, <1>1, <1>2, <1>3, <1>4, <1>5, <1>6, <1>7, <1>8, <1>9, <1>10, <1>11, <1>12, <1>13, <1>14,
     <1>15, <1>16, <1>17, <1>18, <1>19, <1>20, <1>21, <1>22, <1>23, <1>24, <1>25, <1>26,
     <1>27, <1>28

\* While the program that calls is booted, it is where its facts say.
CallsInv ==
    boot.name = "calls" =>
        \E m, f, g \in {2, 4} :
            /\ boot.mtime = 0 /\ boot.max_steps = 200
            /\ CallsText(boot.code, m, f, g) /\ CallsFacts(m, f, g)

\* It is at first.
LEMMA CallsBegin ==
  ASSUME Init, TextFits(28), \A b \in Boots : b.name = "calls" => b \in Calls
  PROVE  CallsInv
<1> SUFFICES ASSUME boot.name = "calls"
             PROVE  \E m, f, g \in {2, 4} :
                        /\ boot.mtime = 0 /\ boot.max_steps = 200
                        /\ CallsText(boot.code, m, f, g) /\ CallsFacts(m, f, g)
  BY DEF CallsInv
<1>1. boot \in Calls
  BY DEF Init
<1>2. PICK cm \in BOOLEAN, cf \in BOOLEAN, cg \in BOOLEAN :
          boot = Booted("calls", <<>>, calls(cm, cf, cg), 200)
  BY ONLY <1>1 DEF Calls
<1>3. /\ boot.code = assemble(calls(cm, cf, cg), TEXT) /\ boot.entry = TEXT
      /\ boot.mtime = 0 /\ boot.max_steps = 200
  BY ONLY <1>2 DEF Booted
<1> DEFINE m == LengthOf(cm)
           f == LengthOf(cf)
           g == LengthOf(cg)
<1>4. m \in {2, 4} /\ f \in {2, 4} /\ g \in {2, 4}
  BY ONLY <1>2 DEF LengthOf
<1>5. TEXT \in Nat
  BY DEF TextFits
<1>6. CallsText(boot.code, m, f, g)
  BY ONLY <1>2, <1>3, <1>5, CallsAssembled
<1> HIDE DEF m, f, g
<1>7. CallsFacts(m, f, g)
  <2>1. pc = TEXT /\ mtime = 0 /\ state = "RUNNING" /\ out = <<>>
    BY <1>3 DEF Init
  <2>2. CallPlace(0, m, f, g) = 0 /\ Said(0) = 0 /\ Counting(0) = <<>>
    BY ONLY DEF CallPlace, Said, Counting
  <2>3. CallsAt(0, m, f, g)
    BY ONLY <2>1, <2>2 DEF CallsAt
  <2> QED BY ONLY <1>5, <2>1, <2>2, <2>3 DEF CallsFacts
<1> QED BY ONLY <1>3, <1>4, <1>6, <1>7

\* Stuttering does not disturb it.
LEMMA CallsStutter ==
  ASSUME UNCHANGED vars, CallsInv
  PROVE  CallsInv'
<1>1. /\ boot' = boot /\ state' = state /\ pc' = pc /\ regs' = regs /\ mem' = mem
      /\ out' = out /\ mtime' = mtime
  BY DEF vars
<1>2. ASSUME NEW m, NEW f, NEW g, CallsFacts(m, f, g) PROVE CallsFacts(m, f, g)'
  BY ONLY <1>1, <1>2 DEF CallsFacts, CallsAt, Value, Byte, Counting
<1> QED BY ONLY <1>1, <1>2, CallsInv DEF CallsInv

\* Every call comes back to the instruction after it, and the stack is as it was: in a
\* program whose main calls f, which saves ra and calls g, each of the three in 16-bit or
\* in 32-bit instructions (jalr links the address after an instruction of either length,
\* execute.c, and decode expands the short ones).
THEOREM CallsComeBack ==
  ASSUME HostTyped, XLEN <= 32, TextFits(28), DataFits(64),
         \A b \in Boots : b.name = "calls" => b \in Calls
  PROVE  Spec => []CallsReturn
<1>1. Init => CInv
  BY InitType
<1>2. CInv /\ [Next]_vars => CInv'
  BY StepType
<1>3. Init => CallsInv
  BY CallsBegin
<1>4. CInv /\ CallsInv /\ [Next]_vars => CallsInv'
  <2> SUFFICES ASSUME CInv, CallsInv, [Next]_vars PROVE CallsInv'
    OBVIOUS
  <2>1. CASE UNCHANGED vars
    BY <2>1, CallsStutter
  <2>2. CASE Step
    <3>1. boot' = boot
      BY <2>2 DEF Step
    <3> SUFFICES ASSUME boot.name = "calls" PROVE CallsInv'
      BY <3>1 DEF CallsInv
    <3>2. PICK m \in {2, 4}, f \in {2, 4}, g \in {2, 4} :
              /\ boot.mtime = 0 /\ boot.max_steps = 200
              /\ CallsText(boot.code, m, f, g) /\ CallsFacts(m, f, g)
      BY DEF CallsInv
    <3>3. CallsFacts(m, f, g)'
      BY <2>2, <3>2, CallsStep
    <3> QED BY ONLY <3>1, <3>2, <3>3 DEF CallsInv
  <2> QED BY <2>1, <2>2 DEF Next, Returned
<1>5. CInv /\ CallsInv => CallsReturn
  <2> SUFFICES ASSUME CallsInv, boot.name = "calls", ~Going
               PROVE  state = "HALTED" /\ out = <<1, 2, 3, 4, 5>> /\ regs[SP] = DATA + 64
    BY DEF CallsReturn
  <2>1. PICK m \in {2, 4}, f \in {2, 4}, g \in {2, 4} :
            boot.mtime = 0 /\ boot.max_steps = 200 /\ CallsFacts(m, f, g)
    BY DEF CallsInv
  <2>2. state # "RUNNING"
    BY <2>1 DEF CallsFacts, Going
  <2>3. mtime = 28 /\ state = "HALTED" /\ CallsAt(28, m, f, g)
    BY ONLY <2>1, <2>2 DEF CallsFacts
  <2>4. Said(28) = 5
    BY ONLY DEF Said
  <2>5. out = Counting(5) /\ regs[SP] = DATA + 64
    BY ONLY <2>3, <2>4 DEF CallsAt
  <2>6. Counting(5) = <<1, 2, 3, 4, 5>>
    BY ONLY DEF Counting
  <2> QED BY ONLY <2>3, <2>5, <2>6
<1> QED BY <1>1, <1>2, <1>3, <1>4, <1>5, PTL DEF Spec

=============================================================================
