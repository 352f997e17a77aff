--------------------------- MODULE RetryLoopProofs ---------------------------
(***************************************************************************)
(* The reservation machine and the counter built on it.  First what software *)
(* has to do so that sc.w is safe: whole-word accesses, a clearing sc.w at     *)
(* switches, no atomics on page tables in use.  Then no increment of the       *)
(* shared counter is lost, for any number of tasks and any size of memory, if  *)
(* the tasks and the kernel keep that discipline.  The inductive invariant     *)
(* says what a task may rely on between lr.w and sc.w: as long as nobody wrote *)
(* the counter, the value it loaded is the present one.                        *)
(***************************************************************************)
EXTENDS RetryLoop, TLAPS

-----------------------------------------------------------------------------
\* The reservation.

\* A word address and the three that follow are bytes of memory.
LEMMA WordInMemory ==
  ASSUME NEW a \in WordAddr
  PROVE  a \in ByteAddr /\ a % 4 = 0 /\ a - (a % 4) = a
  BY MemSizeAssumption DEF WordAddr, ByteAddr

\* Writing bytes gives memory again.
LEMMA WrittenType ==
  ASSUME mem \in [ByteAddr -> Byte], NEW a \in ByteAddr, NEW n \in {1, 2, 4},
         NEW w \in Word
  PROVE  Written(a, n, w) \in [ByteAddr -> Byte]
<1>1. ASSUME NEW i \in ByteAddr, i \in a .. a + n - 1 PROVE w[i - a] \in Byte
  <2>1. i - a \in 0 .. 3
    BY <1>1 DEF ByteAddr
  <2> QED BY <2>1 DEF Word
<1> QED BY <1>1 DEF Written

\* A write takes words from the links of every task and adds none.
LEMMA LinkedType ==
  ASSUME linked \in [Task -> SUBSET LinkWords], NEW a
  PROVE  LinkedExcept(a) \in [Task -> SUBSET LinkWords]
  BY DEF LinkedExcept

\* No instruction, walk or switch leaves the types.
LEMMA TypeStep ==
  ASSUME TypeOK, [Next]_vars
  PROVE  TypeOK'
<1> USE DEF TypeOK
<1>1. ASSUME NEW a \in LinkWords, LR(a) PROVE TypeOK'
  <2>1. a \in WordAddr
    BY DEF LinkWords
  <2> QED BY <1>1, <2>1, WordInMemory DEF LR, LoadReserved
<1>2. ASSUME NEW a \in WordAddr, NEW w \in Word, SC(a, w) PROVE TypeOK'
  BY <1>2, WordInMemory, WrittenType, LinkedType DEF SC, StoreConditional
<1>3. ASSUME NEW a \in ByteAddr, NEW n \in {1, 2, 4}, NEW w \in Word, Store(a, n, w)
      PROVE  TypeOK'
  BY <1>3, WrittenType, LinkedType DEF Store, Write, StillValid
<1>4. ASSUME NEW a \in WordAddr, NEW w \in Word, AMO(a, w) PROVE TypeOK'
  BY <1>4, WordInMemory, WrittenType, LinkedType DEF AMO, Write, StillValid
<1>5. ASSUME NEW a \in PteWords, NEW w \in Word, WalkerUpdate(a, w) PROVE TypeOK'
  <2>1. a \in WordAddr
    BY AddrsAssumption
  <2> QED BY <1>5, <2>1, WordInMemory, WrittenType, LinkedType
          DEF WalkerUpdate, WalkerWrite
<1>6. ASSUME NEW t \in Task, Switch(t) PROVE TypeOK'
  BY <1>6, KernelClearsAssumption DEF Switch
<1>7. CASE UNCHANGED vars
  BY <1>7 DEF vars, machine
<1> QED BY <1>1, <1>2, <1>3, <1>4, <1>5, <1>6, <1>7 DEF Next

\* Every reachable state is well typed: the reserved address is an aligned word
\* inside memory, so the comparison with a store's address is meaningful.
THEOREM ReservationTypeCorrect == Spec => []TypeOK
<1>1. Init => TypeOK
  <2>1. 0 \in ByteAddr /\ 0 % 4 = 0
    BY MemSizeAssumption DEF ByteAddr
  <2> QED BY <2>1 DEF Init, MachineInit, TypeOK
<1> QED BY <1>1, TypeStep, PTL DEF Spec

-----------------------------------------------------------------------------
\* The discipline under which the comparison of start addresses is enough: no
\* atomics on words that sb and sh write, or that the page walker updates, and a
\* clearing sc.w at every switch.
Disciplined ==
    /\ KernelClears
    /\ \A a \in LinkWords, b \in NarrowAddrs \cup PteWords : a # b - (b % 4)

\* What a write that starts at word a, the reserved one or another, leaves.
LEMMA WriteKeepsFresh ==
  ASSUME task \in Task, ReservationFresh, NEW a \in WordAddr, StillValid(a)
  PROVE  reservation_addr \in LinkedExcept(a)[task]
  BY WordInMemory DEF ReservationFresh, StillValid, LinkedExcept

\* A narrow store and the walker hit no word that is ever reserved.
LEMMA NarrowKeepsLinks ==
  ASSUME Disciplined, TypeOK, NEW a \in NarrowAddrs \cup PteWords
  PROVE  LinkedExcept(a) = linked
<1>1. a - (a % 4) \notin LinkWords
  BY DEF Disciplined
<1> QED BY <1>1 DEF LinkedExcept, TypeOK

\* Nor does one leave a reservation behind that its task's link does not back.
LEMMA FreshStep ==
  ASSUME Disciplined, TypeOK, ReservationFresh, [Next]_vars
  PROVE  ReservationFresh'
<1>0. task \in Task
  BY DEF TypeOK
<1>1. ASSUME NEW a \in LinkWords, LR(a) PROVE ReservationFresh'
  BY <1>0, <1>1 DEF TypeOK, LR, LoadReserved, ReservationFresh
<1>2. ASSUME NEW a \in WordAddr, NEW w \in Word, SC(a, w) PROVE ReservationFresh'
  BY <1>2 DEF SC, StoreConditional, ReservationFresh
<1>3. ASSUME NEW a \in ByteAddr, NEW n \in {1, 2, 4}, NEW w \in Word, Store(a, n, w)
      PROVE  ReservationFresh'
  <2>1. CASE n = 4
    <3>1. a \in WordAddr
      BY <1>3, <2>1 DEF Store, WordAddr
    <3> QED BY <1>0, <1>3, <3>1, WriteKeepsFresh DEF Store, Write, ReservationFresh
  <2>2. CASE n < 4
    <3>1. LinkedExcept(a) = linked
      BY <1>3, <2>2, NarrowKeepsLinks DEF Store
    <3> QED BY <1>3, <3>1 DEF Store, Write, StillValid, ReservationFresh
  <2> QED BY <2>1, <2>2
<1>4. ASSUME NEW a \in WordAddr, NEW w \in Word, AMO(a, w) PROVE ReservationFresh'
  BY <1>0, <1>4, WriteKeepsFresh DEF AMO, Write, ReservationFresh
<1>5. ASSUME NEW a \in PteWords, NEW w \in Word, WalkerUpdate(a, w) PROVE ReservationFresh'
  BY <1>5, NarrowKeepsLinks DEF WalkerUpdate, WalkerWrite, ReservationFresh
<1>6. ASSUME NEW t \in Task, Switch(t) PROVE ReservationFresh'
  BY <1>6 DEF Switch, Disciplined, ReservationFresh
<1>7. CASE UNCHANGED vars
  BY <1>7 DEF vars, machine, ReservationFresh
<1> QED BY <1>1, <1>2, <1>3, <1>4, <1>5, <1>6, <1>7 DEF Next

\* Under it an sc.w succeeds only for the task that made the reservation and
\* only if nobody wrote the word since, for any number of tasks and any memory.
\* The run sub_word_store shows that the discipline is needed.
THEOREM DisciplinedReservations == ASSUME Disciplined PROVE Spec => []ReservationFresh
<1>1. Init => ReservationFresh
  BY DEF Init, MachineInit, ReservationFresh
<1> QED BY <1>1, FreshStep, ReservationTypeCorrect, PTL DEF Spec

-----------------------------------------------------------------------------
\* Bytes and numbers.

\* Division, with the facts about it that follow.
LEMMA Divides ==
  ASSUME NEW n \in Nat
  PROVE  /\ n \div ByteValues \in Nat
         /\ n % ByteValues \in Byte
         /\ n = ByteValues * (n \div ByteValues) + (n % ByteValues)
  BY ByteValuesAssumption DEF Byte

\* A quotient is small if the dividend is.
LEMMA QuotientBelow ==
  ASSUME NEW n \in Nat, NEW m \in Nat, n < ByteValues * m
  PROVE  n \div ByteValues < m
<1> DEFINE q == n \div ByteValues
<1>1. q \in Nat /\ ByteValues * q <= n
  BY Divides, ByteValuesAssumption DEF Byte
<1>2. SUFFICES ASSUME q >= m PROVE FALSE
  BY <1>1
<1>3. ByteValues * q >= ByteValues * m
  BY <1>1, <1>2, ByteValuesAssumption
<1> QED BY <1>1, <1>3, ByteValuesAssumption

\* Shifting a number down by bytes gives a number,
LEMMA ShiftedType ==
  ASSUME NEW n \in Nat, NEW k \in 0 .. 3
  PROVE  Shifted(n, k) \in Nat
<1> DEFINE q1 == n \div ByteValues
           q2 == q1 \div ByteValues
<1>1. q1 \in Nat
  BY Divides
<1>2. q2 \in Nat
  BY <1>1, Divides
<1>3. q2 \div ByteValues \in Nat
  BY <1>2, Divides
<1> QED BY <1>1, <1>2, <1>3 DEF Shifted

\* and the four bytes of a number are a word.
LEMMA WordForType ==
  ASSUME NEW n \in Nat
  PROVE  WordFor(n) \in Word
  BY ShiftedType, Divides DEF WordFor, Word

\* Three divisions one after the other, put together again.
LEMMA Assembled ==
  ASSUME NEW b \in Nat, NEW n \in Nat, NEW q1 \in Nat, NEW q2 \in Nat, NEW q3 \in Nat,
         NEW r0 \in Nat, NEW r1 \in Nat, NEW r2 \in Nat,
         n = b * q1 + r0, q1 = b * q2 + r1, q2 = b * q3 + r2
  PROVE  n = r0 + b * (r1 + b * (r2 + b * q3))
<1>1. q1 = r1 + b * (r2 + b * q3)
  <2>1. b * q3 \in Nat
    OBVIOUS
  <2>2. q2 = r2 + b * q3
    BY <2>1
  <2>3. b * q2 \in Nat
    OBVIOUS
  <2> QED BY <2>2, <2>3
<1>2. b * q1 \in Nat
  OBVIOUS
<1> QED BY <1>1, <1>2

\* Writing a number and reading it gives the number.
LEMMA ReadsBack ==
  ASSUME NEW n \in 0 .. WordSize - 1
  PROVE  NumberOf(WordFor(n)) = n
<1> DEFINE B == ByteValues
           q1 == n \div B
           q2 == q1 \div B
           q3 == q2 \div B
<1>0. B \in Nat /\ B * B \in Nat /\ B * B * B \in Nat /\ WordSize \in Nat /\ n \in Nat
  BY ByteValuesAssumption DEF WordSize
<1>1. q1 \in Nat /\ n = B * q1 + (n % B)
  BY <1>0, Divides
<1>2. q2 \in Nat /\ q1 = B * q2 + (q1 % B)
  BY <1>1, Divides
<1>3. q3 \in Nat /\ q2 = B * q3 + (q2 % B)
  BY <1>2, Divides
<1>4. q1 < B * (B * B)
  <2>1. n < B * (B * (B * B))
    BY <1>0 DEF WordSize
  <2> QED BY <1>0, <2>1, QuotientBelow
<1>5. q2 < B * B
  BY <1>0, <1>1, <1>4, QuotientBelow
<1>6. q3 < B
  BY <1>0, <1>2, <1>5, QuotientBelow
<1>7. q3 % B = q3
  BY <1>0, <1>3, <1>6
<1>8. /\ WordFor(n)[0] = n % B /\ WordFor(n)[1] = q1 % B
      /\ WordFor(n)[2] = q2 % B /\ WordFor(n)[3] = q3 % B
  BY DEF WordFor, Shifted
<1>9. NumberOf(WordFor(n)) = (n % B) + B * ((q1 % B) + B * ((q2 % B) + B * q3))
  BY <1>7, <1>8 DEF NumberOf
<1>10. n % B \in Nat /\ q1 % B \in Nat /\ q2 % B \in Nat
  BY <1>0, <1>1, <1>2, Divides DEF Byte
<1> HIDE DEF q1, q2, q3, B
<1>11. n = (n % B) + B * ((q1 % B) + B * ((q2 % B) + B * q3))
  BY <1>0, <1>1, <1>2, <1>3, <1>10, Assembled
<1> QED BY <1>9, <1>11

\* A word read as a number.
LEMMA NumberOfType ==
  ASSUME NEW w \in Word
  PROVE  NumberOf(w) \in Nat
  BY ByteValuesAssumption DEF Word, Byte, NumberOf

\* The number in a word fits into a word.
LEMMA NumberOfBelow ==
  ASSUME NEW w \in Word
  PROVE  NumberOf(w) \in 0 .. WordSize - 1
<1> DEFINE B == ByteValues
<1>0. B \in Nat \ {0} /\ \A i \in 0 .. 3 : w[i] \in 0 .. B - 1
  BY ByteValuesAssumption DEF Word, Byte
<1>1. ASSUME NEW m \in Nat, NEW v \in 0 .. m - 1, NEW d \in 0 .. B - 1
      PROVE  d + B * v \in 0 .. (B * m) - 1
  <2>1. B * v <= B * (m - 1)
    BY <1>0, <1>1
  <2>2. B * (m - 1) = B * m - B
    BY <1>0, <1>1
  <2> QED BY <1>0, <1>1, <2>1, <2>2
<1>2. w[2] + B * w[3] \in 0 .. (B * B) - 1
  BY <1>0, <1>1
<1>3. w[1] + B * (w[2] + B * w[3]) \in 0 .. (B * (B * B)) - 1
  BY <1>0, <1>1, <1>2
<1>4. w[0] + B * (w[1] + B * (w[2] + B * w[3])) \in 0 .. (B * (B * (B * B))) - 1
  <2> DEFINE m == B * (B * B)
             v == w[1] + B * (w[2] + B * w[3])
  <2>1. m \in Nat /\ v \in 0 .. m - 1 /\ w[0] \in 0 .. B - 1
    BY <1>0, <1>3
  <2> HIDE DEF m, v, B
  <2>2. w[0] + B * v \in 0 .. (B * m) - 1
    BY <1>1, <2>1
  <2> QED BY <2>2 DEF m, v
<1>5. B * (B * (B * B)) = WordSize
  BY <1>0 DEF WordSize
<1>6. NumberOf(w) = w[0] + B * (w[1] + B * (w[2] + B * w[3]))
  BY DEF NumberOf
<1> HIDE DEF B
<1> QED BY <1>4, <1>5, <1>6

-----------------------------------------------------------------------------
\* The counter as a word of memory.

\* The counter lies on a word that may be reserved.
LEMMA CounterIsAWord == Counter \in WordAddr /\ Counter \in LinkWords
  BY RetryLoopAssumption DEF LinkWords

\* An aligned word of memory is a word.
LEMMA WordAtType ==
  ASSUME mem \in [ByteAddr -> Byte], NEW a \in WordAddr
  PROVE  WordAt(a) \in Word
<1>1. \A i \in 0 .. 3 : a + i \in ByteAddr
  BY MemSizeAssumption DEF WordAddr, ByteAddr
<1> QED BY <1>1 DEF WordAt, Word

\* The next value of the counter is one of its values.
LEMMA Plus1Type ==
  ASSUME NEW n \in 0 .. WordSize - 1
  PROVE  Plus1(n) \in 0 .. WordSize - 1 /\ WordFor(Plus1(n)) \in Word
<1>1. WordSize \in Nat \ {0}
  BY ByteValuesAssumption DEF WordSize
<1>2. Plus1(n) \in 0 .. WordSize - 1
  BY <1>1 DEF Plus1
<1> QED BY <1>1, <1>2, WordForType

\* The word that was written is the word that is there.
LEMMA WrittenIsRead ==
  ASSUME mem \in [ByteAddr -> Byte], NEW a \in WordAddr, NEW w \in Word,
         mem' = Written(a, 4, w)
  PROVE  WordAt(a)' = w
<1>1. \A i \in 0 .. 3 : a + i \in ByteAddr
  BY MemSizeAssumption DEF WordAddr, ByteAddr
<1>2. \A i \in 0 .. 3 : mem'[a + i] = w[i]
  <2> TAKE i \in 0 .. 3
  <2>1. a \in Int /\ a + i \in a .. a + 4 - 1 /\ (a + i) - a = i
    BY DEF WordAddr, ByteAddr
  <2> QED BY <1>1, <2>1 DEF Written
<1>3. w = [i \in 0 .. 3 |-> w[i]]
  BY DEF Word
<1> QED BY <1>2, <1>3 DEF WordAt

\* Two aligned words do not overlap.
LEMMA OtherWordStays ==
  ASSUME mem \in [ByteAddr -> Byte], NEW a \in WordAddr, NEW b \in WordAddr, a # b,
         NEW w \in Word, mem' = Written(b, 4, w)
  PROVE  WordAt(a)' = WordAt(a)
<1>1. \A i \in 0 .. 3 : a + i \in ByteAddr
  BY MemSizeAssumption DEF WordAddr, ByteAddr
<1>2. \A i \in 0 .. 3 : a + i \notin b .. b + 4 - 1
  BY DEF WordAddr, ByteAddr
<1>3. \A i \in 0 .. 3 : mem'[a + i] = mem[a + i]
  BY <1>1, <1>2 DEF Written
<1> QED BY <1>3 DEF WordAt

-----------------------------------------------------------------------------
\* The loop is software of the machine in Reservation.

\* Every step of the loops is a step of the machine.
LEMMA LoopStep ==
  ASSUME RTypeOK, [RNext]_rvars
  PROVE  [Next]_vars
<1> USE DEF RTypeOK
<1>0. task \in Task /\ mem \in [ByteAddr -> Byte]
  BY DEF TypeOK
<1>1. CASE LoadCounter
  BY <1>1, CounterIsAWord DEF LoadCounter, Next
<1>2. CASE StoreScratch
  <2>1. WordFor(1) \in Word /\ Scratch \in ByteAddr
    BY WordForType, RetryLoopAssumption DEF WordAddr
  <2> QED BY <1>2, <2>1 DEF StoreScratch, Next
<1>3. CASE TryIncrement
  <2>1. WordFor(Plus1(val[task])) \in Word
    BY <1>0, Plus1Type
  <2> QED BY <1>3, <2>1, CounterIsAWord DEF TryIncrement, Next
<1>4. CASE AmoAdd
  <2>1. WordFor(Plus1(NumberOf(WordAt(Counter)))) \in Word
    BY <1>0, CounterIsAWord, WordAtType, NumberOfBelow, Plus1Type
  <2> QED BY <1>4, <2>1, CounterIsAWord DEF AmoAdd, Next
<1>5. CASE Preempt
  BY <1>5 DEF Preempt, Next
<1>6. CASE UNCHANGED rvars
  BY <1>6 DEF rvars
<1> QED BY <1>1, <1>2, <1>3, <1>4, <1>5, <1>6 DEF RNext, Run

\* The loops keep their types,
LEMMA LoopTypeStep ==
  ASSUME RTypeOK, [RNext]_rvars
  PROVE  RTypeOK'
<1>1. TypeOK'
  BY LoopStep, TypeStep DEF RTypeOK
<1>2. task \in Task /\ mem \in [ByteAddr -> Byte]
  BY DEF RTypeOK, TypeOK
<1>3. CASE LoadCounter
  <2>1. NumberOf(WordAt(Counter)) \in 0 .. WordSize - 1
    BY <1>2, CounterIsAWord, WordAtType, NumberOfBelow
  <2> QED BY <1>1, <1>2, <1>3, <2>1 DEF RTypeOK, LoadCounter
<1>4. CASE StoreScratch
  BY <1>1, <1>4 DEF RTypeOK, StoreScratch
<1>5. CASE TryIncrement
  BY <1>1, <1>5, Plus1Type DEF RTypeOK, TryIncrement
<1>6. CASE AmoAdd
  BY <1>1, <1>6, Plus1Type DEF RTypeOK, AmoAdd
<1>7. CASE Preempt
  BY <1>1, <1>7 DEF RTypeOK, Preempt, loop
<1>8. CASE UNCHANGED rvars
  BY <1>1, <1>8 DEF RTypeOK, rvars, loop
<1> QED BY <1>3, <1>4, <1>5, <1>6, <1>7, <1>8 DEF RNext, Run

\* with which they begin.
LEMMA LoopInit == RInit => RTypeOK
<1>1. RInit => TypeOK
  <2>1. 0 \in ByteAddr /\ 0 % 4 = 0
    BY MemSizeAssumption DEF ByteAddr
  <2> QED BY <2>1 DEF RInit, Init, MachineInit, TypeOK
<1>2. 0 \in 0 .. WordSize - 1
  BY ByteValuesAssumption DEF WordSize
<1> QED BY <1>1, <1>2 DEF RInit, RTypeOK

\* The loaded values and the count stay words, whatever the tasks interleave.
THEOREM RetryLoopTypeCorrect == RSpec => []RTypeOK
  BY LoopInit, LoopTypeStep, PTL DEF RSpec

-----------------------------------------------------------------------------
\* The inductive invariant.

\* What lr.w loaded is the present count, for as long as nobody wrote the word.
LoadedIsPresent ==
    \A t \in Task : at[t] # "lr" /\ Counter \in linked[t] => val[t] = total

LInv == RTypeOK /\ ReservationFresh /\ NoLostUpdate /\ LoadedIsPresent

\* The invariant of the loops holds at the start,
LEMMA InvInit == RInit => LInv
<1> SUFFICES ASSUME RInit PROVE LInv
  OBVIOUS
<1>1. ReservationFresh /\ LoadedIsPresent
  BY DEF RInit, Init, MachineInit, ReservationFresh, LoadedIsPresent
<1>2. \A i \in 0 .. 3 : Counter + i \in ByteAddr
  BY CounterIsAWord, MemSizeAssumption DEF WordAddr, ByteAddr
<1>3. WordAt(Counter)[0] = 0 /\ WordAt(Counter)[1] = 0 /\ WordAt(Counter)[2] = 0
      /\ WordAt(Counter)[3] = 0
  BY <1>2 DEF RInit, WordAt
<1>4. NumberOf(WordAt(Counter)) = 0
  BY <1>3, ByteValuesAssumption DEF NumberOf
<1> QED BY <1>1, <1>4, LoopInit DEF LInv, NoLostUpdate, RInit

\* A write of the counter by any task, and of the count with it.
LEMMA CountedWrite ==
  ASSUME RTypeOK, mem' = Written(Counter, 4, WordFor(Plus1(total))),
         total' = Plus1(total), linked' = LinkedExcept(Counter)
  PROVE  NoLostUpdate' /\ LoadedIsPresent'
<1>1. Plus1(total) \in 0 .. WordSize - 1 /\ WordFor(Plus1(total)) \in Word
  BY Plus1Type DEF RTypeOK
<1>2. WordAt(Counter)' = WordFor(Plus1(total))
  BY <1>1, CounterIsAWord, WrittenIsRead DEF RTypeOK, TypeOK
<1>3. NoLostUpdate'
  BY <1>1, <1>2, ReadsBack DEF NoLostUpdate
<1>4. \A t \in Task : Counter \notin linked'[t]
  BY CounterIsAWord, WordInMemory DEF LinkedExcept
<1> QED BY <1>3, <1>4 DEF LoadedIsPresent

\* and every step of a disciplined run keeps it.
LEMMA InvStep ==
  ASSUME Disciplined, LInv, [RNext]_rvars
  PROVE  LInv'
<1> USE DEF LInv
<1>1. RTypeOK' /\ ReservationFresh'
  BY LoopStep, LoopTypeStep, FreshStep DEF RTypeOK
<1>2. task \in Task /\ mem \in [ByteAddr -> Byte] /\ linked \in [Task -> SUBSET LinkWords]
  BY DEF RTypeOK, TypeOK
<1>3. CASE LoadCounter
  <2>1. NoLostUpdate'
    BY <1>3 DEF LoadCounter, LR, LoadReserved, NoLostUpdate, WordAt
  <2>2. LoadedIsPresent'
    BY <1>2, <1>3 DEF RTypeOK, LoadCounter, LR, NoLostUpdate, LoadedIsPresent
  <2> QED BY <1>1, <2>1, <2>2
<1>4. CASE StoreScratch
  <2>1. WordAt(Counter)' = WordAt(Counter)
    BY <1>2, <1>4, OtherWordStays, CounterIsAWord, RetryLoopAssumption, WordForType
       DEF StoreScratch, Store, Write
  <2>2. NoLostUpdate'
    BY <1>4, <2>1 DEF StoreScratch, NoLostUpdate
  <2>3. LoadedIsPresent'
    BY <1>2, <1>4 DEF RTypeOK, StoreScratch, Store, LinkedExcept, LoadedIsPresent
  <2> QED BY <1>1, <2>2, <2>3
<1>5. CASE TryIncrement
  <2>1. CASE Reserved(Counter)
    <3>1. val[task] = total
      BY <1>2, <1>5, <2>1 DEF TryIncrement, Reserved, ReservationFresh, LoadedIsPresent
    <3> QED BY <1>1, <1>5, <2>1, <3>1, CountedWrite DEF TryIncrement, SC, StoreConditional
  <2>2. CASE ~Reserved(Counter)
    <3>1. NoLostUpdate'
      BY <1>5, <2>2 DEF TryIncrement, SC, StoreConditional, NoLostUpdate, WordAt
    <3>2. LoadedIsPresent'
      BY <1>2, <1>5, <2>2 DEF RTypeOK, TryIncrement, SC, LoadedIsPresent
    <3> QED BY <1>1, <3>1, <3>2
  <2> QED BY <2>1, <2>2
<1>6. CASE AmoAdd
  BY <1>1, <1>6, CountedWrite DEF AmoAdd, AMO, Write, NoLostUpdate
<1>7. CASE Preempt
  <2>1. NoLostUpdate'
    BY <1>7 DEF Preempt, Switch, loop, NoLostUpdate, WordAt
  <2>2. LoadedIsPresent'
    BY <1>7 DEF Preempt, Switch, loop, LoadedIsPresent
  <2> QED BY <1>1, <2>1, <2>2
<1>8. CASE UNCHANGED rvars
  <2>1. NoLostUpdate'
    BY <1>8 DEF rvars, vars, machine, loop, NoLostUpdate, WordAt
  <2>2. LoadedIsPresent'
    BY <1>8 DEF rvars, vars, machine, loop, LoadedIsPresent
  <2> QED BY <1>1, <2>1, <2>2
<1> QED BY <1>3, <1>4, <1>5, <1>6, <1>7, <1>8 DEF RNext, Run

\* The word in memory counts the successful sc.w and the amoadd.w of all tasks, if
\* the tasks keep sb, sh and page tables off it and the kernel clears the
\* reservation when it switches.
THEOREM NoIncrementLost == ASSUME Disciplined PROVE RSpec => []NoLostUpdate
<1>1. RInit => LInv
  BY InvInit
<1>2. LInv /\ [RNext]_rvars => LInv'
  BY InvStep
<1>3. LInv => NoLostUpdate
  BY DEF LInv
<1> QED BY <1>1, <1>2, <1>3, PTL DEF RSpec

=============================================================================
