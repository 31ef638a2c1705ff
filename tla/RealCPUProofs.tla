-------------------------- MODULE RealCPUProofs --------------------------
(***************************************************************************)
(* For every size of operand, every tick limit, every image and either     *)
(* mode: the processor of module RealCPU keeps its types, confines a user  *)
(* and raises overflow exactly.                                            *)
(***************************************************************************)
EXTENDS RealCPU, TLAPS

-----------------------------------------------------------------------------
\* Arithmetic

LEMMA Remainder ==
  ASSUME NEW n \in Int, NEW d \in Nat, d > 0
  PROVE  n % d \in 0 .. d - 1
  OBVIOUS

LEMMA Quotient ==
  ASSUME NEW n \in Int, NEW d \in Nat, d > 0
  PROVE  /\ n \div d \in Int
         /\ d * (n \div d) <= n
         /\ n < d * (n \div d) + d
  OBVIOUS

LEMMA ProductMonotonic ==
  ASSUME NEW a \in Nat, NEW b \in Nat, NEW c \in Nat, a <= b
  PROVE  c * a <= c * b
  OBVIOUS

LEMMA QuotientBounded ==
  ASSUME NEW a \in Nat, NEW b \in Nat, b > 0
  PROVE  a \div b \in 0 .. a
<1> DEFINE q == a \div b
<1>1. q \in Int /\ b * q <= a /\ a < b * q + b
  BY Quotient
<1> HIDE DEF q
<1>2. q >= 0
  BY <1>1
<1>3. q <= b * q
  BY <1>1, <1>2
<1>4. q \in 0 .. a
  BY <1>1, <1>2, <1>3
<1> QED
  BY <1>4 DEF q

\* Dividing the limit tells whether the product exceeds it.
LEMMA ProductLimit ==
  ASSUME NEW a \in Nat, NEW b \in Nat, NEW limit \in Nat, b # 0
  PROVE  a > limit \div b <=> a * b > limit
<1> DEFINE q == limit \div b
<1>1. q \in Int /\ b * q <= limit /\ limit < b * q + b
  BY Quotient
<1>2. q \in Nat
  BY QuotientBounded
<1> HIDE DEF q
<1>3. b * (q + 1) = b * q + b
  BY <1>2
<1>4. ASSUME a > q PROVE a * b > limit
  <2>1. b * (q + 1) <= b * a
    BY <1>2, <1>4, ProductMonotonic
  <2> QED
    BY <1>1, <1>2, <1>3, <2>1
<1>5. ASSUME a <= q PROVE a * b <= limit
  <2>1. b * a <= b * q
    BY <1>2, <1>5, ProductMonotonic
  <2> QED
    BY <1>1, <1>2, <2>1
<1>6. a > q <=> a * b > limit
  BY <1>2, <1>4, <1>5
<1> QED
  BY <1>6 DEF q

LEMMA Sizes ==
  /\ OperandSize \in Nat /\ OperandSize > 1
  /\ UserSize \in Nat /\ MemorySize \in Nat /\ WordSize \in Nat
  /\ OperandSize < UserSize /\ UserSize < MemorySize /\ MemorySize < WordSize
  /\ OperandSize \div 2 \in Nat /\ OperandSize \div 2 > 0
  BY OperandAssumption DEF UserSize, MemorySize, WordSize

LEMMA WordsAreNumbers ==
  /\ Word \subseteq Nat /\ 0 \in Word
  /\ \A n \in Int : n % WordSize \in Word
  /\ 0 .. OperandSize - 1 \subseteq Word
  BY Sizes, Remainder DEF Word

\* What decode finds in a word: the checks that it makes after the opcode's would
\* reject nothing, because no field can hold a value out of range (cpu.c:97-114).
LEMMA FieldsInRange ==
  ASSUME cells \in [Address -> Word], IC \in Address
  PROVE  /\ cells[IC] \in Nat /\ opcode \in Int
         /\ regA \in 0 .. 7 /\ regB \in 0 .. 7 /\ mode \in 0 .. 3
         /\ operand \in 0 .. OperandSize - 1
         /\ jumpOperand \in Address
<1>1. cells[IC] \in Nat
  BY WordsAreNumbers
<1>2. opcode \in Int
  BY <1>1, Sizes, Quotient DEF opcode
<1>3. regA \in 0 .. 7
  BY <1>1, Sizes, Quotient, Remainder DEF regA
<1>4. regB \in 0 .. 7
  BY <1>1, Sizes, Quotient, Remainder DEF regB
<1>5. mode \in 0 .. 3
  BY <1>1, Sizes, Quotient, Remainder DEF mode
<1>6. operand \in 0 .. OperandSize - 1
  BY <1>1, Sizes, Remainder DEF operand
<1>7. jumpOperand \in Address
  <2>1. MemorySize = 4 * OperandSize
    BY DEF MemorySize
  <2> QED
    BY <1>1, <2>1, Sizes, Remainder DEF jumpOperand, Address
<1> QED
  BY <1>1, <1>2, <1>3, <1>4, <1>5, <1>6, <1>7

-----------------------------------------------------------------------------
\* Fetching and executing

LEMMA FetchedTyped ==
  ASSUME TypeOK, Fetched
  PROVE  /\ IC \in Address /\ IC + 1 \in 0 .. MemorySize
         /\ running /\ PI = "NONE" /\ SI = "NONE" /\ TI = "NONE"
<1>1. IC \in 0 .. MemorySize /\ Accessible(IC)
  BY DEF TypeOK, Fetched
<1>2. IC < MemorySize
  BY <1>1, Sizes DEF Accessible
<1> QED
  BY <1>1, <1>2, Sizes DEF Fetched, interrupted, Address

LEMMA ExecutedTyped ==
  ASSUME TypeOK, NEW ops, Executed(ops)
  PROVE  /\ IC \in Address /\ IC + 1 \in 0 .. MemorySize
         /\ running /\ PI = "NONE" /\ SI = "NONE" /\ TI = "NONE"
         /\ TI' \in {"NONE", "EXPIRED"} /\ ticks' \in 0 .. TickLimit - 1
         /\ MODE' = MODE /\ running' = running /\ opcode \in ops
         /\ regA \in 0 .. 7 /\ regB \in 0 .. 7 /\ mode \in 0 .. 3
         /\ operand \in 0 .. OperandSize - 1 /\ jumpOperand \in Address
         /\ R[regA] \in Word /\ R[regB] \in Word
<1>1. Fetched /\ opcode \in ops /\ MODE' = MODE /\ running' = running
  BY DEF Executed
<1>2. /\ IC \in Address /\ IC + 1 \in 0 .. MemorySize
      /\ running /\ PI = "NONE" /\ SI = "NONE" /\ TI = "NONE"
  BY <1>1, FetchedTyped
<1>3. /\ regA \in 0 .. 7 /\ regB \in 0 .. 7 /\ mode \in 0 .. 3
      /\ operand \in 0 .. OperandSize - 1 /\ jumpOperand \in Address
  BY <1>2, FieldsInRange DEF TypeOK
<1>4. R[regA] \in Word /\ R[regB] \in Word
  BY <1>3 DEF TypeOK
<1>5. TI' \in {"NONE", "EXPIRED"} /\ ticks' \in 0 .. TickLimit - 1
  BY <1>2, TickAssumption DEF Executed, TypeOK
<1> QED
  BY <1>1, <1>2, <1>3, <1>4, <1>5

LEMMA TargetIsWord ==
  ASSUME TypeOK, operand \in 0 .. OperandSize - 1
  PROVE  Target \in Word
<1>1. operand \in Address
  BY Sizes DEF Address
<1> QED
  BY <1>1, WordsAreNumbers DEF Target, TypeOK

\* A word that is accessible is in the memory, and in a user's part for a user.
LEMMA AccessibleInMemory ==
  ASSUME NEW a \in Word, Accessible(a)
  PROVE  a \in Address /\ (MODE # "supervisor" => a \in UserAddress)
  BY Sizes, WordsAreNumbers DEF Accessible, Address, UserAddress

LEMMA ReadsWord ==
  ASSUME TypeOK, NEW a \in Word
  PROVE  read(a) \in Word
  BY AccessibleInMemory, WordsAreNumbers DEF read, TypeOK

LEMMA ExactIsInteger ==
  ASSUME NEW a \in Word, NEW b \in Word, opcode \in {ADD, SUB, MUL}
  PROVE  Exact(a, b) \in Int
  BY WordsAreNumbers DEF Exact, ADD, SUB, MUL

\* The three tests, each written another way, decide the same question.
LEMMA OverflowTest ==
  ASSUME NEW a \in Word, NEW b \in Word, opcode \in {ADD, SUB, MUL}
  PROVE  Overflows(a, b) <=> Exact(a, b) \notin Word
<1>1. a \in Nat /\ b \in Nat /\ a < WordSize /\ b < WordSize /\ WordSize \in Nat
  BY Sizes DEF Word
<1>2. CASE opcode = ADD
  BY <1>1, <1>2 DEF Overflows, Exact, Word, ADD, SUB, MUL
<1>3. CASE opcode = SUB
  BY <1>1, <1>3 DEF Overflows, Exact, Word, ADD, SUB, MUL
<1>4. CASE opcode = MUL
  <2>1. a * b \in Nat
    BY <1>1
  <2>2. a * b \notin Word <=> a * b > WordSize - 1
    BY <1>1, <2>1 DEF Word
  <2>3. Overflows(a, b) <=> b # 0 /\ a > (WordSize - 1) \div b
    BY <1>4 DEF Overflows, ADD, SUB, MUL
  <2>4. Exact(a, b) = a * b
    BY <1>4 DEF Exact, ADD, SUB, MUL
  <2>5. WordSize - 1 \in Nat
    BY <1>1
  <2>6. b = 0 => a * b <= WordSize - 1
    BY <1>1
  <2>7. b # 0 => (a > (WordSize - 1) \div b <=> a * b > WordSize - 1)
    BY <1>1, <2>5, ProductLimit
  <2>8. ~(a * b > WordSize - 1 /\ a * b <= WordSize - 1)
    BY <1>1, <2>1
  <2> QED
    BY <2>2, <2>3, <2>4, <2>6, <2>7, <2>8
<1> QED
  BY <1>2, <1>3, <1>4

-----------------------------------------------------------------------------
\* The invariant: the types, and that a user has only a SYS to be handled.
UserLatch == MODE = "user" => SI \in {"NONE", "SYS"}

CPUInv == TypeOK /\ UserLatch

LEMMA InitCPUInv == Init => CPUInv
<1> SUFFICES ASSUME Init PROVE CPUInv
  OBVIOUS
<1>1. IC \in 0 .. MemorySize /\ R \in [0 .. 7 -> Word]
  BY Sizes, WordsAreNumbers DEF Init, Reset
<1>2. cells \in [Address -> Word] /\ MODE \in Modes
  BY ImagesAssumption DEF Init, Reset
<1>3. ticks \in 0 .. TickLimit - 1
  BY TickAssumption DEF Init, Reset
<1> QED
  BY <1>1, <1>2, <1>3 DEF Init, Reset, CPUInv, TypeOK, UserLatch

LEMMA FlagsTyped ==
  ASSUME NEW value
  PROVE  /\ ResultFlags(value) \subseteq {"ZERO", "NEGATIVE", "OVERFLOW", "CARRY"}
         /\ "OVERFLOW" \notin ResultFlags(value)
  BY DEF ResultFlags

LEMMA FaultStep == CPUInv /\ (FetchFault \/ DecodeFault) => CPUInv'
<1> SUFFICES ASSUME CPUInv, FetchFault \/ DecodeFault PROVE CPUInv'
  OBVIOUS
<1>1. CASE FetchFault
  BY <1>1 DEF FetchFault, interrupted, CPUInv, TypeOK, UserLatch
<1>2. CASE DecodeFault
  <2>1. IC + 1 \in 0 .. MemorySize /\ SI = "NONE"
    BY <1>2, FetchedTyped DEF DecodeFault, CPUInv
  <2> QED
    BY <1>2, <2>1 DEF DecodeFault, CPUInv, TypeOK, UserLatch
<1> QED
  BY <1>1, <1>2

LEMMA LoadStep == CPUInv /\ (LoadImmediate \/ LoadMemory) => CPUInv'
<1> SUFFICES ASSUME CPUInv, LoadImmediate \/ LoadMemory PROVE CPUInv'
  OBVIOUS
<1>1. Executed({LOAD}) /\ IC' = IC + 1
  BY DEF LoadImmediate, LoadMemory
<1>2. TypeOK /\ UserLatch
  BY DEF CPUInv
<1>3. R' \in [0 .. 7 -> Word]
  <2>1. CASE LoadImmediate
    BY <1>1, <1>2, <2>1, ExecutedTyped, WordsAreNumbers DEF LoadImmediate, TypeOK
  <2>2. CASE LoadMemory
    <3>1. read(Target) \in Word
      BY <1>1, <1>2, ExecutedTyped, TargetIsWord, ReadsWord
    <3> QED
      BY <1>1, <1>2, <2>2, <3>1, ExecutedTyped DEF LoadMemory, TypeOK
  <2> QED
    BY <2>1, <2>2
<1>4. /\ PI' \in {"NONE", "INVALID_ADDRESS"}
      /\ SI' = "NONE" /\ cells' = cells /\ SF' = SF
  BY <1>1, <1>2, ExecutedTyped DEF LoadImmediate, LoadMemory, AccessFault
<1> QED
  BY <1>1, <1>2, <1>3, <1>4, ExecutedTyped DEF CPUInv, TypeOK, UserLatch

LEMMA StoreStep == CPUInv /\ (StoreMemory \/ InvalidMode) => CPUInv'
<1> SUFFICES ASSUME CPUInv, StoreMemory \/ InvalidMode PROVE CPUInv'
  OBVIOUS
<1>1. PICK ops : Executed(ops) /\ IC' = IC + 1
  BY DEF StoreMemory, InvalidMode
<1>2. TypeOK /\ UserLatch
  BY DEF CPUInv
<1>3. cells' \in [Address -> Word]
  BY <1>1, <1>2, ExecutedTyped, TargetIsWord DEF StoreMemory, InvalidMode, TypeOK
<1>4. /\ PI' \in {"NONE", "INVALID_ADDRESS", "INVALID_OPCODE"}
      /\ SI' = "NONE" /\ R' = R /\ SF' = SF
  BY <1>1, <1>2, ExecutedTyped DEF StoreMemory, InvalidMode, AccessFault
<1> QED
  BY <1>1, <1>2, <1>3, <1>4, ExecutedTyped DEF CPUInv, TypeOK, UserLatch

LEMMA ArithmeticStep == CPUInv /\ Arithmetic => CPUInv'
<1> SUFFICES ASSUME CPUInv, Arithmetic PROVE CPUInv'
  OBVIOUS
<1>1. Executed({ADD, SUB, MUL}) /\ IC' = IC + 1
  BY DEF Arithmetic
<1>2. TypeOK /\ UserLatch
  BY DEF CPUInv
<1>3. Exact(R[regA], R[regB]) % WordSize \in Word
  BY <1>1, <1>2, ExecutedTyped, ExactIsInteger, WordsAreNumbers
<1>4. R' \in [0 .. 7 -> Word]
  BY <1>2, <1>3 DEF Arithmetic, TypeOK
<1>5. /\ PI' \in {"NONE", "OVERFLOW"} /\ SI' = "NONE" /\ cells' = cells
      /\ SF' \subseteq {"ZERO", "NEGATIVE", "OVERFLOW", "CARRY"}
  BY <1>1, <1>2, ExecutedTyped, FlagsTyped DEF Arithmetic
<1> QED
  BY <1>1, <1>2, <1>4, <1>5, ExecutedTyped DEF CPUInv, TypeOK, UserLatch

LEMMA DivideStep == CPUInv /\ (Divide \/ Compare) => CPUInv'
<1> SUFFICES ASSUME CPUInv, Divide \/ Compare PROVE CPUInv'
  OBVIOUS
<1>1. PICK ops : Executed(ops) /\ IC' = IC + 1
  BY DEF Divide, Compare
<1>2. TypeOK /\ UserLatch
  BY DEF CPUInv
<1>3. R[regA] \in Word /\ R[regB] \in Word
  BY <1>1, <1>2, ExecutedTyped
<1>4. R[regB] # 0 => R[regA] \div R[regB] \in Word
  <2>1. R[regA] \in Nat /\ R[regB] \in Nat /\ R[regA] < WordSize /\ WordSize \in Nat
    BY <1>3, Sizes DEF Word
  <2>2. R[regB] # 0 => R[regA] \div R[regB] \in 0 .. R[regA]
    BY <2>1, QuotientBounded
  <2> QED
    BY <2>1, <2>2 DEF Word
<1>5. R' \in [0 .. 7 -> Word]
  BY <1>2, <1>4 DEF Divide, Compare, TypeOK
<1>6. PI' \in {"NONE", "DIVZERO"} /\ SI' = "NONE" /\ cells' = cells
  BY <1>1, <1>2, ExecutedTyped DEF Divide, Compare
<1>7. SF' \subseteq {"ZERO", "NEGATIVE", "OVERFLOW", "CARRY"}
  <2>1. CASE Divide
    BY <2>1, FlagsTyped DEF Divide
  <2>2. CASE Compare
    <3>1. R[regA] \in Nat /\ R[regB] \in Nat
      BY <1>3, WordsAreNumbers
    <3> QED
      BY <2>2, <3>1 DEF Compare
  <2> QED
    BY <2>1, <2>2
<1> QED
  BY <1>1, <1>2, <1>5, <1>6, <1>7, ExecutedTyped DEF CPUInv, TypeOK, UserLatch

LEMMA ControlStep == CPUInv /\ (Jump \/ NoOperation) => CPUInv'
<1> SUFFICES ASSUME CPUInv, Jump \/ NoOperation PROVE CPUInv'
  OBVIOUS
<1>1. PICK ops : Executed(ops)
  BY DEF Jump, NoOperation
<1>2. TypeOK /\ UserLatch
  BY DEF CPUInv
<1>3. IC' \in 0 .. MemorySize
  BY <1>1, <1>2, ExecutedTyped, Sizes DEF Jump, NoOperation, Address
<1>4. UNCHANGED <<R, SF, PI, SI, cells>>
  BY DEF Jump, NoOperation
<1> QED
  BY <1>1, <1>2, <1>3, <1>4, ExecutedTyped DEF CPUInv, TypeOK, UserLatch

LEMMA SystemStep == CPUInv /\ (Privileged \/ SystemCall) => CPUInv'
<1> SUFFICES ASSUME CPUInv, Privileged \/ SystemCall PROVE CPUInv'
  OBVIOUS
<1>1. PICK ops : Executed(ops) /\ IC' = IC + 1
  BY DEF Privileged, SystemCall
<1>2. TypeOK /\ UserLatch
  BY DEF CPUInv
<1>3. UNCHANGED <<R, SF, cells>>
  BY DEF Privileged, SystemCall
<1>4. /\ PI' \in {"NONE", "INVALID_OPCODE"} /\ SI' \in {"NONE", "READ", "WRITE", "HALT", "SYS"}
      /\ PI' = "NONE" \/ SI' = "NONE"
      /\ MODE = "user" => SI' \in {"NONE", "SYS"}
  BY <1>1, <1>2, ExecutedTyped DEF Privileged, SystemCall, HALT, READ, WRITE
<1> QED
  BY <1>1, <1>2, <1>3, <1>4, ExecutedTyped DEF CPUInv, TypeOK, UserLatch

LEMMA InterruptStep == CPUInv /\ (ClearLatches \/ Stop \/ Stopped \/ UNCHANGED cpuVars) => CPUInv'
<1> SUFFICES ASSUME CPUInv, ClearLatches \/ Stop \/ Stopped \/ UNCHANGED cpuVars
             PROVE  CPUInv'
  OBVIOUS
<1>1. CASE ClearLatches
  BY <1>1 DEF ClearLatches, CPUInv, TypeOK, UserLatch
<1>2. CASE Stop
  BY <1>2 DEF Stop, latches, CPUInv, TypeOK, UserLatch
<1>3. CASE Stopped \/ UNCHANGED cpuVars
  BY <1>3 DEF Stopped, cpuVars, CPUInv, TypeOK, UserLatch
<1> QED
  BY <1>1, <1>2, <1>3

LEMMA NextCPUInv == CPUInv /\ [Next]_cpuVars => CPUInv'
  BY FaultStep, LoadStep, StoreStep, ArithmeticStep, DivideStep, ControlStep, SystemStep,
     InterruptStep DEF Next

LEMMA CPUInvariance == Spec => []CPUInv
  BY InitCPUInv, NextCPUInv, PTL DEF Spec

\* IC stays within one word of the memory, registers and cells keep their width, a
\* fault and a call to the system are never latched together, for every size,
\* image and mode (cpu.c:28-36, 122-266).
THEOREM CPUTypeCorrect == Spec => []TypeOK
<1>1. CPUInv => TypeOK
  BY DEF CPUInv
<1> QED
  BY <1>1, CPUInvariance, PTL

-----------------------------------------------------------------------------
\* A user's program is confined

Confined ==
  MODE = "user" =>
    /\ \A a \in Address \ UserAddress : cells'[a] = cells[a]
    /\ MODE' = "user"
    /\ SI' \in {"NONE", "SYS"}
    /\ running' = running

LEMMA StepConfined == CPUInv /\ CPUInv' /\ [Next]_cpuVars => Confined
<1> SUFFICES ASSUME CPUInv, CPUInv', [Next]_cpuVars, MODE = "user"
             PROVE  /\ \A a \in Address \ UserAddress : cells'[a] = cells[a]
                    /\ MODE' = "user" /\ SI' \in {"NONE", "SYS"} /\ running' = running
  BY DEF Confined
<1>1. TypeOK /\ UserLatch /\ UserLatch'
  BY DEF CPUInv
<1>2. MODE' = "user"
  BY DEF Next, FetchFault, DecodeFault, LoadImmediate, LoadMemory, StoreMemory, InvalidMode,
         Arithmetic, Divide, Compare, Jump, Privileged, NoOperation, SystemCall, Executed,
         ClearLatches, Stop, Stopped, cpuVars
<1>3. SI' \in {"NONE", "SYS"}
  BY <1>1, <1>2 DEF UserLatch
<1>4. ~Stop
  BY <1>1 DEF Stop, UserLatch
<1>5. running' = running
  BY <1>4 DEF Next, FetchFault, DecodeFault, LoadImmediate, LoadMemory, StoreMemory,
         InvalidMode, Arithmetic, Divide, Compare, Jump, Privileged, NoOperation, SystemCall,
         Executed, ClearLatches, Stopped, cpuVars
<1>6. ASSUME NEW a \in Address \ UserAddress PROVE cells'[a] = cells[a]
  <2>1. CASE StoreMemory
    <3>1. Target \in Word
      BY <1>1, <2>1, ExecutedTyped, TargetIsWord DEF StoreMemory
    <3>2. Accessible(Target) => Target \in UserAddress
      BY <3>1, AccessibleInMemory
    <3> QED
      BY <1>1, <1>6, <2>1, <3>2 DEF StoreMemory, TypeOK
  <2>2. CASE ~StoreMemory
    BY <2>2 DEF Next, FetchFault, DecodeFault, LoadImmediate, LoadMemory, InvalidMode,
         Arithmetic, Divide, Compare, Jump, Privileged, NoOperation, SystemCall,
         ClearLatches, Stop, Stopped, cpuVars
  <2> QED
    BY <2>1, <2>2
<1> QED
  BY <1>2, <1>3, <1>5, <1>6

\* A program in user mode, whatever it is, cannot change a word of the supervisor's,
\* change the mode, stop the processor or start a transfer (memory.c:20-49,
\* cpu.c:236-256).
THEOREM UserIsConfined == Spec => UserConfined
<1>1. CPUInv /\ CPUInv' /\ [Next]_cpuVars =>
        [MODE = "user" =>
           /\ \A a \in Address \ UserAddress : cells'[a] = cells[a]
           /\ MODE' = "user"
           /\ SI' \in {"NONE", "SYS"}
           /\ running' = running]_cpuVars
  BY StepConfined DEF Confined
<1> QED
  BY <1>1, CPUInvariance, PTL DEF Spec, UserConfined

-----------------------------------------------------------------------------
\* Overflow

LEMMA ArithmeticExact ==
  ASSUME TypeOK, Arithmetic
  PROVE  LET exact == Exact(R[regA], R[regB]) IN
         /\ PI' = "OVERFLOW" <=> exact \notin Word
         /\ "OVERFLOW" \in SF' <=> exact \notin Word
         /\ exact \in Word => R'[regA] = exact
<1> DEFINE exact == Exact(R[regA], R[regB])
<1>1. Executed({ADD, SUB, MUL})
  BY DEF Arithmetic
<1>2. /\ regA \in 0 .. 7 /\ R[regA] \in Word /\ R[regB] \in Word
      /\ opcode \in {ADD, SUB, MUL}
  BY <1>1, ExecutedTyped
<1>3. Overflows(R[regA], R[regB]) <=> exact \notin Word
  BY <1>2, OverflowTest
<1>4. R'[regA] = exact % WordSize
  BY <1>2 DEF Arithmetic, TypeOK
<1>5. /\ PI' = "OVERFLOW" <=> Overflows(R[regA], R[regB])
      /\ "OVERFLOW" \in SF' <=> Overflows(R[regA], R[regB])
  BY FlagsTyped DEF Arithmetic
<1> HIDE DEF exact
<1>6. exact \in Word => exact % WordSize = exact
  BY Sizes DEF Word
<1>7. /\ PI' = "OVERFLOW" <=> exact \notin Word
      /\ "OVERFLOW" \in SF' <=> exact \notin Word
      /\ exact \in Word => R'[regA] = exact
  BY <1>3, <1>4, <1>5, <1>6
<1> QED
  BY <1>7 DEF exact

\* Only Arithmetic executes the three instructions.
LEMMA OnlyArithmetic ==
  ASSUME Fetched, opcode \in {ADD, SUB, MUL}, Next
  PROVE  Arithmetic
<1>1. ~FetchFault /\ ~ClearLatches /\ ~Stop /\ ~Stopped
  BY DEF Fetched, interrupted, FetchFault, ClearLatches, Stop, Stopped
<1>2. ~DecodeFault
  BY DEF DecodeFault, SYS, ADD, SUB, MUL
<1>3. /\ ~LoadImmediate /\ ~LoadMemory /\ ~StoreMemory /\ ~InvalidMode
      /\ ~Divide /\ ~Compare /\ ~Jump /\ ~Privileged /\ ~NoOperation /\ ~SystemCall
  BY DEF LoadImmediate, LoadMemory, StoreMemory, InvalidMode, Divide, Compare, Jump,
         Privileged, NoOperation, SystemCall, Executed, HALT, LOAD, STORE, ADD, SUB, MUL,
         DIV, CMP, JMP, JZ, JNZ, READ, WRITE, NOP, SYS
<1> QED
  BY <1>1, <1>2, <1>3 DEF Next

\* The tests before the sum, the difference and the product, of which the last is
\* a division that rounds, raise overflow exactly when the result is no word, for
\* every word size (cpu.c:159-192).
THEOREM OverflowIsExact == Spec => OverflowExact
<1>1. CPUInv /\ [Next]_cpuVars =>
        [Fetched /\ opcode \in {ADD, SUB, MUL} =>
           LET exact == Exact(R[regA], R[regB]) IN
           /\ PI' = "OVERFLOW" <=> exact \notin Word
           /\ "OVERFLOW" \in SF' <=> exact \notin Word
           /\ exact \in Word => R'[regA] = exact]_cpuVars
  BY OnlyArithmetic, ArithmeticExact DEF CPUInv
<1> QED
  BY <1>1, CPUInvariance, PTL DEF Spec, OverflowExact
=============================================================================
