------------------------ MODULE CPUIsolationProofs ------------------------
(***************************************************************************)
(* For every size, image and content of the supervisor's memory: a user's  *)
(* program cannot tell two contents of the supervisor's memory apart.      *)
(***************************************************************************)
EXTENDS CPUIsolation, RealCPUProofs

\* SameView with the types, which both processors keep, and with the mode, which
\* neither leaves.
IsolationInv ==
  /\ CPUInv /\ SameView
  /\ MODE = "user"
  /\ cells2 \in [Address -> Word]

-----------------------------------------------------------------------------
\* What the two processors have in common

LEMMA SameConstants ==
  /\ Other!UserSize = UserSize /\ Other!MemorySize = MemorySize
  /\ Other!WordSize = WordSize
  /\ Other!HALT = HALT /\ Other!LOAD = LOAD /\ Other!STORE = STORE /\ Other!ADD = ADD
  /\ Other!SUB = SUB /\ Other!MUL = MUL /\ Other!DIV = DIV /\ Other!CMP = CMP
  /\ Other!JMP = JMP /\ Other!JZ = JZ /\ Other!JNZ = JNZ /\ Other!READ = READ
  /\ Other!WRITE = WRITE /\ Other!NOP = NOP /\ Other!SYS = SYS
  BY DEF Other!UserSize, Other!MemorySize, Other!WordSize, Other!HALT, Other!LOAD,
         Other!STORE, Other!ADD, Other!SUB, Other!MUL, Other!DIV, Other!CMP, Other!JMP,
         Other!JZ, Other!JNZ, Other!READ, Other!WRITE, Other!NOP, Other!SYS,
         UserSize, MemorySize, WordSize, HALT, LOAD, STORE, ADD, SUB, MUL, DIV, CMP, JMP,
         JZ, JNZ, READ, WRITE, NOP, SYS

\* In user mode the words that can be read are those that agree.
LEMMA SameAccess ==
  ASSUME IsolationInv, NEW a \in Word
  PROVE  /\ Other!Accessible(a) <=> Accessible(a)
         /\ Accessible(a) <=> a \in UserAddress
         /\ Accessible(a) => cells2[a] = cells[a]
         /\ Other!read(a) = read(a)
         /\ Other!AccessFault(a) = AccessFault(a)
<1>1. MODE = "user" /\ MODE2 = "user" /\ \A u \in UserAddress : cells2[u] = cells[u]
  BY DEF IsolationInv, SameView
<1>2. a \in Nat
  BY WordsAreNumbers
<1>3. Accessible(a) <=> a < UserSize
  BY <1>1 DEF Accessible
<1>4. Other!Accessible(a) <=> a < UserSize
  BY <1>1, SameConstants DEF Other!Accessible
<1>5. a < UserSize <=> a \in UserAddress
  BY <1>2, Sizes DEF UserAddress
<1> QED
  BY <1>1, <1>3, <1>4, <1>5 DEF read, Other!read, AccessFault, Other!AccessFault

LEMMA SameFetch ==
  ASSUME IsolationInv
  PROVE  /\ Other!interrupted <=> interrupted
         /\ Other!Accessible(IC2) <=> Accessible(IC)
         /\ Other!Fetched <=> Fetched
<1>1. IC \in Word /\ IC2 = IC
  BY Sizes DEF IsolationInv, CPUInv, TypeOK, SameView, Word
<1>2. Other!interrupted <=> interrupted
  BY DEF IsolationInv, SameView, interrupted, Other!interrupted
<1> QED
  BY <1>1, <1>2, SameAccess DEF IsolationInv, SameView, Fetched, Other!Fetched

\* The two execute the same instruction on the same operands.
LEMMA SameInstruction ==
  ASSUME IsolationInv, Fetched
  PROVE  /\ Other!opcode = opcode /\ Other!regA = regA /\ Other!regB = regB
         /\ Other!mode = mode /\ Other!operand = operand
         /\ Other!jumpOperand = jumpOperand
         /\ Other!Target = Target /\ Target \in Word
<1>1. IC \in Word /\ IC \in Address /\ IC2 = IC /\ Accessible(IC)
  BY FetchedTyped, Sizes DEF IsolationInv, CPUInv, SameView, Fetched, Address, Word
<1>2. cells2[IC2] = cells[IC]
  BY <1>1, SameAccess
<1>3. /\ Other!opcode = opcode /\ Other!regA = regA /\ Other!regB = regB
      /\ Other!mode = mode /\ Other!operand = operand
      /\ Other!jumpOperand = jumpOperand
  BY <1>2 DEF opcode, regA, regB, mode, operand, jumpOperand, Other!opcode, Other!regA,
              Other!regB, Other!mode, Other!operand, Other!jumpOperand
<1>4. operand \in 0 .. OperandSize - 1
  BY <1>1, FieldsInRange DEF IsolationInv, CPUInv, TypeOK
<1>5. operand \in UserAddress
  BY <1>4, Sizes DEF UserAddress
<1>6. cells2[operand] = cells[operand]
  BY <1>5 DEF IsolationInv, SameView
<1>7. Other!Target = Target
  BY <1>3, <1>6 DEF Target, Other!Target
<1>8. Target \in Word
  BY <1>4, TargetIsWord DEF IsolationInv, CPUInv
<1> QED
  BY <1>3, <1>7, <1>8

-----------------------------------------------------------------------------
\* The two take the same step

LEMMA OpcodeValues ==
  /\ HALT = 0 /\ LOAD = 1 /\ STORE = 2 /\ ADD = 3 /\ SUB = 4 /\ MUL = 5 /\ DIV = 6
  /\ CMP = 7 /\ JMP = 8 /\ JZ = 9 /\ JNZ = 10 /\ READ = 11 /\ WRITE = 12 /\ NOP = 13
  /\ SYS = 14
  BY DEF HALT, LOAD, STORE, ADD, SUB, MUL, DIV, CMP, JMP, JZ, JNZ, READ, WRITE, NOP, SYS

\* In what states each step is taken: no two of them in the same.
LEMMA OwnGuards ==
  /\ FetchFault => running /\ ~interrupted /\ ~Accessible(IC)
  /\ DecodeFault => Fetched /\ opcode > 14
  /\ LoadImmediate => Fetched /\ opcode = 1 /\ mode = 0
  /\ LoadMemory => Fetched /\ opcode = 1 /\ mode \in {1, 2}
  /\ StoreMemory => Fetched /\ opcode = 2 /\ mode \in {1, 2}
  /\ InvalidMode => Fetched /\ opcode \in {1, 2} /\ (mode = 3 \/ (opcode = 2 /\ mode = 0))
  /\ Arithmetic => Fetched /\ opcode \in {3, 4, 5}
  /\ Divide => Fetched /\ opcode = 6
  /\ Compare => Fetched /\ opcode = 7
  /\ Jump => Fetched /\ opcode \in {8, 9, 10}
  /\ Privileged => Fetched /\ opcode \in {0, 11, 12}
  /\ NoOperation => Fetched /\ opcode = 13
  /\ SystemCall => Fetched /\ opcode = 14
  /\ ClearLatches => running /\ interrupted /\ SI # "HALT"
  /\ Stop => running /\ interrupted /\ SI = "HALT"
  /\ Stopped => ~running
  BY OpcodeValues
     DEF FetchFault, DecodeFault, LoadImmediate, LoadMemory, StoreMemory, InvalidMode,
        Arithmetic, Divide, Compare, Jump, Privileged, NoOperation, SystemCall,
        ClearLatches, Stop, Stopped, Executed, Fetched, interrupted

LEMMA OtherGuards ==
  /\ Other!FetchFault => running2 /\ ~Other!interrupted /\ ~Other!Accessible(IC2)
  /\ Other!DecodeFault => Other!Fetched /\ Other!opcode > 14
  /\ Other!LoadImmediate => Other!Fetched /\ Other!opcode = 1 /\ Other!mode = 0
  /\ Other!LoadMemory => Other!Fetched /\ Other!opcode = 1 /\ Other!mode \in {1, 2}
  /\ Other!StoreMemory => Other!Fetched /\ Other!opcode = 2 /\ Other!mode \in {1, 2}
  /\ Other!InvalidMode =>
       Other!Fetched /\ Other!opcode \in {1, 2} /\ (Other!mode = 3 \/ (Other!opcode = 2 /\ Other!mode = 0))
  /\ Other!Arithmetic => Other!Fetched /\ Other!opcode \in {3, 4, 5}
  /\ Other!Divide => Other!Fetched /\ Other!opcode = 6
  /\ Other!Compare => Other!Fetched /\ Other!opcode = 7
  /\ Other!Jump => Other!Fetched /\ Other!opcode \in {8, 9, 10}
  /\ Other!Privileged => Other!Fetched /\ Other!opcode \in {0, 11, 12}
  /\ Other!NoOperation => Other!Fetched /\ Other!opcode = 13
  /\ Other!SystemCall => Other!Fetched /\ Other!opcode = 14
  /\ Other!ClearLatches => running2 /\ Other!interrupted /\ SI2 # "HALT"
  /\ Other!Stop => running2 /\ Other!interrupted /\ SI2 = "HALT"
  /\ Other!Stopped => ~running2
  BY OpcodeValues, SameConstants
     DEF Other!FetchFault, Other!DecodeFault, Other!LoadImmediate, Other!LoadMemory,
        Other!StoreMemory, Other!InvalidMode, Other!Arithmetic, Other!Divide,
        Other!Compare, Other!Jump, Other!Privileged, Other!NoOperation,
        Other!SystemCall, Other!ClearLatches, Other!Stop, Other!Stopped, Other!Executed,
        Other!Fetched, Other!interrupted

LEMMA SameStep ==
  ASSUME IsolationInv, Next, Other!Next
  PROVE  \/ FetchFault /\ Other!FetchFault
         \/ DecodeFault /\ Other!DecodeFault
         \/ LoadImmediate /\ Other!LoadImmediate
         \/ LoadMemory /\ Other!LoadMemory
         \/ StoreMemory /\ Other!StoreMemory
         \/ InvalidMode /\ Other!InvalidMode
         \/ Arithmetic /\ Other!Arithmetic
         \/ Divide /\ Other!Divide
         \/ Compare /\ Other!Compare
         \/ Jump /\ Other!Jump
         \/ Privileged /\ Other!Privileged
         \/ NoOperation /\ Other!NoOperation
         \/ SystemCall /\ Other!SystemCall
         \/ ClearLatches /\ Other!ClearLatches
         \/ Stop /\ Other!Stop
         \/ Stopped /\ Other!Stopped
<1>1. /\ Other!interrupted <=> interrupted
      /\ Other!Accessible(IC2) <=> Accessible(IC)
      /\ Other!Fetched <=> Fetched
  BY SameFetch
<1>2. running2 = running /\ SI2 = SI
  BY DEF IsolationInv, SameView
<1>3. Fetched => Other!opcode = opcode /\ Other!mode = mode
  BY SameInstruction
<1>4. Fetched => opcode \in Int /\ mode \in 0 .. 3
  BY FetchedTyped, FieldsInRange DEF IsolationInv, CPUInv, TypeOK
<1>5. Fetched <=> running /\ ~interrupted /\ Accessible(IC)
  BY DEF Fetched
<1> QED
  BY <1>1, <1>2, <1>3, <1>4, <1>5, OwnGuards, OtherGuards DEF Next, Other!Next

-----------------------------------------------------------------------------
\* The same step leaves them alike

\* The view without what an instruction changes in its own way.
LEMMA SameTick ==
  ASSUME IsolationInv, NEW ops, NEW ops2, Executed(ops), Other!Executed(ops2)
  PROVE  TI2' = TI' /\ ticks2' = ticks' /\ MODE2' = MODE' /\ running2' = running'
  BY DEF IsolationInv, SameView, Executed, Other!Executed

LEMMA SameRegisters ==
  ASSUME IsolationInv, Fetched
  PROVE  /\ R2 = R /\ Other!regA = regA /\ Other!regB = regB
         /\ R2[Other!regA] = R[regA] /\ R2[Other!regB] = R[regB]
         /\ regA \in 0 .. 7 /\ R[regA] \in Word /\ R[regB] \in Word
<1>1. R2 = R /\ Other!regA = regA /\ Other!regB = regB
  BY SameInstruction DEF IsolationInv, SameView
<1>2. regA \in 0 .. 7 /\ regB \in 0 .. 7
  BY FetchedTyped, FieldsInRange DEF IsolationInv, CPUInv, TypeOK
<1>3. R[regA] \in Word /\ R[regB] \in Word
  BY <1>2 DEF IsolationInv, CPUInv, TypeOK
<1> QED
  BY <1>1, <1>2, <1>3

LEMMA FaultAlike ==
  ASSUME IsolationInv, (FetchFault /\ Other!FetchFault) \/ (DecodeFault /\ Other!DecodeFault)
  PROVE  SameView' /\ cells2' = cells2
  BY DEF IsolationInv, SameView, FetchFault, Other!FetchFault, DecodeFault, Other!DecodeFault

LEMMA LoadAlike ==
  ASSUME IsolationInv,
         (LoadImmediate /\ Other!LoadImmediate) \/ (LoadMemory /\ Other!LoadMemory)
  PROVE  SameView' /\ cells2' = cells2
<1>1. Fetched /\ Executed({LOAD}) /\ Other!Executed({Other!LOAD})
  BY DEF LoadImmediate, LoadMemory, Other!LoadImmediate, Other!LoadMemory, Executed
<1>2. TI2' = TI' /\ ticks2' = ticks' /\ MODE2' = MODE' /\ running2' = running'
  BY <1>1, SameTick
<1>3. /\ R2 = R /\ Other!regA = regA /\ Other!operand = operand
      /\ Other!Target = Target /\ Target \in Word
  BY <1>1, SameRegisters, SameInstruction
<1>4. Other!read(Target) = read(Target) /\ Other!AccessFault(Target) = AccessFault(Target)
  BY <1>3, SameAccess
<1>5. R2' = R' /\ PI2' = PI'
  BY <1>3, <1>4 DEF LoadImmediate, LoadMemory, Other!LoadImmediate, Other!LoadMemory,
                    IsolationInv, SameView
<1>6. /\ IC2' = IC' /\ SF2' = SF' /\ SI2' = SI'
      /\ cells2' = cells2 /\ cells' = cells
  BY DEF LoadImmediate, LoadMemory, Other!LoadImmediate, Other!LoadMemory, IsolationInv,
         SameView
<1> QED
  BY <1>2, <1>5, <1>6 DEF IsolationInv, SameView

LEMMA StoreAlike ==
  ASSUME IsolationInv,
         (StoreMemory /\ Other!StoreMemory) \/ (InvalidMode /\ Other!InvalidMode)
  PROVE  SameView' /\ cells2' \in [Address -> Word]
<1>1. PICK ops, ops2 : Fetched /\ Executed(ops) /\ Other!Executed(ops2)
  BY DEF StoreMemory, InvalidMode, Other!StoreMemory, Other!InvalidMode, Executed
<1>2. TI2' = TI' /\ ticks2' = ticks' /\ MODE2' = MODE' /\ running2' = running'
  BY <1>1, SameTick
<1>3. /\ R2[Other!regA] = R[regA] /\ R[regA] \in Word
      /\ Other!Target = Target /\ Target \in Word
  BY <1>1, SameRegisters, SameInstruction
<1>4. /\ Other!Accessible(Target) <=> Accessible(Target)
      /\ Accessible(Target) <=> Target \in UserAddress
      /\ Other!AccessFault(Target) = AccessFault(Target)
  BY <1>3, SameAccess
<1>5. UserAddress \subseteq Address
  BY Sizes DEF UserAddress, Address
<1>6. /\ cells \in [Address -> Word] /\ cells2 \in [Address -> Word]
      /\ \A a \in UserAddress : cells2[a] = cells[a]
  BY DEF IsolationInv, CPUInv, TypeOK, SameView
<1>7. \/ cells' = cells /\ cells2' = cells2
      \/ /\ Target \in UserAddress
         /\ cells' = [cells EXCEPT ![Target] = R[regA]]
         /\ cells2' = [cells2 EXCEPT ![Target] = R[regA]]
  BY <1>3, <1>4 DEF StoreMemory, InvalidMode, Other!StoreMemory, Other!InvalidMode
<1>8. /\ cells2' \in [Address -> Word]
      /\ \A a \in UserAddress : cells2'[a] = cells'[a]
  BY <1>3, <1>5, <1>6, <1>7
<1>9. IC2' = IC' /\ R2' = R' /\ SF2' = SF' /\ PI2' = PI' /\ SI2' = SI'
  BY <1>3, <1>4 DEF StoreMemory, InvalidMode, Other!StoreMemory, Other!InvalidMode,
                    IsolationInv, SameView
<1> QED
  BY <1>2, <1>8, <1>9 DEF SameView

LEMMA ArithmeticAlike ==
  ASSUME IsolationInv, Arithmetic, Other!Arithmetic
  PROVE  SameView' /\ cells2' = cells2
<1>1. Fetched /\ Executed({ADD, SUB, MUL})
      /\ Other!Executed({Other!ADD, Other!SUB, Other!MUL})
  BY DEF Arithmetic, Other!Arithmetic, Executed
<1>2. TI2' = TI' /\ ticks2' = ticks' /\ MODE2' = MODE' /\ running2' = running'
  BY <1>1, SameTick
<1>3. /\ R2 = R /\ Other!regA = regA /\ Other!regB = regB /\ Other!opcode = opcode
  BY <1>1, SameRegisters, SameInstruction
<1>4. \A a, b : /\ Other!Exact(a, b) = Exact(a, b)
                /\ Other!Overflows(a, b) <=> Overflows(a, b)
  BY <1>3, SameConstants DEF Exact, Other!Exact, Overflows, Other!Overflows
<1>5. \A value : Other!ResultFlags(value) = ResultFlags(value)
  BY SameConstants DEF ResultFlags, Other!ResultFlags
<1>6. R2' = R' /\ PI2' = PI' /\ SF2' = SF'
  BY <1>3, <1>4, <1>5, SameConstants DEF Arithmetic, Other!Arithmetic
<1>7. IC2' = IC' /\ SI2' = SI' /\ cells2' = cells2 /\ cells' = cells
  BY DEF Arithmetic, Other!Arithmetic, IsolationInv, SameView
<1> QED
  BY <1>2, <1>6, <1>7 DEF IsolationInv, SameView

LEMMA DivideAlike ==
  ASSUME IsolationInv, (Divide /\ Other!Divide) \/ (Compare /\ Other!Compare)
  PROVE  SameView' /\ cells2' = cells2
<1>1. PICK ops, ops2 : Fetched /\ Executed(ops) /\ Other!Executed(ops2)
  BY DEF Divide, Compare, Other!Divide, Other!Compare, Executed
<1>2. TI2' = TI' /\ ticks2' = ticks' /\ MODE2' = MODE' /\ running2' = running'
  BY <1>1, SameTick
<1>3. R2 = R /\ Other!regA = regA /\ Other!regB = regB /\ PI2 = PI
  BY <1>1, SameRegisters DEF IsolationInv, SameView
<1>4. \A value : Other!ResultFlags(value) = ResultFlags(value)
  BY SameConstants DEF ResultFlags, Other!ResultFlags
<1>5. R2' = R' /\ PI2' = PI' /\ SF2' = SF'
  BY <1>3, <1>4 DEF Divide, Compare, Other!Divide, Other!Compare
<1>6. IC2' = IC' /\ SI2' = SI' /\ cells2' = cells2 /\ cells' = cells
  BY DEF Divide, Compare, Other!Divide, Other!Compare, IsolationInv, SameView
<1> QED
  BY <1>2, <1>5, <1>6 DEF IsolationInv, SameView

LEMMA ControlAlike ==
  ASSUME IsolationInv, (Jump /\ Other!Jump) \/ (NoOperation /\ Other!NoOperation)
  PROVE  SameView' /\ cells2' = cells2
<1>1. PICK ops, ops2 : Fetched /\ Executed(ops) /\ Other!Executed(ops2)
  BY DEF Jump, NoOperation, Other!Jump, Other!NoOperation, Executed
<1>2. TI2' = TI' /\ ticks2' = ticks' /\ MODE2' = MODE' /\ running2' = running'
  BY <1>1, SameTick
<1>3. /\ Other!opcode = opcode /\ Other!jumpOperand = jumpOperand
      /\ SF2 = SF /\ IC2 = IC
  BY <1>1, SameInstruction DEF IsolationInv, SameView
<1>4. Other!Taken <=> Taken
  BY <1>3, SameConstants DEF Taken, Other!Taken
<1>5. IC2' = IC'
  BY <1>3, <1>4 DEF Jump, NoOperation, Other!Jump, Other!NoOperation
<1>6. /\ R2' = R' /\ SF2' = SF' /\ PI2' = PI' /\ SI2' = SI'
      /\ cells2' = cells2 /\ cells' = cells
  BY DEF Jump, NoOperation, Other!Jump, Other!NoOperation, IsolationInv, SameView
<1> QED
  BY <1>2, <1>5, <1>6 DEF IsolationInv, SameView

LEMMA SystemAlike ==
  ASSUME IsolationInv, (Privileged /\ Other!Privileged) \/ (SystemCall /\ Other!SystemCall)
  PROVE  SameView' /\ cells2' = cells2
<1>1. PICK ops, ops2 : Fetched /\ Executed(ops) /\ Other!Executed(ops2)
  BY DEF Privileged, SystemCall, Other!Privileged, Other!SystemCall, Executed
<1>2. TI2' = TI' /\ ticks2' = ticks' /\ MODE2' = MODE' /\ running2' = running'
  BY <1>1, SameTick
<1>3. MODE = "user" /\ MODE2 = "user" /\ PI2 = PI /\ SI2 = SI
  BY DEF IsolationInv, SameView
<1>4. PI2' = PI' /\ SI2' = SI'
  BY <1>3 DEF Privileged, SystemCall, Other!Privileged, Other!SystemCall
<1>5. /\ IC2' = IC' /\ R2' = R' /\ SF2' = SF'
      /\ cells2' = cells2 /\ cells' = cells
  BY DEF Privileged, SystemCall, Other!Privileged, Other!SystemCall, IsolationInv, SameView
<1> QED
  BY <1>2, <1>4, <1>5 DEF IsolationInv, SameView

LEMMA InterruptAlike ==
  ASSUME IsolationInv,
         \/ ClearLatches /\ Other!ClearLatches
         \/ Stop /\ Other!Stop
         \/ Stopped /\ Other!Stopped
  PROVE  SameView' /\ cells2' = cells2
<1>1. CASE ClearLatches /\ Other!ClearLatches
  BY <1>1 DEF ClearLatches, Other!ClearLatches, IsolationInv, SameView
<1>2. CASE Stop /\ Other!Stop
  BY <1>2 DEF Stop, Other!Stop, latches, Other!latches, IsolationInv, SameView
<1>3. CASE Stopped /\ Other!Stopped
  BY <1>3 DEF Stopped, Other!Stopped, cpuVars, Other!cpuVars, IsolationInv, SameView
<1> QED
  BY <1>1, <1>2, <1>3

-----------------------------------------------------------------------------
LEMMA InitIsolation == InitBoth => IsolationInv
<1> SUFFICES ASSUME InitBoth PROVE IsolationInv
  OBVIOUS
<1>1. CPUInv /\ MODE = "user"
  BY InitCPUInv, UserAssumption DEF InitBoth, Init, Reset
<1>2. UserAddress \subseteq Address
  BY Sizes DEF UserAddress, Address
<1>3. PICK secret \in Secrets :
        cells2 = [a \in Address |-> IF a \in UserAddress THEN cells[a] ELSE secret[a]]
  BY DEF InitBoth
<1>4. cells \in [Address -> Word] /\ secret \in [Address -> Word]
  BY <1>1, <1>3, SecretsAssumption DEF CPUInv, TypeOK
<1>5. cells2 \in [Address -> Word] /\ \A a \in UserAddress : cells2[a] = cells[a]
  BY <1>2, <1>3, <1>4
<1> QED
  BY <1>1, <1>5 DEF InitBoth, IsolationInv, SameView

LEMMA NextIsolation == IsolationInv /\ [NextBoth]_bothVars => IsolationInv'
<1> SUFFICES ASSUME IsolationInv, [NextBoth]_bothVars PROVE IsolationInv'
  OBVIOUS
<1>1. CASE UNCHANGED bothVars
  BY <1>1 DEF bothVars, cpuVars, otherVars, IsolationInv, CPUInv, TypeOK, UserLatch, SameView
<1>2. CASE Next /\ Other!Next
  <2>1. CPUInv'
    BY <1>2, NextCPUInv DEF IsolationInv
  <2>2. MODE' = "user"
    BY <1>2, <2>1, StepConfined DEF IsolationInv, Confined
  <2>3. SameView' /\ (cells2' = cells2 \/ cells2' \in [Address -> Word])
    BY <1>2, SameStep, FaultAlike, LoadAlike, StoreAlike, ArithmeticAlike, DivideAlike,
       ControlAlike, SystemAlike, InterruptAlike
  <2> QED
    BY <2>1, <2>2, <2>3 DEF IsolationInv
<1> QED
  BY <1>1, <1>2 DEF NextBoth

\* For every program in user mode and every two contents of the supervisor's memory,
\* whatever the program reads, follows, calculates or jumps to: neither its
\* registers, nor the way it takes, nor a fault, nor the timer depends on what the
\* supervisor's memory holds (memory.c:20-49 as cpu.c uses it).
THEOREM UserLearnsNothing == SpecBoth => []SameView
<1>1. IsolationInv => SameView
  BY DEF IsolationInv
<1> QED
  BY <1>1, InitIsolation, NextIsolation, PTL DEF SpecBoth
=============================================================================
