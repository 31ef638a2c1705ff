----------------------------- MODULE RealCPU -----------------------------
(***************************************************************************)
(* The processor of the real machine with its memory: execCycle of         *)
(* src/rm/cpu.c, the accessors of src/rm/memory.c and the latches of       *)
(* src/rm/interrupt.c.  One action is one turn of the inner loop (fetch,   *)
(* decode, execute, tick) or one call of handleInterrupts.                 *)
(*                                                                         *)
(* An instruction has a four-bit opcode, then three bits for regA, two for *)
(* the mode and the rest for the operand; the other sizes follow from that *)
(* of the operand as they do in the source.                                *)
(***************************************************************************)
EXTENDS Integers

CONSTANTS
  OperandSize,  \* the operands of LOAD and STORE, 128 in the source
  TickLimit,    \* TICK_LIMIT, 10
  Images,       \* what the memory may hold when execCycle is entered
  Modes         \* the modes it may be entered in

WordSize == 512 * OperandSize
UserSize == 2 * OperandSize
MemorySize == 4 * OperandSize
Word == 0 .. WordSize - 1
Address == 0 .. MemorySize - 1
UserAddress == 0 .. UserSize - 1

ASSUME OperandAssumption == OperandSize \in Nat \ {0} /\ OperandSize % 2 = 0
ASSUME TickAssumption == TickLimit \in Nat \ {0}
ASSUME ImagesAssumption == Images \subseteq [Address -> Word]
ASSUME ModesAssumption == Modes \subseteq {"user", "supervisor"}

VARIABLES
  IC, R,
  SF,           \* the flags that are set
  MODE,
  PI, SI, TI,   \* the latches
  cells,        \* physicalMemory
  ticks,        \* of the software timer in execCycle
  running

latches == <<PI, SI, TI>>
cpuVars == <<IC, R, SF, MODE, PI, SI, TI, cells, ticks, running>>

\* initCPU and initKernel, and what the memory and the mode have been given since.
Reset ==
  /\ IC = 0 /\ R = [i \in 0 .. 7 |-> 0] /\ SF = {}
  /\ MODE \in Modes
  /\ PI = "NONE" /\ SI = "NONE" /\ TI = "NONE"
  /\ cells \in Images
  /\ ticks = 0

\* execCycle has been entered.
Init == Reset /\ running = TRUE

-----------------------------------------------------------------------------
\* Memory

\* Mutant: the first supervisor address counts as a user's.
Accessible_off_by_one(a) ==
  \/ a <= UserSize
  \/ a < MemorySize /\ MODE = "supervisor"

Accessible(a) ==
  \/ a < UserSize
  \/ a < MemorySize /\ MODE = "supervisor"

\* Mutant: the interrupt is raised, and the word is read all the same.
read_leaks(a) == IF a < MemorySize THEN cells[a] ELSE 0

\* A read that faults yields 0.
read(a) == IF Accessible(a) THEN cells[a] ELSE 0

\* PI after an access that was the first to raise it.
AccessFault(a) == IF Accessible(a) THEN "NONE" ELSE "INVALID_ADDRESS"

-----------------------------------------------------------------------------
\* decode

opcode == cells[IC] \div (32 * OperandSize)
regA == (cells[IC] \div (4 * OperandSize)) % 8
regB == (cells[IC] \div (OperandSize \div 2)) % 8
mode == (cells[IC] \div OperandSize) % 4
operand == cells[IC] % OperandSize
jumpOperand == cells[IC] % (4 * OperandSize)

HALT == 0
LOAD == 1
STORE == 2
ADD == 3
SUB == 4
MUL == 5
DIV == 6
CMP == 7
JMP == 8
JZ == 9
JNZ == 10
READ == 11
WRITE == 12
NOP == 13
SYS == 14

interrupted == PI # "NONE" \/ SI # "NONE" \/ TI # "NONE"

\* The word at IC cannot be read: IC stays where it is.
\* Mutant: IC is incremented before the fault is noticed.
FetchFault_advances ==
  /\ running /\ ~interrupted /\ ~Accessible(IC)
  /\ PI' = "INVALID_ADDRESS" /\ IC' = IC + 1
  /\ UNCHANGED <<R, SF, MODE, SI, TI, cells, ticks, running>>

FetchFault ==
  /\ running /\ ~interrupted /\ ~Accessible(IC)
  /\ PI' = "INVALID_ADDRESS"
  /\ UNCHANGED <<IC, R, SF, MODE, SI, TI, cells, ticks, running>>

Fetched == running /\ ~interrupted /\ Accessible(IC)

\* decode rejects the word, which IC is already past, and the timer does not
\* tick.  Its checks of regA, of the mode and of the operand reject nothing,
\* because the fields are too narrow for a value out of range.
\* Mutant: IC is incremented by execute.
DecodeFault_retries ==
  /\ Fetched /\ opcode > SYS
  /\ PI' = "INVALID_OPCODE"
  /\ UNCHANGED <<IC, R, SF, MODE, SI, TI, cells, ticks, running>>

DecodeFault ==
  /\ Fetched /\ opcode > SYS
  /\ PI' = "INVALID_OPCODE" /\ IC' = IC + 1
  /\ UNCHANGED <<R, SF, MODE, SI, TI, cells, ticks, running>>

-----------------------------------------------------------------------------
\* execute

\* An instruction that is executed, and the tick that follows it.
Executed(ops) ==
  /\ Fetched /\ opcode \in ops
  /\ IF ticks + 1 >= TickLimit
     THEN TI' = "EXPIRED" /\ ticks' = 0
     ELSE UNCHANGED TI /\ ticks' = ticks + 1
  /\ UNCHANGED <<MODE, running>>

LoadImmediate ==
  /\ Executed({LOAD}) /\ mode = 0 /\ IC' = IC + 1
  /\ R' = [R EXCEPT ![regA] = operand]
  /\ UNCHANGED <<SF, PI, SI, cells>>

\* The address of a direct or an indirect operand. The operand itself is always
\* a user address, so only the second access can fault.
Target == IF mode = 1 THEN operand ELSE cells[operand]

\* The register is overwritten even by a read that faults.
LoadMemory ==
  /\ Executed({LOAD}) /\ mode \in {1, 2} /\ IC' = IC + 1
  /\ R' = [R EXCEPT ![regA] = read(Target)]
  /\ PI' = AccessFault(Target)
  /\ UNCHANGED <<SF, SI, cells>>

StoreMemory ==
  /\ Executed({STORE}) /\ mode \in {1, 2} /\ IC' = IC + 1
  /\ cells' = IF Accessible(Target) THEN [cells EXCEPT ![Target] = R[regA]] ELSE cells
  /\ PI' = AccessFault(Target)
  /\ UNCHANGED <<R, SF, SI>>

InvalidMode ==
  /\ Executed({LOAD, STORE}) /\ IC' = IC + 1
  /\ mode = 3 \/ (opcode = STORE /\ mode = 0)
  /\ PI' = "INVALID_OPCODE"
  /\ UNCHANGED <<R, SF, SI, cells>>

ResultFlags(value) ==
  (IF value = 0 THEN {"ZERO"} ELSE {})
    \cup (IF value >= WordSize \div 2 THEN {"NEGATIVE"} ELSE {})

\* What ADD, SUB and MUL test before they compute.
\* Mutant: the product is refused at the limit already.
Overflows_early(a, b) ==
  \/ opcode = ADD /\ a > WordSize - 1 - b
  \/ opcode = SUB /\ a < b
  \/ opcode = MUL /\ b # 0 /\ a >= (WordSize - 1) \div b

Overflows(a, b) ==
  \/ opcode = ADD /\ a > WordSize - 1 - b
  \/ opcode = SUB /\ a < b
  \/ opcode = MUL /\ b # 0 /\ a > (WordSize - 1) \div b

Exact(a, b) ==
  CASE opcode = ADD -> a + b
    [] opcode = SUB -> a - b
    [] opcode = MUL -> a * b

\* The result is stored, its low bits, whether or not it overflows. A product
\* of two words exceeds int, which leaves the same low bits on the machines
\* that this is built for.
Arithmetic ==
  /\ Executed({ADD, SUB, MUL}) /\ IC' = IC + 1
  /\ LET a == R[regA]
         b == R[regB]
         result == Exact(a, b) % WordSize
     IN /\ R' = [R EXCEPT ![regA] = result]
        /\ PI' = IF Overflows(a, b) THEN "OVERFLOW" ELSE "NONE"
        /\ SF' = ResultFlags(result)
                   \cup (IF Overflows(a, b) THEN {"OVERFLOW", "CARRY"} ELSE {})
  /\ UNCHANGED <<SI, cells>>

Divide ==
  /\ Executed({DIV}) /\ IC' = IC + 1
  /\ IF R[regB] = 0
     THEN PI' = "DIVZERO" /\ SF' = {} /\ UNCHANGED R
     ELSE LET quotient == R[regA] \div R[regB]
          IN /\ R' = [R EXCEPT ![regA] = quotient]
             /\ SF' = ResultFlags(quotient)
             /\ UNCHANGED PI
  /\ UNCHANGED <<SI, cells>>

Compare ==
  /\ Executed({CMP}) /\ IC' = IC + 1
  /\ SF' = CASE R[regA] = R[regB] -> {"ZERO"}
             [] R[regA] < R[regB] -> {"NEGATIVE"}
             [] R[regA] > R[regB] -> {}
  /\ UNCHANGED <<R, PI, SI, cells>>

\* decode leaves the mode of a jump 0, so all three jump to their operand.
Taken ==
  \/ opcode = JMP
  \/ opcode = JZ /\ "ZERO" \in SF
  \/ opcode = JNZ /\ "ZERO" \notin SF

Jump ==
  /\ Executed({JMP, JZ, JNZ})
  /\ IC' = IF Taken THEN jumpOperand ELSE IC + 1
  /\ UNCHANGED <<R, SF, PI, SI, cells>>

Privileged ==
  /\ Executed({READ, WRITE, HALT}) /\ IC' = IC + 1
  /\ IF MODE = "supervisor"
     THEN /\ SI' = CASE opcode = READ -> "READ"
                     [] opcode = WRITE -> "WRITE"
                     [] opcode = HALT -> "HALT"
          /\ UNCHANGED PI
     ELSE PI' = "INVALID_OPCODE" /\ UNCHANGED SI
  /\ UNCHANGED <<R, SF, cells>>

NoOperation ==
  /\ Executed({NOP}) /\ IC' = IC + 1
  /\ UNCHANGED <<R, SF, PI, SI, cells>>

SystemCall ==
  /\ Executed({SYS}) /\ IC' = IC + 1
  /\ SI' = "SYS"
  /\ UNCHANGED <<R, SF, PI, cells>>

-----------------------------------------------------------------------------
\* handleInterrupts

\* Mutant: the timer is local to the inner loop.
ClearLatches_and_ticks ==
  /\ running /\ interrupted /\ SI # "HALT"
  /\ PI' = "NONE" /\ TI' = "NONE"
  /\ SI' = IF SI \in {"READ", "WRITE"} THEN "NONE" ELSE SI
  /\ ticks' = 0
  /\ UNCHANGED <<IC, R, SF, MODE, cells, running>>

\* SYS is not among the interrupts that are cleared.
ClearLatches ==
  /\ running /\ interrupted /\ SI # "HALT"
  /\ PI' = "NONE" /\ TI' = "NONE"
  /\ SI' = IF SI \in {"READ", "WRITE"} THEN "NONE" ELSE SI
  /\ UNCHANGED <<IC, R, SF, MODE, cells, ticks, running>>

Stop ==
  /\ running /\ SI = "HALT"
  /\ running' = FALSE
  /\ UNCHANGED <<IC, R, SF, MODE, latches, cells, ticks>>

Stopped == ~running /\ UNCHANGED cpuVars

Next ==
  \/ FetchFault \/ DecodeFault
  \/ LoadImmediate \/ LoadMemory \/ StoreMemory \/ InvalidMode
  \/ Arithmetic \/ Divide \/ Compare
  \/ Jump \/ Privileged \/ NoOperation \/ SystemCall
  \/ ClearLatches \/ Stop
  \/ Stopped

Spec == Init /\ [][Next]_cpuVars

\* execCycle waits for nothing.
FairSpec == Spec /\ WF_cpuVars(Next)

-----------------------------------------------------------------------------
\* IC never gets past the word after the memory, the registers keep their 16
\* bits, and one instruction latches at most one of PI and SI (cpu.c:28-36, 122-266).
TypeOK ==
  /\ IC \in 0 .. MemorySize
  /\ R \in [0 .. 7 -> Word]
  /\ SF \subseteq {"ZERO", "NEGATIVE", "OVERFLOW", "CARRY"}
  /\ MODE \in Modes
  /\ PI \in {"NONE", "INVALID_OPCODE", "INVALID_ADDRESS", "DIVZERO", "OVERFLOW"}
  /\ SI \in {"NONE", "READ", "WRITE", "HALT", "SYS"}
  /\ TI \in {"NONE", "EXPIRED"}
  /\ PI = "NONE" \/ SI = "NONE"
  /\ cells \in [Address -> Word]
  /\ ticks \in 0 .. TickLimit - 1
  /\ running \in BOOLEAN

\* Whatever it executes, a user's program leaves supervisor memory as it is,
\* stays in user mode, and neither stops the processor nor starts a transfer
\* (memory.c:20-49, cpu.c:236-256).
UserConfined ==
  [][MODE = "user" =>
       /\ \A a \in Address \ UserAddress : cells'[a] = cells[a]
       /\ MODE' = "user"
       /\ SI' \in {"NONE", "SYS"}
       /\ running' = running]_cpuVars

\* Overflow is latched exactly when the sum, difference or product is no word,
\* whichever test the instruction makes beforehand, and a result that is one is
\* exact (cpu.c:159-192).
OverflowExact ==
  [][Fetched /\ opcode \in {ADD, SUB, MUL} =>
       LET exact == Exact(R[regA], R[regB]) IN
       /\ PI' = "OVERFLOW" <=> exact \notin Word
       /\ "OVERFLOW" \in SF' <=> exact \notin Word
       /\ exact \in Word => R'[regA] = exact]_cpuVars

\* No program keeps the timer from expiring again and again, however often it
\* faults or asks for a transfer, unless the processor stops, hangs on a SYS, or
\* fetches where it must not (cpu.c:303-325).
TimerGoesOn ==
  \/ []<>(TI = "EXPIRED")
  \/ <>~running
  \/ <>[](SI = "SYS")
  \/ <>[](~Accessible(IC))

\* A supervisor's program without jumps and system calls that has a HALT at its
\* end gets there, through every fault and every timer interrupt, also when the
\* HALT coincides with one (cpu.c:270-325).
Straight ==
  /\ \A a \in Address : cells[a] \div (32 * OperandSize) \notin {JMP, JZ, JNZ, SYS}
  /\ cells[MemorySize - 1] \div (32 * OperandSize) = HALT

StraightHalts == [](MODE = "supervisor" /\ Straight) => <>[]~running

\* The documentation says of handleInterrupts that it clears PI, SI and TI and
\* ends the loop on a HALT (ARCHITECTURE.md:55): a latched interrupt does not
\* stay (cpu.c:270-299).
InterruptsCleared == interrupted ~> (~interrupted \/ ~running)
=============================================================================
