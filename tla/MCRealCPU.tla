---------------------------- MODULE MCRealCPU ----------------------------
(***************************************************************************)
(* Memories for RealCPU under TLC: the words that the runs put together to *)
(* programs, and the programs that call the system.                        *)
(***************************************************************************)
EXTENDS RealCPU

Instruction(op, a, m, o) == OperandSize * (32 * op + 4 * a + m) + o
Alu(op, a, b) == 32 * OperandSize * op + 4 * OperandSize * a + (OperandSize \div 2) * b
JumpTo(op, a) == 32 * OperandSize * op + a

\* Word 3 is the one that the programs load, follow and overwrite.  The supervisor's
\* words all have the same value.
Image(a, b, c, d, last, supervisor) ==
  [i \in Address |->
     CASE i = 0 -> a [] i = 1 -> b [] i = 2 -> c [] i = 3 -> d
       [] i = 4 -> last
       [] i \in 5 .. UserSize - 1 -> 0
       [] i >= UserSize -> supervisor]

MemoryAccesses ==
  {Instruction(LOAD, 0, 0, 3), Instruction(LOAD, 1, 1, 3), Instruction(LOAD, 0, 2, 3),
   Instruction(STORE, 1, 1, 2), Instruction(STORE, 0, 2, 3), Instruction(STORE, 0, 0, 1)}
Others ==
  {Alu(DIV, 1, 0), Alu(CMP, 0, 1), JumpTo(JMP, 9), JumpTo(JZ, 2),
   Instruction(READ, 0, 0, 0), Instruction(WRITE, 0, 0, 0), Instruction(HALT, 0, 0, 0),
   Instruction(NOP, 0, 0, 0), Instruction(SYS, 0, 0, 0)}
Loops == {JumpTo(JMP, 0), JumpTo(JNZ, 0)}
Calculations ==
  {Instruction(LOAD, 0, 0, 1), Alu(ADD, 0, 1), Alu(SUB, 0, 1), Alu(MUL, 0, 1), Alu(MUL, 1, 1)}

\* Pointers to the user's memory, to the first word of the supervisor's and beyond
\* the memory, and a word that is no instruction.
Pointers == {7, UserSize, MemorySize, WordSize - 1}

SystemCalls == {[i \in Address |-> IF i = 1 THEN Instruction(SYS, 0, 0, 0) ELSE 0],
                [i \in Address |-> Instruction(SYS, 0, 0, 0)]}
=============================================================================
