--------------------------- MODULE MCSupervisor ---------------------------
(***************************************************************************)
(* An instance of RealMachine for TLC.  Some machines have a program in    *)
(* their memory that calculates and goes forward only, up to a HALT or     *)
(* past the end of the memory, and run it at once.  The others start with  *)
(* an empty memory, and load what is on their disk after other calls.      *)
(***************************************************************************)
EXTENDS MCRealCPU, RealMachine

Words ==
  Calculations \cup MemoryAccesses
    \cup {Alu(DIV, 1, 0), Alu(CMP, 0, 1), Instruction(READ, 0, 0, 0), Instruction(HALT, 0, 0, 0)}

ForwardPrograms ==
  {Image(a, b, c, d, 0, supervisor) :
     a, b, c \in Words, d \in Pointers \cup {WordSize \div 3 + 1},
     supervisor \in {1, Instruction(NOP, 0, 0, 0)}}
Empty == [a \in Address |-> 0]
Memories == ForwardPrograms \cup {Empty}
FreshMemories == {Empty}

\* Images that end within a sector, with one, in the second and in the third one, an
\* entry beyond the image, and an image of no words.
Headers == {<<1, 0>>, <<2, 1>>, <<5, 4>>, <<7, 2>>, <<5, 5>>, <<0, 0>>}
SectorOf(a, b, c, d) ==
  [i \in 0 .. 3 |-> CASE i = 0 -> a [] i = 1 -> b [] i = 2 -> c [] i = 3 -> d]
Disks ==
  {[s \in Sector |->
      IF s = 0 THEN SectorOf(h[1], h[2], WordSize - 1, Instruction(LOAD, 0, 0, 1))
      ELSE SectorOf(2 * s, s - 1, Alu(op, 0, 0), Alu(MUL, 0, 0))] : h \in Headers, op \in {ADD, NOP, 15}}

Transfer(source, destination, sb, db, count) ==
  [ST |-> source, DT |-> destination, SB |-> sb, DB |-> db, COUNT |-> count]
SomeTransfers ==
  {Transfer("USER_MEM", "SUPER_MEM", 0, UserSize, 2),
   Transfer("SUPER_MEM", "USER_MEM", UserSize, 1, 2),
   Transfer("SUPER_MEM", "USER_MEM", 0, 1, 3),
   Transfer("USER_MEM", "IO", 0, 0, 1), Transfer("IO", "CPU_REG", 0, 0, 0),
   Transfer("SUPER_MEM", "DISK", 0, 1, 1), Transfer("CPU_REG", "IO", 0, 0, 1)}
=============================================================================
