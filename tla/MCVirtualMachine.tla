------------------------- MODULE MCVirtualMachine -------------------------
(***************************************************************************)
(* An instance of Swapping for TLC: the memory and the disk are small, and *)
(* the images on the disk are what the run asks about.                     *)
(***************************************************************************)
EXTENDS Swapping

LittleEndian(words) ==
  [i \in 0 .. 2 * Len(words) - 1 |->
     IF i % 2 = 0 THEN words[i \div 2 + 1] % 256 ELSE words[i \div 2 + 1] \div 256]

\* A file begins at sector first with these words; every other byte of the disk
\* is different.
DiskWith(words, first) ==
  [s \in Sector |-> [i \in 0 .. SectorSize - 1 |->
     IF s = first /\ i < 2 * Len(words) THEN LittleEndian(words)[i]
                                      ELSE (s * SectorSize + i + 100) % 256]]

\* Headers of every kind: empty, within a sector, over several, too long for the
\* file, for the disk or for the memory.
HeaderDisks ==
  {DiskWith(<<wordCount, entryOffset, loadAddress>>, first) :
     wordCount \in {0, 1, 2, 5, 6, 7, 8}, entryOffset \in {0, 2, 7},
     loadAddress \in {0, 1, 8}, first \in {0, 1}}
AllFiles ==
  [known : {TRUE}, startSector : {0, 1, NSectors - 2, NSectors}, sectorCount : 1 .. 3]
    \cup [known : {FALSE}, startSector : {0}, sectorCount : {3}]

\* LOAD R0,#2; LOAD R1,#8; LOAD R2,#6; LOAD R2,#1; ADD R2,R1; SUB R1,R2; READ;
\* WRITE; SYS and STORE, which this interpreter does not have.  The rest of the memory
\* is 0, which is HALT.
Instructions == {4098, 4616, 5126, 5121, 13376, 16 * 1024 + 640, 45056, 49152,
                 57344, 8192}

\* Programs of four of them, the first also LOAD R0,#4, at the bottom of the memory
\* or at its very top.  They take up two sectors; a read of the third brings in a
\* READ and a WRITE, which may be executed next.
ProgramDisks ==
  {[DiskWith(<<4, 0, loadAddress, a>>, 0) EXCEPT
      ![1] = [i \in 0 .. SectorSize - 1 |->
                IF i < 6 THEN LittleEndian(<<b, c, d>>)[i] ELSE 0],
      ![2] = [i \in 0 .. SectorSize - 1 |-> IF i % 4 = 0 THEN 176
                                            ELSE IF i % 4 = 2 THEN 192 ELSE 0]] :
     loadAddress \in {0, VMSize - 8}, a \in {4098, 4100, 4616, 5126},
     b \in Instructions, c \in Instructions, d \in Instructions}

AllDisks == HeaderDisks \cup ProgramDisks
=============================================================================
