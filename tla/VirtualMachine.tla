-------------------------- MODULE VirtualMachine --------------------------
(***************************************************************************)
(* One virtual machine from the load of its program to its end: the loop   *)
(* of loaderLoadFile that copies an image from the disk into the memory    *)
(* (src/kernel/loader.c), the interpreter runOperations                    *)
(* (src/vm/vm_cpu.c, src/vm/vm_program.c) and the transfer that completeIO *)
(* makes for a trapped machine (src/kernel/ioHandler.c, src/rm/disk.c).    *)
(*                                                                         *)
(* Module Kernel schedules these machines and sees of them only that they  *)
(* load or not, and then halt, fail or trap.                               *)
(***************************************************************************)
EXTENDS Integers, Sequences, FiniteSets

CONSTANTS
  VMSize,      \* VM_MEMORY_SIZE, 255 bytes in the source
  SectorSize,  \* DISK_SECTOR_SIZE, 16
  NSectors,    \* DISK_SECTOR_COUNT, 128
  Disks,       \* what the disk may contain at first
  Files        \* the entries the file table may have for the program

ByteSize == 256
WordSize == ByteSize * ByteSize
Byte == 0 .. ByteSize - 1
Word == 0 .. WordSize - 1
Sector == 0 .. NSectors - 1
Address == 0 .. VMSize - 1
SectorImage == [0 .. SectorSize - 1 -> Byte]

\* sizeof(ProgramHeader), which the first sector holds.
HeaderSize == 6

ASSUME SizesAssumption ==
  /\ VMSize \in Nat \ {0} /\ NSectors \in 1 .. WordSize
  /\ SectorSize \in Nat /\ SectorSize >= HeaderSize /\ SectorSize % 2 = 0
ASSUME DisksAssumption == Disks \subseteq [Sector -> SectorImage]
ASSUME FilesAssumption ==
  Files \subseteq [known : BOOLEAN, startSector : Word, sectorCount : Word]

VARIABLES
  status,   \* "created", "loading", "loaded", "unloadable"; "ready" to go on,
            \* "running", "trapped"; "halted", "failed"
  disk,
  file,     \* the entry of the program in the file table
  load,     \* the locals of loaderLoadFile
  memory, PC, R,
  trap      \* trap_code and trap_r0 .. trap_r2

loadVars == <<disk, file, load>>
vmVars == <<status, disk, file, load, memory, PC, R, trap>>

NoTrap == [code |-> "NONE", r0 |-> 0, r1 |-> 0, r2 |-> 0]

Init ==
  /\ status = "created"
  /\ disk \in Disks /\ file \in Files
  /\ load = [wordCount |-> 0, entryOffset |-> 0, loadAddress |-> 0,
             wordsLoaded |-> 0, byteOffset |-> 0, sector |-> 0, sectorsRead |-> 0]
  /\ memory = [a \in Address |-> 0] /\ PC = 0
  /\ R = [i \in 0 .. 7 |-> 0]
  /\ trap = NoTrap

-----------------------------------------------------------------------------
\* loaderLoadFile

readDisk(sector) == sector < NSectors

read_le16(sector, i) == disk[sector][i] + ByteSize * disk[sector][i + 1]

\* Mutant: the words are taken for bytes.
address_fits_words(address, words) == address + words <= VMSize

address_fits(address, words) == address + 2 * words <= VMSize

Unloadable == status' = "unloadable" /\ UNCHANGED load

\* The entry is found, its first sector is read and the header is validated.
LoadHeader ==
  /\ status = "created"
  /\ LET s == file.startSector IN
     IF ~file.known \/ ~readDisk(s)
     THEN Unloadable
     ELSE LET wordCount == read_le16(s, 0)
              entryOffset == read_le16(s, 2)
              loadAddress == read_le16(s, 4)
          IN IF wordCount = 0 \/ ~address_fits(loadAddress, wordCount)
                \/ entryOffset >= wordCount
             THEN Unloadable
             ELSE /\ status' = "loading"
                  /\ load' = [wordCount |-> wordCount, entryOffset |-> entryOffset,
                              loadAddress |-> loadAddress, wordsLoaded |-> 0,
                              byteOffset |-> HeaderSize, sector |-> s,
                              sectorsRead |-> 0]
  /\ UNCHANGED <<disk, file, memory, PC, R, trap>>

\* Mutant: one sector more than the file has.
Loading_one_more ==
  /\ status = "loading"
  /\ load.wordsLoaded < load.wordCount /\ load.sectorsRead <= file.sectorCount

Loading ==
  /\ status = "loading"
  /\ load.wordsLoaded < load.wordCount /\ load.sectorsRead < file.sectorCount

\* A word of the sector, high byte first in memory.
LoadWord ==
  /\ Loading
  /\ load.byteOffset + 1 < SectorSize
  /\ LET word == read_le16(load.sector, load.byteOffset)
         a == load.loadAddress + 2 * load.wordsLoaded
     IN memory' = IF a + 1 < VMSize
                  THEN [memory EXCEPT ![a] = word \div ByteSize, ![a + 1] = word % ByteSize]
                  ELSE memory
  /\ load' = [load EXCEPT !.wordsLoaded = @ + 1, !.byteOffset = @ + 2]
  /\ UNCHANGED <<status, disk, file, PC, R, trap>>

\* Mutant: every sector is taken to begin with a header.
LoadSector_offset ==
  /\ Loading
  /\ load.byteOffset + 1 >= SectorSize
  /\ IF readDisk(load.sector + 1)
     THEN /\ load' = [load EXCEPT !.sector = @ + 1, !.sectorsRead = @ + 1,
                                  !.byteOffset = HeaderSize]
          /\ UNCHANGED status
     ELSE Unloadable
  /\ UNCHANGED <<disk, file, memory, PC, R, trap>>

\* The sector is used up: the next one is read, and when it cannot be the image
\* is cut short.
LoadSector ==
  /\ Loading
  /\ load.byteOffset + 1 >= SectorSize
  /\ IF readDisk(load.sector + 1)
     THEN /\ load' = [load EXCEPT !.sector = @ + 1, !.sectorsRead = @ + 1,
                                  !.byteOffset = 0]
          /\ UNCHANGED status
     ELSE Unloadable
  /\ UNCHANGED <<disk, file, memory, PC, R, trap>>

LoadDone ==
  /\ status = "loading" /\ ~Loading
  /\ IF load.wordsLoaded # load.wordCount
     THEN /\ status' = "unloadable"
          /\ UNCHANGED <<PC, R, trap>>
     ELSE /\ status' = "loaded"
          /\ PC' = load.loadAddress + 2 * load.entryOffset
          /\ R' = [i \in 0 .. 7 |-> 0]
          /\ trap' = NoTrap
  /\ UNCHANGED <<disk, file, load, memory>>

-----------------------------------------------------------------------------
\* runOperations

\* It starts over from PC, and clears the trap, each time the governor runs.
Enter ==
  /\ status \in {"loaded", "ready"}
  /\ status' = "running"
  /\ trap' = NoTrap
  /\ UNCHANGED <<loadVars, memory, PC, R>>

InMemory == PC + 1 < VMSize

\* executeInstruction: mode is decoded as well, and nobody looks at it.
Raw == ByteSize * memory[PC] + memory[PC + 1]
opcode == Raw \div 4096
regA == (Raw \div 512) % 8
regB == (Raw \div 64) % 8
operand == Raw % 128

HALT == 0
LOAD == 1
ADD == 3
SUB == 4
READ == 11
WRITE == 12
SYS == 14

\* Mutant: a trap leaves PC on its instruction, to be executed again.
Fetched_retry(ops) ==
  /\ status = "running" /\ InMemory /\ opcode \in ops
  /\ PC' = IF opcode \in {READ, WRITE, SYS} THEN PC ELSE PC + 2
  /\ UNCHANGED <<loadVars, memory>>

\* An instruction is fetched, and PC is past it whatever becomes of it.
Fetched(ops) ==
  /\ status = "running" /\ InMemory /\ opcode \in ops
  /\ PC' = PC + 2
  /\ UNCHANGED <<loadVars, memory>>

\* The registers have 16 bits.
Compute ==
  /\ Fetched({LOAD, ADD, SUB})
  /\ R' = [R EXCEPT ![regA] = CASE opcode = LOAD -> operand
                                [] opcode = ADD -> (@ + R[regB]) % WordSize
                                [] opcode = SUB -> (@ - R[regB]) % WordSize]
  /\ UNCHANGED <<status, trap>>

\* The buffer of a transfer, R[2] words at R[1], is inside the memory; the sum
\* has 32 bits.
\* Mutant: the sum is computed in 16 bits.
BufferFits_16bit == (R[1] + 2 * R[2]) % WordSize <= VMSize

BufferFits == R[1] + 2 * R[2] <= VMSize

Trap ==
  /\ Fetched({READ, WRITE, SYS})
  /\ opcode # SYS => BufferFits
  /\ status' = "trapped"
  /\ trap' = [code |-> CASE opcode = READ -> "READ"
                         [] opcode = WRITE -> "WRITE"
                         [] opcode = SYS -> "SYS",
              r0 |-> R[0], r1 |-> R[1], r2 |-> R[2]]
  /\ UNCHANGED R

Halt ==
  /\ Fetched({HALT})
  /\ status' = "halted"
  /\ UNCHANGED <<R, trap>>

\* An opcode that is invalid or not implemented, or a buffer out of bounds.
Fault ==
  /\ Fetched(0 .. 15 \ {HALT, LOAD, ADD, SUB, SYS})
  /\ opcode \in {READ, WRITE} => ~BufferFits
  /\ status' = "failed"
  /\ UNCHANGED <<R, trap>>

RunAway ==
  /\ status = "running" /\ ~InMemory
  /\ status' = "failed"
  /\ UNCHANGED <<loadVars, memory, PC, R, trap>>

-----------------------------------------------------------------------------
\* completeIO

\* A sector at most, and what fits in the memory.
TransferBytes ==
  LET asked == IF 2 * trap.r2 > SectorSize THEN SectorSize ELSE 2 * trap.r2
  IN IF trap.r1 + asked > VMSize THEN VMSize - trap.r1 ELSE asked

CompleteRead ==
  /\ status = "trapped" /\ trap.code = "READ"
  /\ memory' = IF readDisk(trap.r0)
               THEN [a \in Address |->
                       IF a \in trap.r1 .. trap.r1 + TransferBytes - 1
                       THEN disk[trap.r0][a - trap.r1] ELSE memory[a]]
               ELSE memory
  /\ status' = "ready"
  /\ UNCHANGED <<loadVars, PC, R, trap>>

\* The rest of the sector is cleared.
CompleteWrite ==
  /\ status = "trapped" /\ trap.code = "WRITE"
  /\ disk' = IF readDisk(trap.r0)
             THEN [disk EXCEPT ![trap.r0] =
                     [i \in 0 .. SectorSize - 1 |->
                        IF i < TransferBytes THEN memory[trap.r1 + i] ELSE 0]]
             ELSE disk
  /\ status' = "ready"
  /\ UNCHANGED <<file, load, memory, PC, R, trap>>

\* Nothing is transferred for SYS, and nothing for a machine that was denied
\* the I/O unit and is resumed all the same (module Kernel).
ResumeUnserved ==
  /\ status = "trapped"
  /\ status' = "ready"
  /\ UNCHANGED <<loadVars, memory, PC, R, trap>>

-----------------------------------------------------------------------------
Ended == status \in {"unloadable", "halted", "failed"} /\ UNCHANGED vmVars

Next ==
  \/ LoadHeader \/ LoadWord \/ LoadSector \/ LoadDone
  \/ Enter \/ Compute \/ Trap \/ Halt \/ Fault \/ RunAway
  \/ CompleteRead \/ CompleteWrite \/ ResumeUnserved
  \/ Ended

Spec == Init /\ [][Next]_vmVars

-----------------------------------------------------------------------------
LoadLocals ==
  [wordCount : Word, entryOffset : Word, loadAddress : Word, wordsLoaded : Word,
   byteOffset : 0 .. SectorSize, sector : Sector, sectorsRead : Word]

TrapRecord == [code : {"NONE", "READ", "WRITE", "SYS"}, r0 : Word, r1 : Word, r2 : Word]

TypeOK ==
  /\ status \in {"created", "loading", "loaded", "unloadable", "ready", "running",
                 "trapped", "halted", "failed"}
  /\ disk \in [Sector -> SectorImage] /\ file \in Files
  /\ load \in LoadLocals
  /\ memory \in [Address -> Byte] /\ PC \in 0 .. VMSize
  /\ R \in [0 .. 7 -> Word]
  /\ trap \in TrapRecord

\* The image of a file on the disk: its bytes one sector after another, and what
\* makes it valid (loader.h:14-33).
FileByte(k) == disk[file.startSector + k \div SectorSize][k % SectorSize]
FileWord(k) == FileByte(k) + ByteSize * FileByte(k + 1)

SectorsNeeded(bytes) == (bytes + SectorSize - 1) \div SectorSize

ValidImage ==
  /\ file.known /\ file.startSector < NSectors
  /\ LET wordCount == FileWord(0)
         sectors == SectorsNeeded(HeaderSize + 2 * wordCount)
     IN /\ wordCount > 0 /\ FileWord(2) < wordCount
        /\ FileWord(4) + 2 * wordCount <= VMSize
        /\ sectors <= file.sectorCount
        /\ file.startSector + sectors <= NSectors

\* The loader's loop accepts exactly the images that are valid, over any number
\* of sectors (loader.c:107-148).
LoadDecides ==
  /\ status = "loaded" => ValidImage
  /\ status = "unloadable" => ~ValidImage

\* A loaded program is the file's words, from the load address on and nowhere
\* else, and it starts at its entry (loader.c:118-155).
LoadedImage ==
  status = "loaded" =>
    LET base == FileWord(4)
        Words == 0 .. FileWord(0) - 1
    IN /\ \A i \in Words :
            ByteSize * memory[base + 2 * i] + memory[base + 2 * i + 1]
              = FileWord(HeaderSize + 2 * i)
       /\ \A a \in Address \ (base .. base + 2 * FileWord(0) - 1) : memory[a] = 0
       /\ PC = base + 2 * FileWord(2)

\* Whatever the registers held, the buffer of a transfer that is under way lies
\* in the memory: the length that completeIO computes is never negative and
\* neither of its copies leaves the memory (vm_cpu.c:121-132, ioHandler.c:28-43).
TransferInBounds ==
  status = "trapped" /\ trap.code \in {"READ", "WRITE"} =>
    /\ TransferBytes >= 0
    /\ trap.r1 + TransferBytes <= VMSize
=============================================================================
