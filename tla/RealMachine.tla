---------------------------- MODULE RealMachine ----------------------------
(***************************************************************************)
(* What the kernel's C code does to the real machine before it enters      *)
(* execCycle: transfers of the channel device (src/rm/channel_device.c)    *)
(* through the facade of src/rm/io.c, and loadProgramImage of              *)
(* src/kernel/loader.c, which puts a program from the disk into the        *)
(* memory.  Then module RealCPU goes on with the memory, the registers and *)
(* the latches as these calls left them.                                   *)
(*                                                                         *)
(* The channel checks no address.  The calls here stay inside the memory;  *)
(* beyond it the behaviour of the C code is undefined.                     *)
(***************************************************************************)
EXTENDS RealCPU

CONSTANTS
  NSectors,         \* DISK_SECTOR_COUNT, 128 in the source
  WordsPerSector,   \* 8
  Storages,         \* what the disk may hold
  Fresh,            \* bound: only on these images calls are made, the others are run
  MaxCalls,         \* bound: calls before execCycle is entered
  Typed,            \* the words that may be typed at the console
  Transfers,        \* [ST, DT, SB, DB, COUNT] that callers ask of the channel
  Places            \* where callers load to

HeaderWords == 3
Sector == 0 .. NSectors - 1

\* VM_MEMORY_SIZE, which bounds bytes in module VirtualMachine.
LoadLimit == UserSize - 1

ASSUME DiskAssumption ==
  /\ NSectors \in Nat \ {0} /\ WordsPerSector \in Nat /\ WordsPerSector > HeaderWords
  /\ Storages \subseteq [Sector -> [0 .. WordsPerSector - 1 -> Word]]
ASSUME CallsAssumption == Typed \subseteq Word /\ Places \subseteq Address /\ MaxCalls \in Nat
ASSUME TransfersAssumption ==
  \A t \in Transfers :
    /\ t.SB \in Nat /\ t.DB \in Nat /\ t.COUNT \in Nat
    /\ t.DB + t.COUNT <= MemorySize /\ t.SB + t.COUNT <= MemorySize

VARIABLES
  phase,     \* "setup", "loading" an image, "entered" execCycle
  storage,   \* the disk, as little-endian words
  image,     \* the locals of loadProgramImage, and the memory it found
  loaded,    \* whether the last loadProgramImage succeeded
  calls      \* that are left

setupVars == <<phase, storage, image, loaded, calls>>
machineVars == <<cpuVars, setupVars>>

NoImage == [start |-> 0, wordCount |-> 0, entryOffset |-> 0, loadAddress |-> 0,
            sector |-> 0, index |-> 0, wordsLoaded |-> 0, before |-> cells]

EmptyDisk == [s \in Sector |-> [i \in 0 .. WordsPerSector - 1 |-> 0]]

InitMachine ==
  /\ Reset /\ running = FALSE
  /\ phase = "setup" /\ image = NoImage /\ loaded = FALSE
  /\ IF cells \in Fresh
     THEN storage \in Storages /\ calls = MaxCalls
     ELSE storage = EmptyDisk /\ calls = 0

-----------------------------------------------------------------------------
\* channelXCHG

readDisk(sector) == sector < NSectors

diskReadWord(sector) == IF readDisk(sector) THEN storage[sector][0] ELSE 0

\* One word after the other is moved, upwards: where the destination begins
\* within the source, words that were moved already are moved on.
Copied(t) ==
  LET shift == t.DB - t.SB
      Source(i) == IF shift > 0 THEN t.SB + (i % shift) ELSE t.SB + i
  IN [a \in Address |->
        IF a \in t.DB .. t.DB + t.COUNT - 1 THEN cells[Source(a - t.DB)] ELSE cells[a]]

FromDisk(t) ==
  [a \in Address |->
     IF a \in t.DB .. t.DB + t.COUNT - 1 THEN diskReadWord(t.SB + a - t.DB) ELSE cells[a]]

Between(t, source, destination) == t.ST = source /\ t.DT = destination

\* Only these combinations move anything; the others, the transfer to the disk
\* among them, succeed and do nothing.
Moved(t) ==
  CASE Between(t, "USER_MEM", "SUPER_MEM") \/ Between(t, "SUPER_MEM", "USER_MEM") -> Copied(t)
    [] Between(t, "DISK", "SUPER_MEM") -> FromDisk(t)
    [] OTHER -> cells

Latched(t) ==
  CASE Between(t, "USER_MEM", "IO") -> "WRITE"
    [] Between(t, "DISK", "SUPER_MEM") \/ Between(t, "IO", "CPU_REG") -> "READ"
    [] OTHER -> SI

\* A register is a source by its name, but not one that is known.
KnownSource(t) == t.ST \in {"USER_MEM", "SUPER_MEM", "DISK", "IO"}

Called ==
  /\ phase = "setup" /\ calls > 0
  /\ calls' = calls - 1
  /\ UNCHANGED <<SF, MODE, TI, ticks, running, storage>>

channelXCHG(t) ==
  /\ Called
  /\ cells' = Moved(t)
  /\ SI' = Latched(t)
  /\ PI' = IF KnownSource(t) THEN PI ELSE "INVALID_ADDRESS"
  /\ IF Between(t, "IO", "CPU_REG")
     THEN \E word \in Typed \cup {R[0]} : R' = [R EXCEPT ![0] = word]
     ELSE UNCHANGED R
  /\ UNCHANGED <<IC, phase, image, loaded>>

\* The facade.  A write is reported as done, though the channel moves nothing.
IOread(sector, destAddr, count) ==
  channelXCHG([ST |-> "DISK", SB |-> sector, DT |-> "SUPER_MEM", DB |-> destAddr,
               COUNT |-> count])

IOwrite ==
  /\ Called
  /\ SI' = "WRITE"
  /\ UNCHANGED <<IC, R, PI, cells, phase, image, loaded>>

IOcheckInterrupts ==
  /\ Called
  /\ SI' = "NONE"
  /\ UNCHANGED <<IC, R, PI, cells, phase, image, loaded>>

-----------------------------------------------------------------------------
\* loadProgramImage

\* As for a virtual machine, whose words take two bytes each.
address_fits(address, words) == address + 2 * words <= LoadLimit

Header(start, i) == storage[start][i]

Acceptable(start, loadAddress) ==
  /\ address_fits(loadAddress, 1) /\ readDisk(start)
  /\ Header(start, 0) # 0
  /\ address_fits(loadAddress, Header(start, 0))
  /\ Header(start, 1) < Header(start, 0)

\* The load address of the header is ignored in favour of the caller's.
loadProgramImage(start, loadAddress) ==
  /\ Called
  /\ IF Acceptable(start, loadAddress)
     THEN /\ phase' = "loading" /\ UNCHANGED loaded
          /\ image' = [start |-> start, wordCount |-> Header(start, 0),
                       entryOffset |-> Header(start, 1), loadAddress |-> loadAddress,
                       sector |-> start, index |-> HeaderWords, wordsLoaded |-> 0,
                       before |-> cells]
     ELSE /\ loaded' = FALSE /\ UNCHANGED <<phase, image>>
  /\ UNCHANGED <<IC, R, PI, SI, cells>>

MoreWords == phase = "loading" /\ image.wordsLoaded < image.wordCount

LoadImageWord ==
  /\ MoreWords /\ image.index < WordsPerSector
  /\ cells' = [cells EXCEPT ![image.loadAddress + image.wordsLoaded] =
                              storage[image.sector][image.index]]
  /\ image' = [image EXCEPT !.wordsLoaded = @ + 1, !.index = @ + 1]
  /\ UNCHANGED <<IC, R, SF, MODE, latches, ticks, running, phase, storage, loaded, calls>>

\* Mutant: every sector is taken to begin with a header.
LoadImageSector_offset ==
  /\ MoreWords /\ image.index = WordsPerSector
  /\ image' = [image EXCEPT !.sector = @ + 1, !.index = HeaderWords]
  /\ IF readDisk(image.sector + 1)
     THEN UNCHANGED <<phase, loaded>>
     ELSE phase' = "setup" /\ loaded' = FALSE
  /\ UNCHANGED <<cpuVars, storage, calls>>

\* What was loaded of an image that is cut short stays in the memory.
LoadImageSector ==
  /\ MoreWords /\ image.index = WordsPerSector
  /\ image' = [image EXCEPT !.sector = @ + 1, !.index = 0]
  /\ IF readDisk(image.sector + 1)
     THEN UNCHANGED <<phase, loaded>>
     ELSE phase' = "setup" /\ loaded' = FALSE
  /\ UNCHANGED <<cpuVars, storage, calls>>

LoadImageDone ==
  /\ phase = "loading" /\ ~MoreWords
  /\ IC' = image.loadAddress + image.entryOffset
  /\ phase' = "setup" /\ loaded' = TRUE
  /\ UNCHANGED <<R, SF, MODE, latches, cells, ticks, running, storage, image, calls>>

-----------------------------------------------------------------------------
Enter ==
  /\ phase = "setup" /\ phase' = "entered"
  /\ running' = TRUE
  /\ UNCHANGED <<IC, R, SF, MODE, latches, cells, ticks, storage, image, loaded, calls>>

Execute == phase = "entered" /\ Next /\ UNCHANGED setupVars

NextMachine ==
  \/ \E t \in Transfers : channelXCHG(t)
  \/ \E s \in 0 .. NSectors, a \in Places, n \in 0 .. 2 : IOread(s, a, n)
  \/ IOwrite \/ IOcheckInterrupts
  \/ \E s \in 0 .. NSectors, a \in Places : loadProgramImage(s, a)
  \/ LoadImageWord \/ LoadImageSector \/ LoadImageDone
  \/ Enter \/ Execute

SpecMachine == InitMachine /\ [][NextMachine]_machineVars

\* The caller enters execCycle at last, which waits for nothing.
FairSpecMachine == SpecMachine /\ WF_machineVars(NextMachine)

-----------------------------------------------------------------------------
ImageWord(i) ==
  storage[image.start + (HeaderWords + i) \div WordsPerSector][(HeaderWords + i) % WordsPerSector]

ImageOnDisk ==
  LET last == HeaderWords + image.wordCount - 1
  IN image.start + last \div WordsPerSector < NSectors

\* The types.  While calls are made nothing runs, and a fault of one call may be
\* latched beside the transfer of another.
MachineTypeOK ==
  /\ IC \in 0 .. MemorySize
  /\ R \in [0 .. 7 -> Word]
  /\ SF \subseteq {"ZERO", "NEGATIVE", "OVERFLOW", "CARRY"}
  /\ MODE \in Modes
  /\ PI \in {"NONE", "INVALID_OPCODE", "INVALID_ADDRESS", "DIVZERO", "OVERFLOW"}
  /\ SI \in {"NONE", "READ", "WRITE", "HALT", "SYS"}
  /\ TI \in {"NONE", "EXPIRED"}
  /\ cells \in [Address -> Word]
  /\ ticks \in 0 .. TickLimit - 1
  /\ running \in BOOLEAN /\ (running => phase = "entered")
  /\ phase \in {"setup", "loading", "entered"}
  /\ storage \in [Sector -> [0 .. WordsPerSector - 1 -> Word]]
  /\ image \in [start : Sector, wordCount : Word, entryOffset : Word,
                loadAddress : Address, sector : 0 .. NSectors, index : 0 .. WordsPerSector,
                wordsLoaded : Word, before : [Address -> Word]]
  /\ loaded \in BOOLEAN /\ calls \in 0 .. MaxCalls

\* Where the loop of loadProgramImage is: the words it has passed, the header among
\* them, end at index of its sector, and those it has loaded are the only change.
LoadSound ==
  phase = "loading" =>
    LET here == image.loadAddress
        n == image.wordsLoaded
    IN /\ n <= image.wordCount /\ address_fits(here, image.wordCount)
       /\ image.entryOffset < image.wordCount
       /\ image.start <= image.sector /\ readDisk(image.sector)
       /\ WordsPerSector * (image.sector - image.start) + image.index = HeaderWords + n
       /\ \A i \in 0 .. n - 1 : cells[here + i] = ImageWord(i)
       /\ \A a \in Address \ (here .. here + n - 1) : cells[a] = image.before[a]

\* The inductive invariant.
MachineInv == MachineTypeOK /\ LoadSound

\* A load succeeds exactly when the whole image is on the disk; then its words,
\* across every boundary of a sector, are at the load address and nothing else was
\* touched, and IC is at the entry.  A load that fails half-way has touched nothing
\* beyond the place of the image and leaves IC alone (loader.c:170-239).
LoadsWholeImage ==
  [][ phase = "loading" /\ phase' = "setup" =>
        LET place == image.loadAddress .. image.loadAddress + image.wordCount - 1 IN
        /\ loaded' <=> ImageOnDisk
        /\ \A a \in Address \ place : cells'[a] = image.before[a]
        /\ IF loaded'
           THEN /\ \A a \in place : cells'[a] = ImageWord(a - image.loadAddress)
                /\ IC' = image.loadAddress + image.entryOffset
           ELSE IC' = IC ]_machineVars
=============================================================================
