----------------------- MODULE VirtualMachineProofs -----------------------
(***************************************************************************)
(* Modules VirtualMachine and Swapping, for every size of memory, sector   *)
(* and disk, every content of the disk and every program.  The transfers   *)
(* of a virtual machine stay inside its memory.  Whatever the slot, and    *)
(* whatever others write to the disk meanwhile, a machine that was swapped *)
(* out comes back with every byte it had, but for those in sectors that    *)
(* were written, and is never run without its memory.  The loader accepts  *)
(* exactly the valid images and copies them exactly.                       *)
(***************************************************************************)
EXTENDS Swapping, TLAPS

\* Why the entry is inside the memory: the header was validated before the
\* first word was copied (loader.c:107-116).
HeaderChecked ==
  status = "loading" =>
    /\ load.loadAddress + 2 * load.wordCount <= VMSize
    /\ load.entryOffset < load.wordCount

\* Why the transfer fits: the interpreter checked the buffer with 32 bits before
\* it trapped, and kept the registers it checked (vm_cpu.c:121-139).
TransferChecked ==
  status = "trapped" /\ trap.code \in {"READ", "WRITE"} =>
    trap.r1 + 2 * trap.r2 <= VMSize

VMInv == TypeOK /\ HeaderChecked /\ TransferChecked

-----------------------------------------------------------------------------
\* Arithmetic with two digits, for any base.
LEMMA TwoDigits ==
  ASSUME NEW base \in Nat, base > 0, NEW high \in 0 .. base - 1, NEW low \in 0 .. base - 1
  PROVE  base * high + low \in 0 .. base * base - 1
  OBVIOUS

LEMMA Digits ==
  ASSUME NEW base \in Nat, base > 0, NEW n \in 0 .. base * base - 1
  PROVE  n \div base \in 0 .. base - 1 /\ n % base \in 0 .. base - 1
  OBVIOUS

\* What the proofs need to know of the sizes of a byte and of a word.
LEMMA Sizes ==
  /\ ByteSize \in Nat /\ ByteSize > 0
  /\ WordSize \in Nat /\ WordSize > 128
  BY DEF ByteSize, WordSize

LEMMA SmallNumbers ==
  /\ Word \subseteq Nat /\ 0 \in Word /\ 0 .. 127 \subseteq Word
  /\ 0 \in Byte
  BY Sizes DEF Byte, Word

LEMMA TwoBytes ==
  ASSUME NEW high \in Byte, NEW low \in Byte
  PROVE  ByteSize * high + low \in Word
  BY Sizes, TwoDigits DEF Byte, Word, WordSize

LEMMA BytesOfWord ==
  ASSUME NEW word \in Word
  PROVE  word \div ByteSize \in Byte /\ word % ByteSize \in Byte
  BY Sizes, Digits DEF Byte, Word, WordSize

LEMMA ReducedIsWord ==
  ASSUME NEW n \in Int
  PROVE  n % WordSize \in Word
  BY Sizes DEF Word

-----------------------------------------------------------------------------
\* A word read from a sector has 16 bits, and so has an instruction.
LEMMA ReadWord ==
  ASSUME disk \in [Sector -> SectorImage], NEW s \in Sector,
         NEW i \in 0 .. SectorSize - 2
  PROVE  read_le16(s, i) \in Word
<1>1. disk[s] \in [0 .. SectorSize - 1 -> Byte]
  BY DEF SectorImage
<1>2. i \in 0 .. SectorSize - 1 /\ i + 1 \in 0 .. SectorSize - 1
  BY SizesAssumption
<1>3. disk[s][i] \in Byte /\ disk[s][i + 1] \in Byte
  BY <1>1, <1>2
<1>4. disk[s][i] \in Int /\ disk[s][i + 1] \in Int
  BY <1>3, Sizes DEF Byte
<1>5. ByteSize * disk[s][i + 1] + disk[s][i] \in Word
  BY <1>3, TwoBytes
<1> QED
  BY <1>4, <1>5, Sizes DEF read_le16

LEMMA Instruction ==
  ASSUME memory \in [Address -> Byte], PC \in 0 .. VMSize, InMemory
  PROVE  /\ Raw \in Word
         /\ opcode \in Int
         /\ regA \in 0 .. 7 /\ regB \in 0 .. 7
         /\ operand \in 0 .. 127
<1>1. PC \in Address /\ PC + 1 \in Address
  BY SizesAssumption DEF InMemory, Address
<1>2. memory[PC] \in Byte /\ memory[PC + 1] \in Byte
  BY <1>1
<1>3. Raw \in Word
  BY <1>2, TwoBytes DEF Raw
<1>4. Raw \in Nat
  BY <1>3, SmallNumbers
<1>5. regA \in 0 .. 7 /\ regB \in 0 .. 7
  BY <1>4 DEF regA, regB
<1>6. operand \in 0 .. 127
  BY <1>4 DEF operand
<1>7. opcode \in Int
  BY <1>4 DEF opcode
<1> QED
  BY <1>3, <1>5, <1>6, <1>7

\* A transfer moves at most a sector and never leaves the memory.
LEMMA TransferFits ==
  ASSUME trap.r1 \in Word, trap.r2 \in Word, trap.r1 + 2 * trap.r2 <= VMSize
  PROVE  /\ TransferBytes \in 0 .. SectorSize
         /\ trap.r1 + TransferBytes <= VMSize
<1>1. trap.r1 \in Nat /\ trap.r2 \in Nat
  BY SmallNumbers
<1>2. SectorSize \in Nat /\ VMSize \in Nat
  BY SizesAssumption
<1> QED
  BY <1>1, <1>2 DEF TransferBytes

-----------------------------------------------------------------------------
\* The types of the loader's locals and of a trap, spelt out.
LEMMA LoadFields ==
  ASSUME load \in LoadLocals
  PROVE  /\ load.wordCount \in Nat /\ load.entryOffset \in Nat
         /\ load.loadAddress \in Nat /\ load.wordsLoaded \in Nat
         /\ load.byteOffset \in 0 .. SectorSize /\ load.sector \in Sector
         /\ load.sectorsRead \in Nat
  BY SmallNumbers DEF LoadLocals

LEMMA NoTrapTyped == NoTrap \in TrapRecord
  BY SmallNumbers DEF NoTrap, TrapRecord

LEMMA InitVMInv == Init => VMInv
<1> SUFFICES ASSUME Init PROVE VMInv
  OBVIOUS
<1>1. disk \in [Sector -> SectorImage] /\ file \in Files
  BY DisksAssumption DEF Init
<1>2. load \in LoadLocals
  BY SmallNumbers, SizesAssumption DEF Init, LoadLocals, Sector
<1>3. memory \in [Address -> Byte] /\ PC \in 0 .. VMSize
  BY SmallNumbers, SizesAssumption DEF Init
<1>4. R \in [0 .. 7 -> Word] /\ trap \in TrapRecord
  BY SmallNumbers, NoTrapTyped DEF Init
<1>5. status = "created"
  BY DEF Init
<1> QED
  BY <1>1, <1>2, <1>3, <1>4, <1>5
  DEF VMInv, TypeOK, HeaderChecked, TransferChecked

LEMMA LoadHeaderStep ==
  ASSUME VMInv, LoadHeader
  PROVE  VMInv'
<1> DEFINE s == file.startSector
           wordCount == read_le16(s, 0)
           entryOffset == read_le16(s, 2)
           loadAddress == read_le16(s, 4)
           checked ==
             /\ readDisk(s)
             /\ address_fits(loadAddress, wordCount) /\ entryOffset < wordCount
             /\ status' = "loading"
             /\ load' = [wordCount |-> wordCount, entryOffset |-> entryOffset,
                         loadAddress |-> loadAddress, wordsLoaded |-> 0,
                         byteOffset |-> HeaderSize, sector |-> s, sectorsRead |-> 0]
<1>1. UNCHANGED <<disk, file, memory, PC, R, trap>>
  BY DEF LoadHeader
<1>2. disk \in [Sector -> SectorImage] /\ file \in Files
  BY DEF VMInv, TypeOK
<1>3. s \in Nat
  BY <1>2, FilesAssumption, SmallNumbers
<1>4. ASSUME readDisk(s)
      PROVE  /\ s \in Sector
             /\ wordCount \in Word /\ entryOffset \in Word /\ loadAddress \in Word
  <2>1. s \in Sector
    BY <1>3, <1>4, SizesAssumption, Sizes DEF readDisk, Sector
  <2>2. 0 \in 0 .. SectorSize - 2 /\ 2 \in 0 .. SectorSize - 2 /\ 4 \in 0 .. SectorSize - 2
    BY SizesAssumption DEF HeaderSize
  <2> QED
    BY <1>2, <2>1, <2>2, ReadWord
<1>5. ASSUME readDisk(s), ~(entryOffset >= wordCount)
      PROVE  entryOffset < wordCount
  <2>1. entryOffset \in Nat /\ wordCount \in Nat
    BY <1>4, <1>5, SmallNumbers
  <2> HIDE DEF wordCount, entryOffset
  <2> QED
    BY <1>5, <2>1
<1>6. Unloadable \/ checked
  <2> HIDE DEF wordCount, entryOffset, loadAddress
  <2> QED
    BY <1>5 DEF LoadHeader, wordCount, entryOffset, loadAddress
<1>7. CASE Unloadable
  BY <1>1, <1>7 DEF VMInv, TypeOK, HeaderChecked, TransferChecked, Unloadable
<1>8. CASE checked
  <2>1. load' \in LoadLocals
    <3>1. HeaderSize \in 0 .. SectorSize
      BY SizesAssumption DEF HeaderSize
    <3> HIDE DEF s, wordCount, entryOffset, loadAddress
    <3> QED
      BY <1>4, <1>8, <3>1, SmallNumbers DEF LoadLocals
  <2>2. TypeOK'
    BY <1>1, <1>8, <2>1 DEF VMInv, TypeOK
  <2>3. HeaderChecked'
    <3> HIDE DEF s, wordCount, entryOffset, loadAddress
    <3> QED
      BY <1>8 DEF HeaderChecked, address_fits
  <2> QED
    BY <1>8, <2>2, <2>3 DEF VMInv, TransferChecked
<1> QED
  BY <1>6, <1>7, <1>8

\* What the loop of the loader keeps when it goes on.
LEMMA LoadingStep ==
  ASSUME VMInv, Loading, status' \in {"loading", "unloadable"},
         load' \in LoadLocals, memory' \in [Address -> Byte],
         load'.wordCount = load.wordCount, load'.entryOffset = load.entryOffset,
         load'.loadAddress = load.loadAddress,
         UNCHANGED <<disk, file, PC, R, trap>>
  PROVE  VMInv'
<1>1. TypeOK'
  BY DEF VMInv, TypeOK
<1>2. HeaderChecked' /\ TransferChecked'
  BY DEF VMInv, HeaderChecked, TransferChecked, Loading
<1> QED
  BY <1>1, <1>2 DEF VMInv

LEMMA LoadWordStep ==
  ASSUME VMInv, LoadWord
  PROVE  VMInv'
<1> DEFINE word == read_le16(load.sector, load.byteOffset)
           a == load.loadAddress + 2 * load.wordsLoaded
<1>1. /\ disk \in [Sector -> SectorImage] /\ load \in LoadLocals
      /\ memory \in [Address -> Byte]
  BY DEF VMInv, TypeOK
<1>2. Loading /\ load.byteOffset + 1 < SectorSize
  BY DEF LoadWord
<1>3. load.sector \in Sector /\ load.byteOffset \in 0 .. SectorSize - 2
  BY <1>1, <1>2, LoadFields, SizesAssumption
<1>4. word \div ByteSize \in Byte /\ word % ByteSize \in Byte
  BY <1>1, <1>3, ReadWord, BytesOfWord
<1>5. memory' \in [Address -> Byte]
  <2> HIDE DEF word, a
  <2>1. memory' = IF a + 1 < VMSize
                  THEN [memory EXCEPT ![a] = word \div ByteSize, ![a + 1] = word % ByteSize]
                  ELSE memory
    BY DEF LoadWord, word, a
  <2> QED
    BY <1>1, <1>4, <2>1
<1>6. load.wordsLoaded + 1 \in Word
  <2>1. load.wordCount \in Word /\ load.wordsLoaded \in Word
    BY <1>1 DEF LoadLocals
  <2> QED
    BY <1>2, <2>1, Sizes DEF Loading, Word
<1>7. load.byteOffset + 2 \in 0 .. SectorSize
  BY <1>3, SizesAssumption
<1>8. load' = [load EXCEPT !.wordsLoaded = load.wordsLoaded + 1,
                           !.byteOffset = load.byteOffset + 2]
  BY DEF LoadWord
<1>9. /\ load' \in LoadLocals
      /\ load'.wordCount = load.wordCount /\ load'.entryOffset = load.entryOffset
      /\ load'.loadAddress = load.loadAddress
  BY <1>1, <1>6, <1>7, <1>8 DEF LoadLocals
<1> QED
  BY <1>2, <1>5, <1>9, LoadingStep DEF LoadWord, Loading

LEMMA LoadSectorStep ==
  ASSUME VMInv, LoadSector
  PROVE  VMInv'
<1>1. load \in LoadLocals /\ file \in Files /\ memory \in [Address -> Byte]
  BY DEF VMInv, TypeOK
<1>2. Loading /\ UNCHANGED <<disk, file, memory, PC, R, trap>>
  BY DEF LoadSector
<1>3. CASE readDisk(load.sector + 1)
  <2>1. load.sector + 1 \in Sector
    BY <1>1, <1>3, LoadFields, SizesAssumption, Sizes DEF readDisk, Sector
  <2>2. load.sectorsRead + 1 \in Word
    <3>1. load.sectorsRead \in Word /\ file.sectorCount \in Word
      BY <1>1, FilesAssumption DEF LoadLocals
    <3> QED
      BY <1>2, <3>1, Sizes DEF Loading, Word
  <2>3. /\ status' = "loading"
        /\ load' = [load EXCEPT !.sector = load.sector + 1,
                                !.sectorsRead = load.sectorsRead + 1, !.byteOffset = 0]
    BY <1>3 DEF LoadSector, Loading
  <2>4. 0 \in 0 .. SectorSize
    BY SizesAssumption
  <2>5. /\ load' \in LoadLocals
        /\ load'.wordCount = load.wordCount /\ load'.entryOffset = load.entryOffset
        /\ load'.loadAddress = load.loadAddress
    BY <1>1, <2>1, <2>2, <2>3, <2>4 DEF LoadLocals
  <2> QED
    BY <1>1, <1>2, <2>3, <2>5, LoadingStep
<1>4. CASE ~readDisk(load.sector + 1)
  <2>1. status' = "unloadable" /\ load' = load
    BY <1>4 DEF LoadSector, Unloadable
  <2> QED
    BY <1>1, <1>2, <2>1, LoadingStep
<1> QED
  BY <1>3, <1>4

LEMMA LoadDoneStep ==
  ASSUME VMInv, LoadDone
  PROVE  VMInv'
<1>1. /\ load \in LoadLocals /\ PC \in 0 .. VMSize
      /\ R \in [0 .. 7 -> Word] /\ trap \in TrapRecord
      /\ status = "loading"
  BY DEF VMInv, TypeOK, LoadDone
<1>2. load.loadAddress + 2 * load.entryOffset \in 0 .. VMSize
  BY <1>1, LoadFields, SizesAssumption DEF VMInv, HeaderChecked
<1>3. PC' \in 0 .. VMSize
  BY <1>1, <1>2 DEF LoadDone
<1>4. R' \in [0 .. 7 -> Word]
  BY <1>1, SmallNumbers DEF LoadDone
<1>5. trap' \in TrapRecord
  BY <1>1, NoTrapTyped DEF LoadDone
<1>6. UNCHANGED <<disk, file, load, memory>> /\ status' \in {"unloadable", "loaded"}
  BY DEF LoadDone
<1> QED
  BY <1>3, <1>4, <1>5, <1>6 DEF VMInv, TypeOK, HeaderChecked, TransferChecked

-----------------------------------------------------------------------------
LEMMA EnterStep ==
  ASSUME VMInv, Enter
  PROVE  VMInv'
  BY NoTrapTyped DEF VMInv, TypeOK, HeaderChecked, TransferChecked, Enter, loadVars

\* What fetching an instruction leaves alone.
LEMMA FetchStep ==
  ASSUME VMInv, NEW ops, Fetched(ops)
  PROVE  /\ disk' \in [Sector -> SectorImage] /\ file' \in Files
         /\ load' \in LoadLocals
         /\ memory' \in [Address -> Byte]
         /\ PC' \in 0 .. VMSize
<1>1. UNCHANGED <<disk, file, load, memory>> /\ PC' = PC + 2
  BY DEF Fetched, loadVars
<1>2. PC' \in 0 .. VMSize
  BY <1>1, SizesAssumption DEF VMInv, TypeOK, Fetched, InMemory
<1> QED
  BY <1>1, <1>2 DEF VMInv, TypeOK

LEMMA ComputeStep ==
  ASSUME VMInv, Compute
  PROVE  VMInv'
<1>1. Fetched({LOAD, ADD, SUB})
  BY DEF Compute
<1>2. /\ memory \in [Address -> Byte] /\ PC \in 0 .. VMSize
      /\ R \in [0 .. 7 -> Word] /\ trap \in TrapRecord
  BY DEF VMInv, TypeOK
<1>3. /\ regA \in 0 .. 7 /\ regB \in 0 .. 7 /\ operand \in 0 .. 127
      /\ opcode \in {LOAD, ADD, SUB}
  BY <1>1, <1>2, Instruction DEF Fetched
<1>4. R[regA] \in Int /\ R[regB] \in Int
  <2>1. R[regA] \in Word /\ R[regB] \in Word
    BY <1>2, <1>3
  <2>2. \A w \in Word : w \in Int
    BY SmallNumbers
  <2> QED
    BY <2>1, <2>2, Zenon
<1>5. /\ (R[regA] + R[regB]) % WordSize \in Word
      /\ (R[regA] - R[regB]) % WordSize \in Word
      /\ operand \in Word
  BY <1>3, <1>4, ReducedIsWord, SmallNumbers
<1>6. PICK w \in Word : R' = [R EXCEPT ![regA] = w]
  <2>1. R' = [R EXCEPT ![regA] = CASE opcode = LOAD -> operand
                 [] opcode = ADD -> (R[regA] + R[regB]) % WordSize
                 [] opcode = SUB -> (R[regA] - R[regB]) % WordSize]
    BY DEF Compute
  <2>2. LOAD # ADD /\ LOAD # SUB /\ ADD # SUB
    BY DEF LOAD, ADD, SUB
  <2> QED
    BY <1>3, <1>5, <2>1, <2>2
<1>7. R' \in [0 .. 7 -> Word]
  BY <1>2, <1>6
<1>8. status' = "running" /\ trap' = trap
  BY <1>1 DEF Compute, Fetched
<1>9. TypeOK'
  BY <1>1, <1>2, <1>7, <1>8, FetchStep DEF TypeOK
<1> QED
  BY <1>8, <1>9 DEF VMInv, HeaderChecked, TransferChecked

LEMMA TrapStep ==
  ASSUME VMInv, Trap
  PROVE  VMInv'
<1>1. Fetched({READ, WRITE, SYS})
  BY DEF Trap
<1>2. opcode \in {READ, WRITE, SYS}
  BY <1>1 DEF Fetched
<1>3. R[0] \in Word /\ R[1] \in Word /\ R[2] \in Word /\ R \in [0 .. 7 -> Word]
  BY DEF VMInv, TypeOK
<1>4. PICK c \in {"READ", "WRITE", "SYS"} :
        /\ trap' = [code |-> c, r0 |-> R[0], r1 |-> R[1], r2 |-> R[2]]
        /\ c = "SYS" \/ opcode # SYS
  BY <1>2 DEF Trap, READ, WRITE, SYS
<1>5. trap' \in TrapRecord
  BY <1>3, <1>4 DEF TrapRecord
<1>6. TypeOK'
  BY <1>1, <1>3, <1>5, FetchStep DEF Trap, TypeOK
<1>7. TransferChecked'
  BY <1>4 DEF TransferChecked, Trap, BufferFits
<1> QED
  BY <1>6, <1>7 DEF VMInv, HeaderChecked, Trap

LEMMA StopStep ==
  ASSUME VMInv, Halt \/ Fault \/ RunAway
  PROVE  VMInv'
<1>1. /\ disk' \in [Sector -> SectorImage] /\ file' \in Files
      /\ load' \in LoadLocals
      /\ memory' \in [Address -> Byte]
      /\ PC' \in 0 .. VMSize
  BY FetchStep DEF Halt, Fault, RunAway, loadVars, VMInv, TypeOK
<1>2. status' \in {"halted", "failed"} /\ R' = R /\ trap' = trap
  BY DEF Halt, Fault, RunAway
<1> QED
  BY <1>1, <1>2 DEF VMInv, TypeOK, HeaderChecked, TransferChecked

-----------------------------------------------------------------------------
\* What is known of a transfer that is under way.
LEMMA TransferTypes ==
  ASSUME VMInv, status = "trapped", trap.code \in {"READ", "WRITE"}
  PROVE  /\ trap.r0 \in Nat /\ trap.r1 \in Nat
         /\ TransferBytes \in 0 .. SectorSize
         /\ trap.r1 + TransferBytes <= VMSize
<1>1. trap.r0 \in Word /\ trap.r1 \in Word /\ trap.r2 \in Word
  BY DEF VMInv, TypeOK, TrapRecord
<1>2. trap.r1 + 2 * trap.r2 <= VMSize
  BY DEF VMInv, TransferChecked
<1> QED
  BY <1>1, <1>2, TransferFits, SmallNumbers

LEMMA CompleteReadStep ==
  ASSUME VMInv, CompleteRead
  PROVE  VMInv'
<1>1. memory' \in [Address -> Byte]
  <2>1. CASE readDisk(trap.r0)
    <3>1. /\ trap.r0 \in Nat /\ trap.r1 \in Nat
          /\ TransferBytes \in 0 .. SectorSize
      BY TransferTypes DEF CompleteRead
    <3>2. disk[trap.r0] \in [0 .. SectorSize - 1 -> Byte] /\ memory \in [Address -> Byte]
      <4>1. trap.r0 \in Sector
        BY <2>1, <3>1, SizesAssumption, Sizes DEF readDisk, Sector
      <4> QED
        BY <4>1 DEF VMInv, TypeOK, SectorImage
    <3>3. trap.r1 + TransferBytes <= VMSize
      BY TransferTypes DEF CompleteRead
    <3>4. ASSUME NEW a \in Address, a \in trap.r1 .. trap.r1 + TransferBytes - 1
          PROVE  disk[trap.r0][a - trap.r1] \in Byte
      <4>1. a - trap.r1 \in 0 .. SectorSize - 1
        BY <3>1, <3>4, SizesAssumption DEF Address
      <4> QED
        BY <3>2, <4>1
    <3> QED
      BY <2>1, <3>2, <3>4 DEF CompleteRead
  <2>2. CASE ~readDisk(trap.r0)
    BY <2>2 DEF VMInv, TypeOK, CompleteRead
  <2> QED
    BY <2>1, <2>2
<1> QED
  BY <1>1 DEF VMInv, TypeOK, HeaderChecked, TransferChecked, CompleteRead, loadVars

LEMMA CompleteWriteStep ==
  ASSUME VMInv, CompleteWrite
  PROVE  VMInv'
<1> DEFINE image == [i \in 0 .. SectorSize - 1 |->
                       IF i < TransferBytes THEN memory[trap.r1 + i] ELSE 0]
<1>1. image \in SectorImage
  <2>1. /\ TransferBytes \in 0 .. SectorSize
        /\ trap.r1 + TransferBytes <= VMSize
    BY TransferTypes DEF CompleteWrite
  <2>2. trap.r1 \in Nat /\ memory \in [Address -> Byte]
    BY TransferTypes DEF CompleteWrite, VMInv, TypeOK
  <2>3. ASSUME NEW i \in 0 .. SectorSize - 1, i < TransferBytes
        PROVE  memory[trap.r1 + i] \in Byte
    <3>1. trap.r1 + i \in Address
      BY <2>1, <2>2, <2>3, SizesAssumption DEF Address
    <3> QED
      BY <2>2, <3>1
  <2> QED
    BY <2>3, SmallNumbers DEF SectorImage
<1>2. disk' \in [Sector -> SectorImage]
  <2> HIDE DEF image
  <2>1. disk' = IF readDisk(trap.r0) THEN [disk EXCEPT ![trap.r0] = image] ELSE disk
    BY DEF CompleteWrite, image
  <2> QED
    BY <1>1, <2>1 DEF VMInv, TypeOK
<1> QED
  BY <1>2 DEF VMInv, TypeOK, HeaderChecked, TransferChecked, CompleteWrite

LEMMA RestStep ==
  ASSUME VMInv, ResumeUnserved \/ Ended \/ UNCHANGED vmVars
  PROVE  VMInv'
  BY DEF VMInv, TypeOK, HeaderChecked, TransferChecked, ResumeUnserved, Ended,
         vmVars, loadVars

LEMMA VMNextStep == VMInv /\ [Next]_vmVars => VMInv'
  BY LoadHeaderStep, LoadWordStep, LoadSectorStep, LoadDoneStep, EnterStep,
     ComputeStep, TrapStep, StopStep, CompleteReadStep, CompleteWriteStep, RestStep
  DEF Next

-----------------------------------------------------------------------------
\* The registers, the program counter and every byte stay in their ranges,
\* whatever is loaded and executed (vm_cpu.c:77-176).
THEOREM VMTypeCorrect == Spec => []TypeOK
<1>1. VMInv => TypeOK
  BY DEF VMInv
<1> QED
  BY InitVMInv, VMNextStep, <1>1, PTL DEF Spec

\* No transfer has a negative length or leaves the memory, for every program, for
\* every size of memory and sector (vm_cpu.c:121-132, ioHandler.c:28-43).
THEOREM TransfersStayInMemory == Spec => []TransferInBounds
<1>1. VMInv => TransferInBounds
  <2> SUFFICES ASSUME VMInv, status = "trapped", trap.code \in {"READ", "WRITE"}
               PROVE  TransferBytes >= 0 /\ trap.r1 + TransferBytes <= VMSize
    BY DEF TransferInBounds
  <2> QED
    BY TransferTypes, SizesAssumption
<1> QED
  BY InitVMInv, VMNextStep, <1>1, PTL DEF Spec

-----------------------------------------------------------------------------
\* Swapping

\* A trapped machine has asked for something, and a refusal is not forgotten
\* before the machine runs on.
RequestWhileTrapped ==
  /\ request \in {"new", "queued", "refused", "none"}
  /\ status = "trapped" => request # "none"
  /\ request \in {"new", "queued"} => status = "trapped"
  /\ request = "refused" => status \in {"trapped", "ready"}

\* Where a swapped machine's bytes are.
ImageOut ==
  swapped => \A a \in Address :
               Home(a) \notin spoilt => disk[Home(a)][a % SectorSize] = kept[a]

SwapInv ==
  /\ VMInv
  /\ swapSlot \in Slots /\ swapped \in BOOLEAN
  /\ RequestWhileTrapped
  /\ SwappedOnlyToWait
  /\ ImageOut

-----------------------------------------------------------------------------
\* Division by any size of a sector.
LEMMA DivMod ==
  ASSUME NEW n \in Nat, NEW d \in Nat, d > 0
  PROVE  /\ n \div d \in Nat /\ n % d \in 0 .. d - 1
         /\ n = d * (n \div d) + (n % d)
  OBVIOUS

LEMMA CancelFactor ==
  ASSUME NEW d \in Nat, d > 0, NEW x \in Int, NEW y \in Int, d * x < d * y
  PROVE  x < y
  OBVIOUS

\* What follows of a sum that is a whole number of sectors and a bit.
LEMMA SectorsCover ==
  ASSUME NEW a \in Address
  PROVE  a \div SectorSize < SectorsNeeded(VMSize)
<1> DEFINE n == VMSize + SectorSize - 1
<1>1. SectorSize \in Nat /\ SectorSize > 0 /\ VMSize \in Nat /\ a \in Nat /\ a < VMSize
  BY SizesAssumption DEF Address, HeaderSize
<1>2. n \in Nat
  BY <1>1
<1>3. /\ n \div SectorSize \in Nat /\ n % SectorSize \in 0 .. SectorSize - 1
      /\ n = SectorSize * (n \div SectorSize) + (n % SectorSize)
  BY <1>1, <1>2, DivMod
<1>4. /\ a \div SectorSize \in Nat /\ a % SectorSize \in 0 .. SectorSize - 1
      /\ a = SectorSize * (a \div SectorSize) + (a % SectorSize)
  BY <1>1, DivMod
<1>5. SectorSize * (a \div SectorSize) < SectorSize * (n \div SectorSize)
  <2> DEFINE x == SectorSize * (n \div SectorSize)
             y == SectorSize * (a \div SectorSize)
  <2>1. x \in Int /\ y \in Int
    BY <1>1, <1>3, <1>4
  <2>2. n = x + (n % SectorSize) /\ a = y + (a % SectorSize)
    BY <1>3, <1>4
  <2>3. n = VMSize + SectorSize - 1
    OBVIOUS
  <2> HIDE DEF x, y, n
  <2>4. y < x
    BY <1>1, <1>3, <1>4, <2>1, <2>2, <2>3
  <2> QED
    BY <2>4 DEF x, y
<1>6. a \div SectorSize < n \div SectorSize
  <2> DEFINE p == a \div SectorSize
             q == n \div SectorSize
  <2>1. p \in Int /\ q \in Int /\ SectorSize * p < SectorSize * q
    BY <1>3, <1>4, <1>5
  <2> HIDE DEF p, q
  <2>2. p < q
    BY <1>1, <2>1, CancelFactor
  <2> QED
    BY <2>2 DEF p, q
<1> QED
  BY <1>6 DEF SectorsNeeded

LEMMA SlotCovers == SectorsNeeded(VMSize) \in Nat /\ SectorsNeeded(VMSize) <= SwapSectors
<1> DEFINE n == VMSize + SectorSize - 1
           q == n \div SectorSize
<1>1. SectorSize \in Nat /\ SectorSize > 0 /\ VMSize \in Nat /\ SwapSectors \in Nat
  BY SizesAssumption, SwapAssumption DEF HeaderSize
<1>2. n \in Nat
  BY <1>1
<1>3. q \in Nat /\ n % SectorSize \in 0 .. SectorSize - 1
      /\ n = SectorSize * q + (n % SectorSize)
  BY <1>1, <1>2, DivMod
<1>4. SectorSize * q < SectorSize * (SwapSectors + 1)
  <2>1. SectorSize * (SwapSectors + 1) = SwapSectors * SectorSize + SectorSize
    BY <1>1
  <2>2. SwapSectors * SectorSize >= VMSize
    BY SwapAssumption
  <2> DEFINE x == SectorSize * q
             y == SwapSectors * SectorSize
  <2>3. x \in Int /\ y \in Int
    BY <1>1, <1>3
  <2>4. n = x + (n % SectorSize) /\ n = VMSize + SectorSize - 1
    BY <1>3
  <2> HIDE DEF x, y, n
  <2>5. x < y + SectorSize
    BY <1>1, <1>3, <2>2, <2>3, <2>4 DEF y
  <2> QED
    BY <2>1, <2>5 DEF x, y
<1> HIDE DEF n, q
<1>5. q < SwapSectors + 1
  BY <1>1, <1>3, <1>4, CancelFactor
<1> QED
  BY <1>1, <1>3, <1>5 DEF n, q, SectorsNeeded

LEMMA SlotStart ==
  ASSUME swapSlot \in Slots
  PROVE  swapSlotStart \in Nat
  BY SwapAssumption DEF swapSlotStart

\* Every byte has its place in the slot.
LEMMA HomeInSlot ==
  ASSUME swapSlot \in Slots, NEW a \in Address
  PROVE  /\ Home(a) \in Nat /\ Home(a) \in UsedSectors /\ Home(a) \in SlotSectors
         /\ a % SectorSize \in 0 .. SectorSize - 1
         /\ (Home(a) - swapSlotStart) * SectorSize + (a % SectorSize) = a
         /\ SlotFits => Home(a) \in Sector
<1> DEFINE q == a \div SectorSize
<1>1. SectorSize \in Nat /\ SectorSize > 0 /\ a \in Nat
  BY SizesAssumption DEF Address, HeaderSize
<1>2. q \in Nat /\ a % SectorSize \in 0 .. SectorSize - 1 /\ a = SectorSize * q + (a % SectorSize)
  BY <1>1, DivMod
<1>3. q < SectorsNeeded(VMSize) /\ SectorsNeeded(VMSize) <= SwapSectors
      /\ SectorsNeeded(VMSize) \in Nat
  BY SectorsCover, SlotCovers
<1>4. swapSlotStart \in Nat /\ SwapSectors \in Nat /\ NSectors \in Nat
  BY SlotStart, SwapAssumption, SizesAssumption, Sizes
<1>5. Home(a) = swapSlotStart + q
  BY DEF Home
<1> HIDE DEF q
<1>6. Home(a) - swapSlotStart = q
  BY <1>2, <1>4, <1>5
<1>7. (Home(a) - swapSlotStart) * SectorSize + (a % SectorSize) = a
  <2>1. q * SectorSize = SectorSize * q
    BY <1>1, <1>2
  <2> QED
    BY <1>2, <1>6, <2>1
<1> QED
  BY <1>2, <1>3, <1>4, <1>5, <1>7 DEF UsedSectors, SlotSectors, SlotFits, Sector

-----------------------------------------------------------------------------
LEMMA InitSwapInv == InitSwapping => SwapInv
<1> SUFFICES ASSUME InitSwapping PROVE SwapInv
  OBVIOUS
<1>1. VMInv
  BY InitVMInv DEF InitSwapping
<1>2. status = "created"
  BY DEF InitSwapping, Init
<1> QED
  BY <1>1, <1>2
  DEF InitSwapping, SwapInv, RequestWhileTrapped, SwappedOnlyToWait, ImageOut

\* The steps of the machine itself: it is not swapped out then.
LEMMA ExecuteStep ==
  ASSUME SwapInv, Execute
  PROVE  SwapInv'
<1>1. VMInv'
  BY LoadHeaderStep, LoadWordStep, LoadSectorStep, LoadDoneStep, ComputeStep,
     TrapStep, StopStep, RestStep DEF Execute, SwapInv
<1>2. status \notin {"trapped", "ready"}
  BY DEF Execute, LoadHeader, LoadWord, LoadSector, LoadDone, Loading, Compute, Trap,
         Halt, Fault, RunAway, Ended, Fetched
<1>3. swapped = FALSE /\ request = "none"
  BY <1>2 DEF SwapInv, SwappedOnlyToWait, RequestWhileTrapped
<1>4. status' = "trapped" => status = "running"
  BY DEF Execute, LoadHeader, LoadWord, LoadSector, LoadDone, Loading, Compute, Trap,
         Halt, Fault, RunAway, Ended, Fetched, Unloadable, vmVars
<1>5. UNCHANGED <<swapSlot, swapped>>
  BY DEF Execute
<1>6. RequestWhileTrapped'
  BY <1>3, <1>4 DEF Execute, RequestWhileTrapped
<1> QED
  BY <1>1, <1>3, <1>5, <1>6 DEF SwapInv, SwappedOnlyToWait, ImageOut

LEMMA RunMachineStep ==
  ASSUME SwapInv, RunMachine
  PROVE  SwapInv'
<1>1. VMInv'
  BY EnterStep DEF RunMachine, SwapInv
<1>2. UNCHANGED <<swapSlot, swapped>> /\ request' = "none" /\ swapped = FALSE
  BY DEF RunMachine, SwapInv
<1>3. RequestWhileTrapped'
  BY <1>2 DEF RunMachine, Enter, RequestWhileTrapped
<1> QED
  BY <1>1, <1>2, <1>3 DEF SwapInv, SwappedOnlyToWait, ImageOut

\* The disk holds bytes after a swap-out too.
LEMMA SwappedOutDisk ==
  ASSUME SwapInv, swapOutVM
  PROVE  disk' \in [Sector -> SectorImage]
<1>1. disk \in [Sector -> SectorImage] /\ memory \in [Address -> Byte]
  BY DEF SwapInv, VMInv, TypeOK
<1>2. ASSUME NEW s \in Sector, s \in UsedSectors, NEW i \in 0 .. SectorSize - 1
      PROVE  SlotByte(s, i) \in Byte
  <2> DEFINE a == (s - swapSlotStart) * SectorSize + i
  <2>1. a \in Nat
    <3>1. swapSlotStart \in Nat /\ SectorSize \in Nat
      BY SlotStart, SizesAssumption DEF SwapInv
    <3>2. s - swapSlotStart \in Nat
      BY <1>2, <3>1, SlotCovers DEF UsedSectors
    <3> QED
      BY <3>1, <3>2
  <2>2. SlotByte(s, i) = IF a < VMSize THEN memory[a] ELSE 0
    BY DEF SlotByte
  <2> HIDE DEF a
  <2>3. CASE a < VMSize
    <3>1. a \in Address
      BY <2>1, <2>3, SizesAssumption DEF Address
    <3> QED
      BY <1>1, <2>2, <2>3, <3>1
  <2>4. CASE ~(a < VMSize)
    BY <2>2, <2>4, SmallNumbers
  <2> QED
    BY <2>3, <2>4
<1> QED
  BY <1>1, <1>2 DEF swapOutVM, SectorImage

LEMMA QueueRequestStep ==
  ASSUME SwapInv, QueueRequest
  PROVE  SwapInv'
<1>1. /\ status = "trapped" /\ request' = "queued"
      /\ UNCHANGED <<status, file, load, memory, PC, R, trap, swapSlot>>
      /\ swapSlot \in Slots
  BY DEF QueueRequest, Trapped, SwapInv
<1>2. SlotFits' = SlotFits
  BY <1>1 DEF SlotFits, swapSlotStart
<1>3. CASE SlotFits
  <2>1. swapOutVM
    BY <1>3 DEF QueueRequest
  <2>2. disk' \in [Sector -> SectorImage]
    BY <2>1, SwappedOutDisk
  <2>3. VMInv'
    BY <1>1, <2>2 DEF SwapInv, VMInv, TypeOK, HeaderChecked, TransferChecked
  <2>4. ImageOut'
    <3>1. ASSUME NEW a \in Address
          PROVE  disk'[Home(a)][a % SectorSize] = memory[a]
      <4>1. /\ Home(a) \in UsedSectors /\ Home(a) \in Sector
            /\ a % SectorSize \in 0 .. SectorSize - 1
            /\ (Home(a) - swapSlotStart) * SectorSize + (a % SectorSize) = a
        BY <1>1, <1>3, HomeInSlot
      <4>2. disk'[Home(a)][a % SectorSize] = SlotByte(Home(a), a % SectorSize)
        BY <2>1, <4>1 DEF swapOutVM
      <4>3. a < VMSize
        BY SizesAssumption DEF Address
      <4> QED
        BY <4>1, <4>2, <4>3 DEF SlotByte
    <3>2. \A a \in Address : Home(a)' = Home(a)
      BY <1>1 DEF Home, swapSlotStart
    <3>3. kept' = memory
      BY <2>1 DEF swapOutVM
    <3> QED
      BY <3>1, <3>2, <3>3 DEF ImageOut
  <2> QED
    BY <1>1, <1>2, <1>3, <2>1, <2>3, <2>4
    DEF SwapInv, RequestWhileTrapped, SwappedOnlyToWait, swapOutVM
<1>4. CASE ~SlotFits
  <2>1. UNCHANGED <<disk, swapped>> /\ swapped = FALSE
    BY <1>4 DEF QueueRequest, SwapInv, SwappedOnlyToWait
  <2> QED
    BY <1>1, <2>1 DEF SwapInv, VMInv, TypeOK, HeaderChecked, TransferChecked,
       RequestWhileTrapped, SwappedOnlyToWait, ImageOut
<1> QED
  BY <1>3, <1>4

LEMMA RefuseRequestStep ==
  ASSUME SwapInv, RefuseRequest
  PROVE  SwapInv'
<1>1. VMInv'
  BY RestStep DEF RefuseRequest, SwapInv
<1>2. /\ UNCHANGED <<status, swapSlot, swapped>> /\ request' = "refused"
      /\ status = "trapped" /\ swapped = FALSE
  BY DEF RefuseRequest, Trapped, vmVars, SwapInv, SwappedOnlyToWait
<1> QED
  BY <1>1, <1>2 DEF SwapInv, RequestWhileTrapped, SwappedOnlyToWait, ImageOut

\* A slot is left alone, or the sector that was written is known.
LEMMA SlotWritten ==
  ASSUME SwapInv, UNCHANGED <<swapSlot, swapped, kept>>, spoilt \subseteq spoilt',
         \A s \in Sector : s \in SlotSectors /\ disk'[s] # disk[s] => s \in spoilt'
  PROVE  ImageOut'
<1> SUFFICES ASSUME swapped, NEW a \in Address, Home(a)' \notin spoilt'
             PROVE  disk'[Home(a)'][a % SectorSize] = kept[a]
  BY DEF ImageOut
<1>1. Home(a)' = Home(a)
  BY DEF Home, swapSlotStart
<1>2. Home(a) \in Sector /\ Home(a) \in SlotSectors
  BY HomeInSlot DEF SwapInv, SwappedOnlyToWait
<1>3. disk'[Home(a)] = disk[Home(a)]
  BY <1>1, <1>2
<1>4. disk[Home(a)][a % SectorSize] = kept[a]
  BY <1>1 DEF SwapInv, ImageOut
<1> QED
  BY <1>1, <1>3, <1>4

LEMMA CompleteStep ==
  ASSUME SwapInv, Complete
  PROVE  SwapInv'
<1>1. VMInv'
  BY CompleteReadStep, CompleteWriteStep, RestStep DEF Complete, SwapInv
<1>2. /\ status' = "ready" /\ request' = "none"
      /\ UNCHANGED <<swapSlot, swapped, kept>>
  BY DEF Complete, CompleteRead, CompleteWrite, ResumeUnserved
<1>3. spoilt \subseteq spoilt'
  BY DEF Complete
<1>4. ASSUME NEW s \in Sector, s \in SlotSectors, disk'[s] # disk[s]
      PROVE  s \in spoilt'
  <2>1. disk \in [Sector -> SectorImage]
    BY DEF SwapInv, VMInv, TypeOK
  <2>2. CompleteWrite
    BY <1>4 DEF Complete, CompleteRead, ResumeUnserved, loadVars
  <2>3. s = trap.r0 /\ trap.code = "WRITE"
    BY <1>4, <2>1, <2>2 DEF CompleteWrite
  <2> QED
    BY <1>4, <2>3 DEF Complete
<1>5. ImageOut'
  BY <1>2, <1>3, <1>4, SlotWritten
<1> QED
  BY <1>1, <1>2, <1>5
  DEF SwapInv, RequestWhileTrapped, SwappedOnlyToWait, SlotFits, swapSlotStart

LEMMA HandOverStep ==
  ASSUME SwapInv, HandOver
  PROVE  SwapInv'
<1>1. VMInv'
  BY RestStep DEF HandOver, SwapInv
<1>2. /\ status = "trapped" /\ request = "refused"
      /\ status' = "ready" /\ UNCHANGED <<swapSlot, swapped, request>>
  BY DEF HandOver, ResumeUnserved, swapVars
<1>3. swapped = FALSE
  BY <1>2 DEF SwapInv, SwappedOnlyToWait
<1> QED
  BY <1>1, <1>2, <1>3 DEF SwapInv, RequestWhileTrapped, SwappedOnlyToWait, ImageOut

LEMMA OtherWritesStep ==
  ASSUME SwapInv, OtherWrites
  PROVE  SwapInv'
<1> DEFINE zeros == [i \in 0 .. SectorSize - 1 |-> 0]
<1>1. PICK w \in SlotSectors : disk' = [disk EXCEPT ![w] = zeros] /\ spoilt' = spoilt \cup {w}
  BY DEF OtherWrites
<1>2. UNCHANGED <<status, file, load, memory, PC, R, trap, swapSlot, swapped, request, kept>>
  BY DEF OtherWrites
<1>3. disk \in [Sector -> SectorImage]
  BY DEF SwapInv, VMInv, TypeOK
<1>4. zeros \in SectorImage
  BY SmallNumbers DEF SectorImage
<1> HIDE DEF zeros
<1>5. disk' \in [Sector -> SectorImage]
  BY <1>1, <1>3, <1>4
<1>6. VMInv'
  BY <1>2, <1>5 DEF SwapInv, VMInv, TypeOK, HeaderChecked, TransferChecked
<1>7. ImageOut'
  BY <1>1, <1>2, <1>3, SlotWritten
<1> QED
  BY <1>2, <1>6, <1>7
  DEF SwapInv, RequestWhileTrapped, SwappedOnlyToWait, SlotFits, swapSlotStart

\* The memory that is brought back.
LEMMA SwappedIn ==
  ASSUME SwapInv, SwapIn
  PROVE  /\ memory' \in [Address -> Byte]
         /\ \A a \in Address : Home(a) \notin spoilt => memory'[a] = kept[a]
<1>1. swapped /\ SlotFits /\ swapSlot \in Slots
  BY DEF SwapIn, SwapInv, SwappedOnlyToWait
<1>2. memory' = [a \in Address |-> disk[Home(a)][a % SectorSize]]
  BY DEF SwapIn, swapInVM
<1>3. ASSUME NEW a \in Address
      PROVE  disk[Home(a)][a % SectorSize] \in Byte
  <2>1. Home(a) \in Sector /\ a % SectorSize \in 0 .. SectorSize - 1
    BY <1>1, HomeInSlot
  <2> QED
    BY <2>1 DEF SwapInv, VMInv, TypeOK, SectorImage
<1> QED
  BY <1>1, <1>2, <1>3 DEF SwapInv, ImageOut

LEMMA SwapInStep ==
  ASSUME SwapInv, SwapIn
  PROVE  SwapInv'
<1>1. UNCHANGED <<status, disk, file, load, PC, R, trap, swapSlot, request>>
  BY DEF SwapIn, loadVars
<1>2. memory' \in [Address -> Byte] /\ swapped' = FALSE
  BY SwappedIn DEF SwapIn, swapInVM
<1>3. VMInv'
  BY <1>1, <1>2 DEF SwapInv, VMInv, TypeOK, HeaderChecked, TransferChecked
<1> QED
  BY <1>1, <1>2, <1>3 DEF SwapInv, RequestWhileTrapped, SwappedOnlyToWait, ImageOut

LEMMA StutterStep ==
  ASSUME SwapInv, UNCHANGED machineVars
  PROVE  SwapInv'
<1>1. VMInv'
  BY RestStep DEF machineVars, SwapInv
<1>2. UNCHANGED <<status, disk, swapSlot, swapped, request, kept, spoilt>>
  BY DEF machineVars, vmVars, swapVars
<1>3. ImageOut'
  BY <1>2, SlotWritten
<1> QED
  BY <1>1, <1>2, <1>3
  DEF SwapInv, RequestWhileTrapped, SwappedOnlyToWait, SlotFits, swapSlotStart

LEMMA SwapNextStep == SwapInv /\ [NextSwapping]_machineVars => SwapInv'
  BY ExecuteStep, QueueRequestStep, RefuseRequestStep, CompleteStep, HandOverStep,
     OtherWritesStep, SwapInStep, RunMachineStep, StutterStep
  DEF NextSwapping

-----------------------------------------------------------------------------
\* A machine runs, and is refused a transfer, only with its memory in place
\* (scheduler.c:296-333).
THEOREM SwappedWhileWaiting == SpecSwapping => []SwappedOnlyToWait
<1>1. SwapInv => SwappedOnlyToWait
  BY DEF SwapInv
<1> QED
  BY InitSwapInv, SwapNextStep, <1>1, PTL DEF SpecSwapping

\* Swapped in, a machine has every byte it had when it trapped, except in sectors
\* that were written since, for every size of memory and sector, also one that
\* does not divide the other (swapper.c:23-65).
THEOREM MachineComesBack == SpecSwapping => ComesBackAsItWent
<1>1. ASSUME SwapInv, [NextSwapping]_machineVars
      PROVE  [ swapped /\ ~swapped' =>
                 \A a \in Address : Home(a) \notin spoilt => memory'[a] = kept[a] ]_machineVars
  <2> SUFFICES ASSUME NextSwapping, swapped, ~swapped'
               PROVE  \A a \in Address : Home(a) \notin spoilt => memory'[a] = kept[a]
    BY <1>1 DEF machineVars, swapVars
  <2>1. SwapIn
    BY DEF NextSwapping, Execute, QueueRequest, RefuseRequest, swapOutVM, Complete, HandOver,
           OtherWrites, RunMachine, swapVars
  <2> QED
    BY <1>1, <2>1, SwappedIn
<1> QED
  BY InitSwapInv, SwapNextStep, <1>1, PTL DEF SpecSwapping, ComesBackAsItWent

\* The transfers of a machine stay inside its memory also while it is swapped out.
THEOREM SwappedTransfersStayInMemory == SpecSwapping => []TransferInBounds
<1>1. SwapInv => TransferInBounds
  <2> SUFFICES ASSUME VMInv, status = "trapped", trap.code \in {"READ", "WRITE"}
               PROVE  TransferBytes >= 0 /\ trap.r1 + TransferBytes <= VMSize
    BY DEF TransferInBounds, SwapInv
  <2> QED
    BY TransferTypes, SizesAssumption
<1> QED
  BY InitSwapInv, SwapNextStep, <1>1, PTL DEF SpecSwapping
-----------------------------------------------------------------------------
\* The loader on such a disk: for every size of sector, memory and disk, every
\* content and every entry of the file table loaderLoadFile accepts exactly the
\* images that are valid, and copies them exactly.

\* Where the loop is: the bytes it has used up, the header among them, end at
\* byteOffset of the sector it is in.  The last word was read within the sectors
\* that the file has.
LoopSound ==
  status = "loading" =>
    /\ file.known /\ file.startSector < NSectors
    /\ load.wordCount = FileWord(0) /\ load.wordCount > 0
    /\ load.entryOffset = FileWord(2) /\ load.loadAddress = FileWord(4)
    /\ load.wordsLoaded <= load.wordCount
    /\ load.sector = file.startSector + load.sectorsRead
    /\ load.sectorsRead <= file.sectorCount
    /\ HeaderSize + 2 * load.wordsLoaded = SectorSize * load.sectorsRead + load.byteOffset
    /\ load.byteOffset % 2 = 0
    /\ load.wordsLoaded = load.wordCount =>
         load.sectorsRead < file.sectorCount /\ load.byteOffset > 0

\* What the loop has copied so far.
Copied(base, words) ==
  /\ \A i \in 0 .. words - 1 :
       ByteSize * memory[base + 2 * i] + memory[base + 2 * i + 1] = FileWord(HeaderSize + 2 * i)
  /\ \A a \in Address \ (base .. base + 2 * words - 1) : memory[a] = 0

CopySound ==
  /\ status = "created" => \A a \in Address : memory[a] = 0
  /\ status = "loading" => Copied(load.loadAddress, load.wordsLoaded)

LoadInv == LoopSound /\ CopySound /\ LoadDecides /\ LoadedImage

-----------------------------------------------------------------------------
\* Division is unique.
LEMMA DivUnique ==
  ASSUME NEW d \in Nat, d > 0, NEW q \in Nat, NEW r \in 0 .. d - 1
  PROVE  (d * q + r) \div d = q /\ (d * q + r) % d = r
<1> DEFINE n == d * q + r
           x == n \div d
           y == n % d
<1>1. d * q \in Nat
  OBVIOUS
<1>2. n \in Nat
  BY <1>1
<1>3. x \in Nat /\ y \in 0 .. d - 1 /\ n = d * x + y
  BY <1>2, DivMod
<1>4. n = d * q + r
  OBVIOUS
<1> HIDE DEF n, x, y
<1>5. d * x \in Nat /\ d * (q + 1) = d * q + d /\ d * (x + 1) = d * x + d
  BY <1>3
<1>6. d * x < d * (q + 1) /\ d * q < d * (x + 1)
  <2> DEFINE u == d * x
             v == d * q
  <2>1. u \in Nat /\ v \in Nat /\ n = u + y /\ n = v + r
        /\ d * (q + 1) = v + d /\ d * (x + 1) = u + d
    BY <1>1, <1>3, <1>4, <1>5
  <2> HIDE DEF u, v
  <2>2. u < v + d /\ v < u + d
    BY <1>3, <2>1
  <2> QED
    BY <2>1, <2>2 DEF u, v
<1>7. x = q
  BY <1>3, <1>6, CancelFactor
<1>8. y = r
  BY <1>1, <1>3, <1>4, <1>7
<1> QED
  BY <1>7, <1>8 DEF n, x, y

LEMMA SectorFacts ==
  /\ SectorSize \in Nat /\ SectorSize > 0 /\ SectorSize >= 6 /\ SectorSize % 2 = 0
  /\ NSectors \in Nat /\ VMSize \in Nat /\ HeaderSize = 6
  BY SizesAssumption, Sizes DEF HeaderSize

\* A sector count is the least that holds the bytes.
LEMMA SectorsHold ==
  ASSUME NEW n \in Nat, NEW q \in Nat
  PROVE  /\ SectorsNeeded(n) \in Nat
         /\ SectorsNeeded(n) <= q <=> n <= SectorSize * q
<1> DEFINE m == n + SectorSize - 1
           x == m \div SectorSize
           r == m % SectorSize
           u == SectorSize * x
           v == SectorSize * q
<1>1. m \in Nat /\ m = n + SectorSize - 1
  BY SectorFacts
<1> HIDE DEF m
<1>2. x \in Nat /\ r \in 0 .. SectorSize - 1 /\ m = SectorSize * x + r
  BY <1>1, SectorFacts, DivMod
<1> HIDE DEF x, r
<1>3. /\ u \in Nat /\ v \in Nat /\ m = u + r
      /\ SectorSize * (q + 1) = v + SectorSize
  BY <1>2, SectorFacts
<1>4. SectorsNeeded(n) = x
  BY DEF SectorsNeeded, x, m
<1>5. ASSUME n <= v PROVE x <= q
  <2> HIDE DEF u, v
  <2>1. u < v + SectorSize
    BY <1>1, <1>2, <1>3, <1>5, SectorFacts
  <2>2. SectorSize * x < SectorSize * (q + 1)
    BY <1>3, <2>1 DEF u
  <2>3. x < q + 1
    BY <1>2, <2>2, SectorFacts, CancelFactor
  <2> QED
    BY <1>2, <2>3
<1>6. ASSUME ~(n <= v) PROVE q < x
  <2> HIDE DEF u, v
  <2>1. v < u
    BY <1>1, <1>2, <1>3, <1>6, SectorFacts
  <2>2. SectorSize * q < SectorSize * x
    BY <2>1 DEF u, v
  <2> QED
    BY <1>2, <2>2, SectorFacts, CancelFactor
<1> QED
  BY <1>2, <1>4, <1>5, <1>6

-----------------------------------------------------------------------------
\* The bytes of the file, and a word of it that the loop reads from its sector.
LEMMA FileBytes ==
  ASSUME NEW q \in Nat, NEW r \in 0 .. SectorSize - 1
  PROVE  FileByte(SectorSize * q + r) = disk[file.startSector + q][r]
  BY SectorFacts, DivUnique DEF FileByte

LEMMA FileWords ==
  ASSUME NEW q \in Nat, NEW r \in 0 .. SectorSize - 2,
         NEW k \in Int, k = SectorSize * q + r
  PROVE  FileWord(k) = read_le16(file.startSector + q, r)
<1>1. r \in 0 .. SectorSize - 1 /\ r + 1 \in 0 .. SectorSize - 1
  BY SectorFacts
<1>2. k + 1 = SectorSize * q + (r + 1)
  BY SectorFacts
<1>3. FileByte(k) = disk[file.startSector + q][r]
  BY <1>1, FileBytes
<1>4. FileByte(k + 1) = disk[file.startSector + q][r + 1]
  BY <1>1, <1>2, FileBytes
<1> QED
  BY <1>3, <1>4 DEF FileWord, read_le16

LEMMA HeaderWords ==
  ASSUME file \in Files, NEW k \in {0, 2, 4}
  PROVE  FileWord(k) = read_le16(file.startSector, k)
<1>1. file.startSector \in Nat
  BY FilesAssumption, SmallNumbers
<1>2. k \in 0 .. SectorSize - 2 /\ k \in Int /\ k = SectorSize * 0 + k /\ 0 \in Nat
  BY SectorFacts
<1>3. FileWord(k) = read_le16(file.startSector + 0, k)
  BY <1>2, FileWords
<1> QED
  BY <1>1, <1>3

\* The file is what it was if disk and entry are.
LEMMA SameFile ==
  ASSUME UNCHANGED <<disk, file>>
  PROVE  /\ \A k \in Int : FileWord(k)' = FileWord(k)
         /\ ValidImage' <=> ValidImage
  BY DEF FileWord, FileByte, ValidImage

LEMMA FileTyped ==
  ASSUME file \in Files
  PROVE  file.startSector \in Nat /\ file.sectorCount \in Nat
  BY FilesAssumption, SmallNumbers

-----------------------------------------------------------------------------
\* Nothing but the verdict is left of a load that failed.
LEMMA Rejected ==
  ASSUME UNCHANGED <<disk, file>>, status' = "unloadable", ~ValidImage
  PROVE  LoadInv'
  BY SameFile DEF LoadInv, LoopSound, CopySound, LoadDecides, LoadedImage

LEMMA HeaderStep ==
  ASSUME VMInv, LoadInv, LoadHeader
  PROVE  LoadInv'
<1> DEFINE s == file.startSector
           w == FileWord(0)
           e == FileWord(2)
           l == FileWord(4)
<1>1. UNCHANGED <<disk, file, memory>> /\ status = "created"
  BY DEF LoadHeader
<1>2. disk \in [Sector -> SectorImage] /\ file \in Files /\ s \in Nat /\ file.sectorCount \in Nat
  BY FileTyped DEF VMInv, TypeOK
<1>3. /\ w = read_le16(s, 0) /\ e = read_le16(s, 2) /\ l = read_le16(s, 4)
  BY <1>2, HeaderWords
<1>4. CASE ~file.known \/ ~readDisk(s)
  <2>1. status' = "unloadable"
    BY <1>4 DEF LoadHeader, Unloadable
  <2>2. ~ValidImage
    BY <1>4 DEF ValidImage, readDisk
  <2> QED
    BY <1>1, <2>1, <2>2, Rejected
<1>5. CASE file.known /\ readDisk(s)
  <2>1. s \in Sector
    BY <1>2, <1>5, SectorFacts DEF readDisk, Sector
  <2>2. w \in Nat /\ e \in Nat /\ l \in Nat
    <3>1. 0 \in 0 .. SectorSize - 2 /\ 2 \in 0 .. SectorSize - 2 /\ 4 \in 0 .. SectorSize - 2
      BY SectorFacts
    <3> QED
      BY <1>2, <1>3, <2>1, <3>1, ReadWord, SmallNumbers
  <2> HIDE DEF w, e, l
  <2>3. CASE w = 0 \/ ~(l + 2 * w <= VMSize) \/ e >= w
    <3>1. status' = "unloadable"
      BY <1>3, <1>5, <2>3 DEF LoadHeader, Unloadable, address_fits
    <3>2. ~ValidImage
      BY <2>2, <2>3 DEF ValidImage, w, e, l
    <3> QED
      BY <1>1, <3>1, <3>2, Rejected
  <2>4. CASE ~(w = 0 \/ ~(l + 2 * w <= VMSize) \/ e >= w)
    <3>1. /\ status' = "loading"
          /\ load' = [wordCount |-> w, entryOffset |-> e, loadAddress |-> l,
                      wordsLoaded |-> 0, byteOffset |-> HeaderSize, sector |-> s,
                      sectorsRead |-> 0]
      BY <1>3, <1>5, <2>4 DEF LoadHeader, address_fits
    <3>2. /\ file' = file /\ FileWord(0)' = w /\ FileWord(2)' = e /\ FileWord(4)' = l
      BY <1>1, SameFile DEF w, e, l
    <3>3. LoopSound'
      BY <1>2, <1>5, <2>2, <2>4, <3>1, <3>2, SectorFacts DEF LoopSound, readDisk
    <3>4. CopySound'
      <4>1. \A a \in Address : memory'[a] = 0
        BY <1>1 DEF LoadInv, CopySound
      <4> QED
        BY <2>2, <3>1, <4>1 DEF CopySound, Copied
    <3> QED
      BY <3>1, <3>3, <3>4 DEF LoadInv, LoadDecides, LoadedImage
  <2> QED
    BY <2>3, <2>4
<1> QED
  BY <1>4, <1>5

\* What the loop knows of its position, with the types.
LEMMA Position ==
  ASSUME VMInv, LoopSound, status = "loading"
  PROVE  /\ disk \in [Sector -> SectorImage] /\ memory \in [Address -> Byte]
         /\ file.startSector \in Nat /\ file.sectorCount \in Nat
         /\ load.wordCount \in Nat /\ load.entryOffset \in Nat /\ load.loadAddress \in Nat
         /\ load.wordsLoaded \in Nat /\ load.sectorsRead \in Nat
         /\ load.byteOffset \in 0 .. SectorSize /\ load.sector \in Sector
         /\ load.loadAddress + 2 * load.wordCount <= VMSize
         /\ load.wordsLoaded <= load.wordCount
         /\ SectorSize * load.sectorsRead \in Nat
         /\ HeaderSize + 2 * load.wordsLoaded
              = SectorSize * load.sectorsRead + load.byteOffset
<1>1. load \in LoadLocals /\ file \in Files
  BY DEF VMInv, TypeOK
<1>2. load.sectorsRead \in Nat
  BY <1>1, LoadFields
<1> QED
  BY <1>1, <1>2, LoadFields, FileTyped, SectorFacts
  DEF VMInv, TypeOK, LoopSound, HeaderChecked

\* The sector read last is one of the disk's.
LEMMA SectorOnDisk ==
  ASSUME VMInv, LoopSound, status = "loading"
  PROVE  load.sector \in Nat /\ load.sector < NSectors
<1>1. load.sector \in Sector
  BY Position
<1>2. NSectors \in Nat
  BY SectorFacts
<1> QED
  BY <1>1, <1>2 DEF Sector

LEMMA WordOfFile ==
  ASSUME VMInv, LoopSound, Loading, load.byteOffset + 1 < SectorSize
  PROVE  /\ read_le16(load.sector, load.byteOffset)
              = FileWord(HeaderSize + 2 * load.wordsLoaded)
         /\ read_le16(load.sector, load.byteOffset) \in Word
<1>1. status = "loading"
  BY DEF Loading
<1>2. load.byteOffset \in 0 .. SectorSize - 2
  BY <1>1, Position, SectorFacts
<1>3. HeaderSize + 2 * load.wordsLoaded \in Int /\ load.sector = file.startSector + load.sectorsRead
  BY <1>1, Position, SectorFacts DEF LoopSound
<1> QED
  BY <1>1, <1>2, <1>3, Position, FileWords, ReadWord

\* The addresses of word n of an image, and of the words before it.
LEMMA WordPlace ==
  ASSUME NEW l \in Nat, NEW n \in Nat, NEW w \in Nat, n < w, l + 2 * w <= VMSize
  PROVE  /\ l + 2 * n \in Address /\ l + 2 * n + 1 \in Address /\ l + 2 * n + 1 < VMSize
         /\ l + 2 * n + 1 # l + 2 * n
         /\ \A i \in 0 .. n - 1 :
              /\ l + 2 * i \in Address /\ l + 2 * i + 1 \in Address
              /\ l + 2 * i # l + 2 * n /\ l + 2 * i # l + 2 * n + 1
              /\ l + 2 * i + 1 # l + 2 * n /\ l + 2 * i + 1 # l + 2 * n + 1
  BY SectorFacts DEF Address

LEMMA WordStep ==
  ASSUME VMInv, LoadInv, LoadWord
  PROVE  LoadInv'
<1> DEFINE n == load.wordsLoaded
           l == load.loadAddress
           a == l + 2 * n
           word == read_le16(load.sector, load.byteOffset)
<1>1. LoopSound /\ Loading /\ status = "loading" /\ load.byteOffset + 1 < SectorSize
  BY DEF LoadInv, LoadWord, Loading
<1>2. UNCHANGED <<status, disk, file>>
  BY DEF LoadWord
<1>3. load' = [load EXCEPT !.wordsLoaded = n + 1, !.byteOffset = load.byteOffset + 2]
  BY DEF LoadWord
<1>4. load \in LoadLocals
  BY DEF VMInv, TypeOK
<1>5. /\ load'.wordsLoaded = n + 1 /\ load'.byteOffset = load.byteOffset + 2
      /\ load'.wordCount = load.wordCount /\ load'.entryOffset = load.entryOffset
      /\ load'.loadAddress = l /\ load'.sector = load.sector
      /\ load'.sectorsRead = load.sectorsRead
  BY <1>3, <1>4 DEF LoadLocals
<1>6. n \in Nat /\ l \in Nat /\ n < load.wordCount /\ l + 2 * load.wordCount <= VMSize
      /\ load.wordCount \in Nat /\ memory \in [Address -> Byte]
  BY <1>1, Position DEF Loading
<1>7. a \in Address /\ a + 1 \in Address /\ a + 1 < VMSize
  <2> HIDE DEF n, l
  <2> QED
    BY <1>6, WordPlace
<1>8. memory' = [memory EXCEPT ![a] = word \div ByteSize, ![a + 1] = word % ByteSize]
  BY <1>7 DEF LoadWord
<1>9. LoopSound'
  <2>1. load.sectorsRead < file.sectorCount
    BY <1>1 DEF Loading
  <2>2. /\ FileWord(0)' = FileWord(0) /\ FileWord(2)' = FileWord(2)
        /\ FileWord(4)' = FileWord(4)
    BY <1>2, SameFile
  <2>3. (load.byteOffset + 2) % 2 = 0 /\ load.byteOffset + 2 > 0
    BY <1>1, Position DEF LoopSound
  <2>4. HeaderSize + 2 * (n + 1) = SectorSize * load.sectorsRead + (load.byteOffset + 2)
    BY <1>1, Position, SectorFacts
  <2>5. n + 1 <= load.wordCount
    BY <1>6
  <2> QED
    BY <1>1, <1>2, <1>5, <2>1, <2>2, <2>3, <2>4, <2>5 DEF LoopSound
<1>10. Copied(l, n)
  BY <1>1 DEF LoadInv, CopySound
<1>11. Copied(load.loadAddress, load.wordsLoaded)'
  <2>1. \A i \in 0 .. n :
          ByteSize * memory'[l + 2 * i] + memory'[l + 2 * i + 1] = FileWord(HeaderSize + 2 * i)
    <3> SUFFICES ASSUME NEW i \in 0 .. n
                 PROVE  ByteSize * memory'[l + 2 * i] + memory'[l + 2 * i + 1]
                          = FileWord(HeaderSize + 2 * i)
      OBVIOUS
    <3>1. CASE i = n
      <4>1. word \in Nat /\ word = FileWord(HeaderSize + 2 * n)
        BY <1>1, WordOfFile, SmallNumbers
      <4>2. memory'[a] = word \div ByteSize /\ memory'[a + 1] = word % ByteSize
        <5> HIDE DEF a, word
        <5>1. a # a + 1
          BY <1>7 DEF Address
        <5> QED
          BY <1>6, <1>7, <1>8, <5>1
      <4> HIDE DEF word
      <4>3. ByteSize * (word \div ByteSize) + (word % ByteSize) = word
        BY <4>1 DEF ByteSize
      <4> QED
        BY <3>1, <4>1, <4>2, <4>3
    <3>2. CASE i # n
      <4>1. i \in 0 .. n - 1
        BY <1>6, <3>2
      <4>2. /\ l + 2 * i \in Address /\ l + 2 * i + 1 \in Address
            /\ l + 2 * i # a /\ l + 2 * i # a + 1
            /\ l + 2 * i + 1 # a /\ l + 2 * i + 1 # a + 1
        <5> HIDE DEF n, l
        <5> QED
          BY <1>6, <4>1, WordPlace
      <4>3. memory'[l + 2 * i] = memory[l + 2 * i] /\ memory'[l + 2 * i + 1] = memory[l + 2 * i + 1]
        <5> HIDE DEF a, word, l
        <5> QED
          BY <1>6, <1>8, <4>2
      <4> QED
        BY <1>10, <4>1, <4>3 DEF Copied
    <3> QED
      BY <3>1, <3>2
  <2>2. ASSUME NEW b \in Address, b \notin l .. l + 2 * (n + 1) - 1
        PROVE  memory'[b] = 0
    <3>1. b # a /\ b # a + 1 /\ b \notin l .. l + 2 * n - 1
      BY <1>6, <2>2 DEF Address
    <3>2. memory'[b] = memory[b]
      <4> HIDE DEF a, word
      <4> QED
        BY <1>6, <1>8, <3>1
    <3> QED
      BY <1>10, <3>1, <3>2 DEF Copied
  <2>3. \A i \in 0 .. n : FileWord(HeaderSize + 2 * i)' = FileWord(HeaderSize + 2 * i)
    BY <1>2, <1>6, SameFile, SectorFacts
  <2>4. (n + 1) - 1 = n
    BY <1>6
  <2> HIDE DEF l, n
  <2> QED
    BY <1>5, <2>1, <2>2, <2>3, <2>4 DEF Copied
<1>12. CopySound'
  BY <1>1, <1>2, <1>5, <1>11 DEF CopySound
<1> QED
  BY <1>1, <1>2, <1>9, <1>12 DEF LoadInv, LoadDecides, LoadedImage

LEMMA SectorStep ==
  ASSUME VMInv, LoadInv, LoadSector
  PROVE  LoadInv'
<1> DEFINE n == HeaderSize + 2 * load.wordCount
           r == load.sectorsRead
           v == SectorSize * r
<1>1. /\ LoopSound /\ status = "loading" /\ load.byteOffset + 1 >= SectorSize
      /\ load.wordsLoaded < load.wordCount /\ r < file.sectorCount
      /\ UNCHANGED <<disk, file, memory>>
  BY DEF LoadInv, LoadSector, Loading
<1>2. load \in LoadLocals
  BY DEF VMInv, TypeOK
<1>3. load.byteOffset = SectorSize
  BY <1>1, Position, SectorFacts DEF LoopSound
<1>4. /\ r \in Nat /\ v \in Nat /\ SectorSize * (r + 1) = v + SectorSize
      /\ HeaderSize + 2 * load.wordsLoaded = v + SectorSize
  BY <1>1, <1>3, Position, SectorFacts
<1>5. CASE readDisk(load.sector + 1)
  <2>1. status' = "loading"
    BY <1>1, <1>5 DEF LoadSector
  <2>2. load' = [load EXCEPT !.sector = load.sector + 1, !.sectorsRead = r + 1, !.byteOffset = 0]
    BY <1>5 DEF LoadSector
  <2>3. /\ load'.wordsLoaded = load.wordsLoaded /\ load'.byteOffset = 0
        /\ load'.wordCount = load.wordCount /\ load'.entryOffset = load.entryOffset
        /\ load'.loadAddress = load.loadAddress /\ load'.sector = load.sector + 1
        /\ load'.sectorsRead = r + 1
    BY <1>2, <2>2 DEF LoadLocals
  <2>4. /\ FileWord(0)' = FileWord(0) /\ FileWord(2)' = FileWord(2)
        /\ FileWord(4)' = FileWord(4)
        /\ \A i \in 0 .. load.wordsLoaded - 1 :
             FileWord(HeaderSize + 2 * i)' = FileWord(HeaderSize + 2 * i)
    BY <1>1, Position, SameFile, SectorFacts
  <2>5. LoopSound'
    <3>1. HeaderSize + 2 * load.wordsLoaded = SectorSize * (r + 1) + 0
      BY <1>4, SectorFacts
    <3>2. load.sector + 1 = file.startSector + (r + 1) /\ r + 1 <= file.sectorCount
      BY <1>1, Position DEF LoopSound
    <3>3. 0 % 2 = 0 /\ ~(load.wordsLoaded = load.wordCount)
      BY <1>1, Position
    <3> QED
      BY <1>1, <2>1, <2>3, <2>4, <3>1, <3>2, <3>3 DEF LoopSound
  <2>6. CopySound'
    BY <1>1, <2>1, <2>3, <2>4 DEF LoadInv, CopySound, Copied
  <2> QED
    BY <2>1, <2>5, <2>6 DEF LoadInv, LoadDecides, LoadedImage
<1>6. CASE ~readDisk(load.sector + 1)
  <2>1. status' = "unloadable"
    BY <1>6 DEF LoadSector, Unloadable
  <2>2. n \in Nat /\ ~(n <= SectorSize * (r + 1))
    BY <1>1, <1>4, Position, SectorFacts
  <2>3. SectorsNeeded(n) \in Nat /\ ~(SectorsNeeded(n) <= r + 1)
    <3> HIDE DEF n
    <3>1. r + 1 \in Nat
      BY <1>4
    <3> QED
      BY <2>2, <3>1, SectorsHold
  <2>4. ~(file.startSector + SectorsNeeded(n) <= NSectors)
    <3>1. load.sector \in Nat /\ ~(load.sector + 1 < NSectors)
      BY <1>1, <1>6, SectorOnDisk DEF readDisk
    <3>2. load.sector = file.startSector + r /\ file.startSector \in Nat
      BY <1>1, Position DEF LoopSound
    <3>3. r \in Nat /\ NSectors \in Nat
      BY <1>4, SectorFacts
    <3> DEFINE x == SectorsNeeded(n)
    <3>4. x \in Nat /\ ~(x <= r + 1)
      BY <2>3
    <3> HIDE DEF x, r
    <3>5. ~(file.startSector + x <= NSectors)
      BY <3>1, <3>2, <3>3, <3>4
    <3> QED
      BY <3>5 DEF x
  <2>5. ~ValidImage
    BY <1>1, <2>4 DEF ValidImage, LoopSound
  <2> QED
    BY <1>1, <2>1, <2>5, Rejected
<1> QED
  BY <1>5, <1>6

LEMMA DoneStep ==
  ASSUME VMInv, LoadInv, LoadDone
  PROVE  LoadInv'
<1> DEFINE n == HeaderSize + 2 * load.wordCount
           r == load.sectorsRead
           v == SectorSize * r
<1>1. /\ LoopSound /\ CopySound /\ status = "loading" /\ ~Loading
      /\ UNCHANGED <<disk, file, load, memory>>
  BY DEF LoadInv, LoadDone
<1>2. /\ r \in Nat /\ v \in Nat /\ n \in Nat /\ SectorSize * (r + 1) = v + SectorSize
      /\ HeaderSize + 2 * load.wordsLoaded = v + load.byteOffset
      /\ load.byteOffset \in 0 .. SectorSize
      /\ file.sectorCount \in Nat /\ file.startSector \in Nat
  BY <1>1, Position, SectorFacts
<1>3. CASE load.wordsLoaded # load.wordCount
  <2>1. status' = "unloadable"
    BY <1>3 DEF LoadDone
  <2>2. load.wordsLoaded < load.wordCount /\ r = file.sectorCount
    BY <1>1, <1>2, <1>3, Position DEF Loading, LoopSound
  <2>3. ~(n <= v)
    BY <1>1, <1>2, <2>2, Position, SectorFacts
  <2>4. ~(SectorsNeeded(n) <= r)
    <3> HIDE DEF n
    <3> QED
      BY <1>2, <2>3, SectorsHold
  <2>5. ~ValidImage
    BY <1>1, <2>2, <2>4 DEF ValidImage, LoopSound
  <2> QED
    BY <1>1, <2>1, <2>5, Rejected
<1>4. CASE load.wordsLoaded = load.wordCount
  <2>1. status' = "loaded" /\ PC' = load.loadAddress + 2 * load.entryOffset
    BY <1>4 DEF LoadDone
  <2>2. /\ file.known /\ file.startSector < NSectors
        /\ load.wordCount = FileWord(0) /\ load.wordCount > 0
        /\ load.entryOffset = FileWord(2) /\ load.loadAddress = FileWord(4)
        /\ load.sector = file.startSector + r /\ r < file.sectorCount
        /\ load.entryOffset < load.wordCount
        /\ load.loadAddress + 2 * load.wordCount <= VMSize
    BY <1>1, <1>4 DEF LoopSound, VMInv, HeaderChecked
  <2>3. n <= SectorSize * (r + 1)
    BY <1>2, <1>4, SectorFacts
  <2>4. SectorsNeeded(n) \in Nat /\ SectorsNeeded(n) <= r + 1
    <3> HIDE DEF n
    <3>1. r + 1 \in Nat
      BY <1>2
    <3> QED
      BY <1>2, <2>3, <3>1, SectorsHold
  <2>5. SectorsNeeded(n) <= file.sectorCount /\ file.startSector + SectorsNeeded(n) <= NSectors
    <3>1. load.sector < NSectors /\ load.sector \in Nat
      BY <1>1, SectorOnDisk
    <3>2. /\ r \in Nat /\ NSectors \in Nat /\ load.sector = file.startSector + r
          /\ r < file.sectorCount /\ file.sectorCount \in Nat /\ file.startSector \in Nat
      BY <1>2, <2>2, SectorFacts
    <3> DEFINE x == SectorsNeeded(n)
    <3>3. x \in Nat /\ x <= r + 1
      BY <2>4
    <3> HIDE DEF x, r
    <3>4. x <= file.sectorCount /\ file.startSector + x <= NSectors
      BY <3>1, <3>2, <3>3
    <3> QED
      BY <3>4 DEF x
  <2>6. ValidImage
    BY <2>2, <2>5 DEF ValidImage
  <2>7. LoadedImage
    BY <1>1 DEF LoadedImage
  <2>8. Copied(FileWord(4), FileWord(0))
    BY <1>1, <1>4, <2>2 DEF CopySound
  <2>9. /\ FileWord(0)' = FileWord(0) /\ FileWord(2)' = FileWord(2)
        /\ FileWord(4)' = FileWord(4)
        /\ \A i \in 0 .. FileWord(0) - 1 :
             FileWord(HeaderSize + 2 * i)' = FileWord(HeaderSize + 2 * i)
    <3>1. FileWord(0) \in Nat
      BY <1>1, <2>2, Position
    <3> QED
      BY <1>1, <3>1, SameFile, SectorFacts
  <2>10. LoadedImage'
    BY <1>1, <2>1, <2>2, <2>8, <2>9 DEF LoadedImage, Copied
  <2>11. LoadDecides'
    BY <1>1, <2>1, <2>6, SameFile DEF LoadDecides
  <2> QED
    BY <2>1, <2>10, <2>11 DEF LoadInv, LoopSound, CopySound
<1> QED
  BY <1>3, <1>4

-----------------------------------------------------------------------------
Loader == {"created", "loading", "loaded", "unloadable"}

\* Once a program has been entered nothing of this matters.
LEMMA EnteredStep ==
  ASSUME status' \notin Loader
  PROVE  LoadInv'
  BY DEF Loader, LoadInv, LoopSound, CopySound, LoadDecides, LoadedImage

LEMMA SameStep ==
  ASSUME LoadInv, UNCHANGED vmVars
  PROVE  LoadInv'
<1>1. UNCHANGED <<status, disk, file, load, memory, PC>>
  BY DEF vmVars
<1>2. \A k \in Int : FileWord(k)' = FileWord(k)
  BY <1>1, SameFile
<1> QED
  BY <1>1, SameFile
  DEF LoadInv, LoopSound, CopySound, LoadDecides, LoadedImage, Copied, FileWord, FileByte

LEMMA InitLoadInv == Init => LoadInv
  BY DEF Init, LoadInv, LoopSound, CopySound, LoadDecides, LoadedImage

LEMMA LoadNextStep == VMInv /\ LoadInv /\ [Next]_vmVars => LoadInv'
<1> SUFFICES ASSUME VMInv, LoadInv, [Next]_vmVars PROVE LoadInv'
  OBVIOUS
<1>1. CASE Enter \/ Compute \/ Trap \/ Halt \/ Fault \/ RunAway
           \/ CompleteRead \/ CompleteWrite \/ ResumeUnserved
  <2>1. status' \notin Loader
    BY <1>1 DEF Enter, Compute, Trap, Halt, Fault, RunAway, CompleteRead, CompleteWrite,
                ResumeUnserved, Fetched, Loader
  <2> QED
    BY <2>1, EnteredStep
<1>2. CASE Ended
  BY <1>2, SameStep DEF Ended
<1> QED
  BY <1>1, <1>2, HeaderStep, WordStep, SectorStep, DoneStep, SameStep DEF Next

\* Swapping starts when the program has been entered.
LEMMA SwapLoadStep == SwapInv /\ LoadInv /\ [NextSwapping]_machineVars => LoadInv'
<1> SUFFICES ASSUME SwapInv, LoadInv, [NextSwapping]_machineVars PROVE LoadInv'
  OBVIOUS
<1>1. CASE Execute
  BY <1>1, LoadNextStep DEF Execute, Next, SwapInv
<1>2. CASE QueueRequest \/ RefuseRequest \/ SwapIn
  <2>1. status' \in {"trapped", "ready"}
    BY <1>2 DEF QueueRequest, RefuseRequest, Trapped, SwapIn, vmVars
  <2> QED
    BY <2>1, EnteredStep DEF Loader
<1>3. CASE Complete \/ HandOver
  <2>1. status' = "ready"
    BY <1>3 DEF Complete, HandOver, CompleteRead, CompleteWrite, ResumeUnserved
  <2> QED
    BY <2>1, EnteredStep DEF Loader
<1>4. CASE OtherWrites
  <2>1. status' \in {"trapped", "ready"}
    BY <1>4 DEF OtherWrites, SwapInv, SwappedOnlyToWait
  <2> QED
    BY <2>1, EnteredStep DEF Loader
<1>5. CASE RunMachine
  <2>1. status' = "running"
    BY <1>5 DEF RunMachine, Enter
  <2> QED
    BY <2>1, EnteredStep DEF Loader
<1>6. CASE UNCHANGED machineVars
  BY <1>6, SameStep DEF machineVars
<1> QED
  BY <1>1, <1>2, <1>3, <1>4, <1>5, <1>6 DEF NextSwapping

-----------------------------------------------------------------------------
\* The loader accepts exactly the valid images, also on a disk that machines are
\* swapped out to (loader.c:87-148).
THEOREM LoaderDecides == SpecSwapping => []LoadDecides
<1>1. LoadInv => LoadDecides
  BY DEF LoadInv
<1> QED
  BY InitSwapInv, SwapNextStep, InitLoadInv, SwapLoadStep, <1>1, PTL
  DEF SpecSwapping, InitSwapping

\* A loaded program is the file, word by word, where its header puts it, and
\* nothing else (loader.c:118-155).
THEOREM LoaderCopies == SpecSwapping => []LoadedImage
<1>1. LoadInv => LoadedImage
  BY DEF LoadInv
<1> QED
  BY InitSwapInv, SwapNextStep, InitLoadInv, SwapLoadStep, <1>1, PTL
  DEF SpecSwapping, InitSwapping
=============================================================================
