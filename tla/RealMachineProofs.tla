------------------------ MODULE RealMachineProofs ------------------------
(***************************************************************************)
(* For every size of memory, sector and disk, every content of the disk    *)
(* and every sequence of calls before execCycle is entered:                *)
(* loadProgramImage copies exactly the image or reports failure, what the  *)
(* channel leaves keeps its types, and the processor goes on from there    *)
(* with exact arithmetic.                                                  *)
(***************************************************************************)
EXTENDS RealMachine, RealCPUProofs

-----------------------------------------------------------------------------
\* Sectors and words

LEMMA DivMod ==
  ASSUME NEW n \in Nat, NEW d \in Nat, d > 0
  PROVE  /\ n \div d \in Nat /\ n % d \in 0 .. d - 1
         /\ n = d * (n \div d) + (n % d)
<1>1. n \div d \in Nat
  BY QuotientBounded
<1>. QED BY <1>1, Quotient, Remainder

LEMMA CancelFactor ==
  ASSUME NEW d \in Nat, d > 0, NEW x \in Int, NEW y \in Int, d * x < d * y
  PROVE  x < y
  OBVIOUS

\* A number of words fills whole sectors, and the rest lies within the next.
LEMMA SectorOf ==
  ASSUME NEW d \in Nat, d > 0, NEW n \in Nat, NEW q \in Nat
  PROVE  /\ n < d * (q + 1) => n \div d <= q
         /\ n >= d * q => n \div d >= q
<1> DEFINE x == n \div d
           y == n % d
<1>1. x \in Nat /\ y \in 0 .. d - 1 /\ n = d * x + y
  BY DivMod
<1> HIDE DEF x, y
<1>2. d * x \in Nat /\ d * q \in Nat /\ d * (q + 1) = d * q + d /\ d * (x + 1) = d * x + d
  BY <1>1
<1>3. ASSUME n < d * (q + 1) PROVE x <= q
  <2>1. d * x < d * (q + 1)
    BY <1>1, <1>2, <1>3
  <2>2. x < q + 1
    BY <1>1, <2>1, CancelFactor
  <2>. QED BY <1>1, <2>2
<1>4. ASSUME n >= d * q PROVE x >= q
  <2>1. d * q < d * (x + 1)
    BY <1>1, <1>2, <1>4
  <2>2. q < x + 1
    BY <1>1, <2>1, CancelFactor
  <2>. QED BY <1>1, <2>2
<1>5. /\ n < d * (q + 1) => x <= q
      /\ n >= d * q => x >= q
  BY <1>3, <1>4
<1>. QED BY <1>5 DEF x

LEMMA PlaceOf ==
  ASSUME NEW d \in Nat, d > 0, NEW q \in Nat, NEW r \in 0 .. d - 1
  PROVE  (d * q + r) \div d = q /\ (d * q + r) % d = r
<1> DEFINE n == d * q + r
           x == n \div d
           y == n % d
<1>1. d * q \in Nat /\ d * (q + 1) = d * q + d
  OBVIOUS
<1>2. n \in Nat /\ n < d * (q + 1) /\ n >= d * q
  BY <1>1
<1>3. x \in Nat /\ y \in 0 .. d - 1 /\ n = d * x + y
  BY <1>2, DivMod
<1>4. x <= q /\ x >= q
  BY <1>2, SectorOf
<1>5. x = q
  BY <1>3, <1>4
<1>6. y = r
  <2>1. d * x = d * q
    BY <1>5
  <2>2. d * x + y = d * q + r
    BY <1>3
  <2> HIDE DEF n, x, y
  <2>. QED BY <1>1, <1>3, <2>1, <2>2
<1>. QED BY <1>5, <1>6

LEMMA DiskSizes ==
  /\ NSectors \in Nat /\ NSectors > 0 /\ WordsPerSector \in Nat /\ WordsPerSector > HeaderWords
  /\ HeaderWords = 3
  /\ Storages \subseteq [Sector -> [0 .. WordsPerSector - 1 -> Word]]
  /\ LoadLimit \in Nat /\ LoadLimit < MemorySize
  BY DiskAssumption, Sizes DEF HeaderWords, LoadLimit

LEMMA Ranges ==
  /\ Sector \subseteq Nat /\ 0 .. NSectors \subseteq Nat /\ Address \subseteq Nat
  /\ \A w \in Word : w \in Nat /\ w < WordSize
  /\ \A n \in Nat : readDisk(n) <=> n \in Sector
  BY DiskSizes, Sizes DEF Sector, Address, Word, readDisk

-----------------------------------------------------------------------------
\* The types

\* Without a latched interrupt these are the types of the processor.
LEMMA TypesOfCPU ==
  ASSUME MachineTypeOK, ~interrupted
  PROVE  CPUInv
  BY DEF MachineTypeOK, interrupted, CPUInv, TypeOK, UserLatch

LEMMA InitMachineInv == InitMachine => MachineInv
<1>. SUFFICES ASSUME InitMachine PROVE MachineInv
  OBVIOUS
<1>1. /\ IC \in 0 .. MemorySize /\ R \in [0 .. 7 -> Word] /\ SF = {} /\ MODE \in Modes
      /\ PI = "NONE" /\ SI = "NONE" /\ TI = "NONE" /\ ticks \in 0 .. TickLimit - 1
  BY Sizes, WordsAreNumbers, TickAssumption DEF InitMachine, Reset
<1>2. cells \in [Address -> Word]
  BY ImagesAssumption DEF InitMachine, Reset
<1>3. storage \in [Sector -> [0 .. WordsPerSector - 1 -> Word]] /\ calls \in 0 .. MaxCalls
  BY DiskSizes, WordsAreNumbers, CallsAssumption DEF InitMachine, EmptyDisk
<1>4. /\ 0 \in Sector /\ 0 \in Word /\ 0 \in Address
      /\ 0 \in 0 .. NSectors /\ 0 \in 0 .. WordsPerSector
  BY DiskSizes, Sizes, WordsAreNumbers DEF Sector, Address
<1>5. /\ image = NoImage /\ phase = "setup" /\ ~running
      /\ running \in BOOLEAN /\ loaded \in BOOLEAN
  BY DEF InitMachine
<1>6. MachineTypeOK
  BY <1>1, <1>2, <1>3, <1>4, <1>5 DEF MachineTypeOK, NoImage
<1>. QED BY <1>5, <1>6 DEF MachineInv, LoadSound

\* What a call of the channel leaves in the memory: words.
LEMMA MovedTyped ==
  ASSUME MachineTypeOK, NEW t,
         t.SB \in Nat, t.DB \in Nat, t.COUNT \in Nat,
         Between(t, "DISK", "SUPER_MEM") \/ t.SB + t.COUNT <= MemorySize
  PROVE  Moved(t) \in [Address -> Word]
<1>1. cells \in [Address -> Word] /\ storage \in [Sector -> [0 .. WordsPerSector - 1 -> Word]]
  BY DEF MachineTypeOK
<1>2. ASSUME t.SB + t.COUNT <= MemorySize PROVE Copied(t) \in [Address -> Word]
  <2> DEFINE shift == t.DB - t.SB
             Source(i) == IF shift > 0 THEN t.SB + (i % shift) ELSE t.SB + i
  <2>1. ASSUME NEW a \in Address, a \in t.DB .. t.DB + t.COUNT - 1
        PROVE  Source(a - t.DB) \in Address
    <3> DEFINE i == a - t.DB
    <3>1. i \in Nat /\ i < t.COUNT /\ shift \in Int
      BY <2>1
    <3> HIDE DEF i, shift
    <3>2. shift > 0 => i % shift \in Nat /\ i % shift <= i
      <4>1. ASSUME shift > 0 PROVE i % shift \in Nat /\ i % shift <= i
        <5>1. /\ i \div shift \in Nat /\ i % shift \in 0 .. shift - 1
              /\ i = shift * (i \div shift) + (i % shift)
          BY <3>1, <4>1, DivMod
        <5>2. shift * (i \div shift) \in Nat
          BY <3>1, <4>1, <5>1
        <5>. QED BY <3>1, <5>1, <5>2
      <4>. QED BY <4>1
    <3>3. Source(i) \in Nat /\ Source(i) < t.SB + t.COUNT
      BY <3>1, <3>2
    <3>4. Source(i) \in Address
      BY <1>2, <3>3, Sizes DEF Address
    <3>. QED BY <3>4 DEF i
  <2>2. Copied(t) = [a \in Address |->
          IF a \in t.DB .. t.DB + t.COUNT - 1 THEN cells[Source(a - t.DB)] ELSE cells[a]]
    BY DEF Copied
  <2> HIDE DEF Source
  <2>. QED BY <1>1, <2>1, <2>2
<1>3. FromDisk(t) \in [Address -> Word]
  <2>1. ASSUME NEW a \in Address, a \in t.DB .. t.DB + t.COUNT - 1
        PROVE  diskReadWord(t.SB + a - t.DB) \in Word
    <3>1. t.SB + a - t.DB \in Nat
      BY <2>1
    <3>. QED BY <1>1, <3>1, DiskSizes, WordsAreNumbers DEF diskReadWord, readDisk, Sector
  <2>. QED BY <1>1, <2>1 DEF FromDisk
<1>4. CASE Between(t, "DISK", "SUPER_MEM")
  BY <1>3, <1>4 DEF Moved, Between
<1>5. CASE ~Between(t, "DISK", "SUPER_MEM")
  BY <1>1, <1>2, <1>5 DEF Moved
<1>. QED BY <1>4, <1>5

LEMMA ChannelStep ==
  ASSUME MachineInv, NEW t, channelXCHG(t),
         t.SB \in Nat, t.DB \in Nat, t.COUNT \in Nat,
         Between(t, "DISK", "SUPER_MEM") \/ t.SB + t.COUNT <= MemorySize
  PROVE  MachineInv'
<1>1. MachineTypeOK
  BY DEF MachineInv
<1>2. cells' \in [Address -> Word]
  BY <1>1, MovedTyped DEF channelXCHG
<1>3. SI' \in {"NONE", "READ", "WRITE", "HALT", "SYS"}
  BY <1>1 DEF channelXCHG, Latched, MachineTypeOK
<1>4. PI' \in {"NONE", "INVALID_OPCODE", "INVALID_ADDRESS", "DIVZERO", "OVERFLOW"}
  BY <1>1 DEF channelXCHG, MachineTypeOK
<1>5. R' \in [0 .. 7 -> Word]
  BY <1>1, CallsAssumption DEF channelXCHG, MachineTypeOK
<1>6. calls' \in 0 .. MaxCalls /\ phase = "setup" /\ phase' = phase
  BY <1>1, CallsAssumption DEF channelXCHG, Called, MachineTypeOK
<1>7. UNCHANGED <<IC, SF, MODE, TI, ticks, running, storage, image, loaded>>
  BY DEF channelXCHG, Called
<1>8. MachineTypeOK'
  BY <1>1, <1>2, <1>3, <1>4, <1>5, <1>6, <1>7 DEF MachineTypeOK
<1>. QED BY <1>6, <1>8 DEF MachineInv, LoadSound

LEMMA FacadeStep ==
  ASSUME MachineInv, IOwrite \/ IOcheckInterrupts
  PROVE  MachineInv'
<1>1. MachineTypeOK
  BY DEF MachineInv
<1>2. calls' \in 0 .. MaxCalls /\ phase = "setup" /\ SI' \in {"WRITE", "NONE"}
  BY <1>1, CallsAssumption DEF IOwrite, IOcheckInterrupts, Called, MachineTypeOK
<1>3. UNCHANGED <<IC, R, SF, MODE, PI, TI, cells, ticks, running, storage, phase, image, loaded>>
  BY DEF IOwrite, IOcheckInterrupts, Called
<1>4. MachineTypeOK'
  BY <1>1, <1>2, <1>3 DEF MachineTypeOK
<1>. QED BY <1>2, <1>3, <1>4 DEF MachineInv, LoadSound

LEMMA EnterStep ==
  ASSUME MachineInv, Enter
  PROVE  MachineInv'
<1>1. MachineTypeOK'
  BY DEF Enter, latches, MachineInv, MachineTypeOK
<1>. QED BY <1>1 DEF Enter, MachineInv, LoadSound

\* The processor finds its types as it keeps them, once nothing is latched.
LEMMA ExecuteStep ==
  ASSUME MachineInv, Execute
  PROVE  MachineInv'
<1>1. MachineTypeOK /\ phase = "entered" /\ Next /\ UNCHANGED setupVars
  BY DEF MachineInv, Execute
<1>2. UNCHANGED <<phase, storage, image, loaded, calls>>
  BY <1>1 DEF setupVars
<1>3. CASE ~interrupted
  <2>1. TypeOK'
    BY <1>1, <1>3, TypesOfCPU, NextCPUInv DEF CPUInv
  <2>2. MachineTypeOK'
    BY <1>1, <1>2, <2>1 DEF MachineTypeOK, TypeOK
  <2>. QED BY <1>1, <1>2, <2>2 DEF MachineInv, LoadSound
<1>4. CASE interrupted
  <2>1. ClearLatches \/ Stop \/ Stopped
    BY <1>1, <1>4 DEF Next, FetchFault, DecodeFault, LoadImmediate, LoadMemory, StoreMemory,
         InvalidMode, Arithmetic, Divide, Compare, Jump, Privileged, NoOperation,
         SystemCall, Executed, Fetched
  <2>2. MachineTypeOK'
    BY <1>1, <1>2, <2>1 DEF MachineTypeOK, ClearLatches, Stop, Stopped, latches, cpuVars
  <2>. QED BY <1>1, <1>2, <2>2 DEF MachineInv, LoadSound
<1>. QED BY <1>3, <1>4

-----------------------------------------------------------------------------
\* loadProgramImage

\* What the loop may rely on.
LEMMA LoadFacts ==
  ASSUME MachineInv, phase = "loading"
  PROVE  /\ cells \in [Address -> Word]
         /\ storage \in [Sector -> [0 .. WordsPerSector - 1 -> Word]]
         /\ image.start \in Nat /\ image.sector \in Nat /\ image.loadAddress \in Nat
         /\ image.wordCount \in Nat /\ image.wordCount < WordSize
         /\ image.entryOffset \in Nat /\ image.wordsLoaded \in Nat
         /\ image.index \in 0 .. WordsPerSector
         /\ image.sector - image.start \in Nat
         /\ image.loadAddress + image.wordCount <= MemorySize
<1>1. MachineTypeOK /\ LoadSound
  BY DEF MachineInv
<1>2. /\ cells \in [Address -> Word]
      /\ storage \in [Sector -> [0 .. WordsPerSector - 1 -> Word]]
      /\ image.start \in Nat /\ image.sector \in Nat /\ image.loadAddress \in Nat
      /\ image.wordCount \in Nat /\ image.wordCount < WordSize
      /\ image.entryOffset \in Nat /\ image.wordsLoaded \in Nat
      /\ image.index \in 0 .. WordsPerSector
  <2>1. /\ cells \in [Address -> Word]
        /\ storage \in [Sector -> [0 .. WordsPerSector - 1 -> Word]]
        /\ image.start \in Sector /\ image.sector \in 0 .. NSectors
        /\ image.loadAddress \in Address /\ image.index \in 0 .. WordsPerSector
        /\ image.wordCount \in Word /\ image.entryOffset \in Word
        /\ image.wordsLoaded \in Word
    BY <1>1 DEF MachineTypeOK
  <2>. QED BY <2>1, Ranges
<1>3. image.start <= image.sector /\ address_fits(image.loadAddress, image.wordCount)
  BY <1>1 DEF LoadSound
<1>4. image.sector - image.start \in Nat
  BY <1>2, <1>3
<1>5. image.loadAddress + image.wordCount <= MemorySize
  BY <1>2, <1>3, DiskSizes, Sizes DEF address_fits
<1>. QED BY <1>2, <1>4, <1>5

LEMMA StartStep ==
  ASSUME MachineInv, NEW s \in 0 .. NSectors, NEW a \in Places, loadProgramImage(s, a)
  PROVE  MachineInv'
<1>1. MachineTypeOK
  BY DEF MachineInv
<1>2. calls' \in 0 .. MaxCalls /\ phase = "setup"
  BY <1>1, CallsAssumption DEF loadProgramImage, Called, MachineTypeOK
<1>3. UNCHANGED <<IC, R, SF, MODE, PI, SI, TI, cells, ticks, running, storage>>
  BY DEF loadProgramImage, Called
<1>4. CASE ~Acceptable(s, a)
  <2>1. UNCHANGED <<phase, image>> /\ loaded' = FALSE
    BY <1>4 DEF loadProgramImage
  <2>2. MachineTypeOK'
    BY <1>1, <1>2, <1>3, <2>1 DEF MachineTypeOK
  <2>. QED BY <1>2, <2>1, <2>2 DEF MachineInv, LoadSound
<1>5. CASE Acceptable(s, a)
  <2>1. /\ phase' = "loading" /\ loaded' = loaded
        /\ image' = [start |-> s, wordCount |-> Header(s, 0), entryOffset |-> Header(s, 1),
                     loadAddress |-> a, sector |-> s, index |-> HeaderWords,
                     wordsLoaded |-> 0, before |-> cells]
    BY <1>5 DEF loadProgramImage
  <2>2. /\ s \in Sector /\ a \in Address /\ readDisk(s)
        /\ address_fits(a, Header(s, 0)) /\ Header(s, 1) < Header(s, 0)
    BY <1>5, DiskSizes, CallsAssumption DEF Acceptable, readDisk, Sector
  <2>3. Header(s, 0) \in Word /\ Header(s, 1) \in Word
    <3>1. storage[s] \in [0 .. WordsPerSector - 1 -> Word]
      BY <1>1, <2>2 DEF MachineTypeOK
    <3>2. 0 \in 0 .. WordsPerSector - 1 /\ 1 \in 0 .. WordsPerSector - 1
      BY DiskSizes
    <3>. QED BY <3>1, <3>2 DEF Header
  <2>4. 0 \in Word /\ HeaderWords \in 0 .. WordsPerSector /\ s \in Nat /\ Header(s, 0) \in Nat
    <3>1. HeaderWords \in 0 .. WordsPerSector
      BY DiskSizes
    <3>. QED BY <2>2, <2>3, <3>1, Ranges, WordsAreNumbers
  <2>5. MachineTypeOK'
    <3>1. cells \in [Address -> Word] /\ ~running /\ loaded \in BOOLEAN
      BY <1>1, <1>2 DEF MachineTypeOK
    <3>2. image' \in [start : Sector, wordCount : Word, entryOffset : Word,
                      loadAddress : Address, sector : 0 .. NSectors,
                      index : 0 .. WordsPerSector, wordsLoaded : Word,
                      before : [Address -> Word]]
      BY <2>1, <2>2, <2>3, <2>4, <3>1
    <3>. QED BY <1>1, <1>2, <1>3, <2>1, <3>1, <3>2 DEF MachineTypeOK
  <2>6. LoadSound'
    <3>1. WordsPerSector * (s - s) + HeaderWords = HeaderWords + 0
      BY <2>4, DiskSizes
    <3>2. \A b \in Address : cells'[b] = image'.before[b]
      BY <1>3, <2>1
    <3>3. /\ image'.wordsLoaded = 0 /\ image'.sector = s /\ image'.start = s
          /\ image'.index = HeaderWords /\ image'.loadAddress = a
          /\ image'.wordCount = Header(s, 0) /\ image'.entryOffset = Header(s, 1)
      BY <2>1
    <3>4. readDisk(image'.sector) /\ address_fits(image'.loadAddress, image'.wordCount)
      BY <2>2, <3>3
    <3>. QED BY <2>2, <2>4, <3>1, <3>2, <3>3, <3>4 DEF LoadSound
  <2>. QED BY <2>5, <2>6 DEF MachineInv
<1>. QED BY <1>4, <1>5

\* The word that the loop reads is the next of the image.
LEMMA WordOfImage ==
  ASSUME MachineInv, MoreWords, image.index < WordsPerSector
  PROVE  /\ storage[image.sector][image.index] = ImageWord(image.wordsLoaded)
         /\ storage[image.sector][image.index] \in Word
<1> DEFINE q == image.sector - image.start
           r == image.index
<1>1. phase = "loading"
  BY DEF MoreWords
<1>2. q \in Nat /\ r \in 0 .. WordsPerSector - 1 /\ image.start + q = image.sector
  BY <1>1, LoadFacts, DiskSizes
<1>3. WordsPerSector * q + r = HeaderWords + image.wordsLoaded
  BY <1>1 DEF MachineInv, LoadSound
<1>4. readDisk(image.sector)
  BY <1>1 DEF MachineInv, LoadSound
<1> HIDE DEF q, r
<1>5. /\ (HeaderWords + image.wordsLoaded) \div WordsPerSector = q
      /\ (HeaderWords + image.wordsLoaded) % WordsPerSector = r
  <2>1. WordsPerSector \in Nat /\ WordsPerSector > 0
    BY DiskSizes
  <2>2. /\ (WordsPerSector * q + r) \div WordsPerSector = q
        /\ (WordsPerSector * q + r) % WordsPerSector = r
    BY <1>2, <2>1, PlaceOf
  <2>. QED BY <1>3, <2>2
<1>6. storage[image.sector][r] = ImageWord(image.wordsLoaded)
  BY <1>2, <1>5 DEF ImageWord
<1>7. storage[image.sector][r] \in Word
  <2>1. image.sector \in Sector
    BY <1>1, <1>4, LoadFacts, Ranges
  <2>2. storage[image.sector] \in [0 .. WordsPerSector - 1 -> Word]
    BY <1>1, <2>1, LoadFacts
  <2>. QED BY <1>2, <2>2
<1>. QED BY <1>6, <1>7 DEF r

LEMMA LoadWordStep ==
  ASSUME MachineInv, LoadImageWord
  PROVE  MachineInv'
<1> DEFINE here == image.loadAddress
           n == image.wordsLoaded
           word == storage[image.sector][image.index]
<1>1. MachineTypeOK /\ LoadSound /\ phase = "loading" /\ MoreWords
  BY DEF LoadImageWord, MoreWords, MachineInv
<1>2. /\ n \in Nat /\ n < image.wordCount /\ here \in Nat /\ here + n \in Address
      /\ image.index \in 0 .. WordsPerSector - 1
  <2>1. /\ n \in Nat /\ n < image.wordCount /\ here \in Nat /\ image.wordCount \in Nat
        /\ here + image.wordCount <= MemorySize
        /\ image.index \in 0 .. WordsPerSector /\ image.index < WordsPerSector
    BY <1>1, LoadFacts DEF LoadImageWord, MoreWords
  <2> HIDE DEF here, n
  <2>2. here + n \in Address
    BY <2>1, Sizes DEF Address
  <2>. QED BY <2>1, <2>2, DiskSizes
<1>3. word = ImageWord(n) /\ word \in Word
  BY <1>1, WordOfImage DEF LoadImageWord
<1>4. /\ cells' = [cells EXCEPT ![here + n] = word]
      /\ image' = [image EXCEPT !.wordsLoaded = @ + 1, !.index = @ + 1]
  BY DEF LoadImageWord
<1>5. UNCHANGED <<IC, R, SF, MODE, PI, SI, TI, ticks, running, phase, storage, loaded, calls>>
  BY DEF LoadImageWord, latches
<1>6. /\ image'.wordsLoaded = n + 1 /\ image'.index = image.index + 1
      /\ image'.loadAddress = here /\ image'.wordCount = image.wordCount
      /\ image'.entryOffset = image.entryOffset /\ image'.start = image.start
      /\ image'.sector = image.sector /\ image'.before = image.before
  BY <1>1, <1>4 DEF MachineTypeOK
<1>7. MachineTypeOK'
  <2>1. n + 1 \in Word /\ image.index + 1 \in 0 .. WordsPerSector
    <3>1. n \in Nat /\ image.wordCount \in Nat /\ n < image.wordCount
          /\ image.wordCount < WordSize
      BY <1>1, <1>2, LoadFacts
    <3> HIDE DEF n
    <3>2. n + 1 \in Word
      BY <3>1, Sizes DEF Word
    <3>. QED BY <1>2, <3>2, DiskSizes
  <2>2. image' \in [start : Sector, wordCount : Word, entryOffset : Word,
                    loadAddress : Address, sector : 0 .. NSectors,
                    index : 0 .. WordsPerSector, wordsLoaded : Word,
                    before : [Address -> Word]]
    BY <1>1, <1>4, <2>1 DEF MachineTypeOK
  <2>3. cells' \in [Address -> Word]
    BY <1>1, <1>3, <1>4 DEF MachineTypeOK
  <2>. QED BY <1>1, <1>5, <2>2, <2>3 DEF MachineTypeOK
<1>8. \A i \in Nat : ImageWord(i)' = ImageWord(i)
  BY <1>5, <1>6 DEF ImageWord
<1>9. /\ cells'[here + n] = word
      /\ \A a \in Address : a # here + n => cells'[a] = cells[a]
  BY <1>1, <1>2, <1>4 DEF MachineTypeOK
<1> HIDE DEF here, n, word
<1>10. \A i \in 0 .. n : cells'[here + i] = ImageWord(i)
  <2>1. \A i \in 0 .. n - 1 : cells[here + i] = ImageWord(i)
    BY <1>1 DEF LoadSound, here, n
  <2>2. \A i \in 0 .. n - 1 : here + i \in Address /\ here + i # here + n
    BY <1>2, Sizes DEF Address
  <2>3. \A i \in 0 .. n : i = n \/ i \in 0 .. n - 1
    BY <1>2
  <2>. QED BY <1>3, <1>9, <2>1, <2>2, <2>3
<1>11. \A a \in Address \ (here .. here + n) : cells'[a] = image.before[a]
  <2>1. \A a \in Address \ (here .. here + n - 1) : cells[a] = image.before[a]
    BY <1>1 DEF LoadSound, here, n
  <2>2. \A a \in Address \ (here .. here + n) :
          a # here + n /\ a \in Address \ (here .. here + n - 1)
    BY <1>2, Ranges
  <2>. QED BY <1>9, <2>1, <2>2
<1>12. /\ n + 1 - 1 = n /\ here + (n + 1) - 1 = here + n /\ n + 1 <= image.wordCount
  BY <1>1, <1>2, LoadFacts
<1>13. WordsPerSector * (image.sector - image.start) + (image.index + 1)
         = HeaderWords + (n + 1)
  <2> DEFINE passed == WordsPerSector * (image.sector - image.start)
  <2>1. passed + image.index = HeaderWords + n
    BY <1>1 DEF LoadSound, n
  <2>2. passed \in Int /\ image.index \in Int
    BY <1>1, <1>2, LoadFacts, DiskSizes
  <2> HIDE DEF passed
  <2>3. passed + (image.index + 1) = HeaderWords + (n + 1)
    BY <1>2, <2>1, <2>2, DiskSizes
  <2>. QED BY <2>3 DEF passed
<1>14. /\ address_fits(here, image.wordCount) /\ image.entryOffset < image.wordCount
       /\ image.start <= image.sector /\ readDisk(image.sector)
  BY <1>1 DEF LoadSound, here
<1>15. \A i \in 0 .. n : cells'[here + i] = ImageWord(i)'
  BY <1>2, <1>8, <1>10
<1>16. LoadSound'
  <2>1. \A i \in 0 .. n + 1 - 1 : cells'[here + i] = ImageWord(i)'
    BY <1>12, <1>15
  <2>2. \A a \in Address \ (here .. here + (n + 1) - 1) : cells'[a] = image.before[a]
    BY <1>11, <1>12
  <2>3. /\ \A i \in 0 .. image'.wordsLoaded - 1 : cells'[image'.loadAddress + i] = ImageWord(i)'
        /\ \A a \in Address \ (image'.loadAddress .. image'.loadAddress + image'.wordsLoaded - 1) :
             cells'[a] = image'.before[a]
    BY <1>2, <1>6, <2>1, <2>2
  <2>4. /\ image'.wordsLoaded <= image'.wordCount
        /\ WordsPerSector * (image'.sector - image'.start) + image'.index
              = HeaderWords + image'.wordsLoaded
        /\ address_fits(image'.loadAddress, image'.wordCount)
        /\ image'.entryOffset < image'.wordCount
        /\ image'.start <= image'.sector /\ readDisk(image'.sector)
    BY <1>6, <1>12, <1>13, <1>14
  <2>. QED BY <2>3, <2>4 DEF LoadSound
<1>. QED BY <1>7, <1>16 DEF MachineInv

\* Where the loop is at the end of a sector.
LEMMA AtSectorsEnd ==
  ASSUME MachineInv, LoadImageSector
  PROVE  /\ image.sector + 1 - image.start \in Nat
         /\ WordsPerSector * (image.sector + 1 - image.start) = HeaderWords + image.wordsLoaded
<1> DEFINE q == image.sector - image.start
<1>1. phase = "loading" /\ image.index = WordsPerSector
  BY DEF LoadImageSector, MoreWords
<1>2. WordsPerSector * q + WordsPerSector = HeaderWords + image.wordsLoaded
  BY <1>1 DEF MachineInv, LoadSound
<1>3. q \in Nat /\ image.sector + 1 - image.start = q + 1
  BY <1>1, LoadFacts
<1> HIDE DEF q
<1>4. WordsPerSector * (q + 1) = WordsPerSector * q + WordsPerSector
  BY <1>3, DiskSizes
<1>. QED BY <1>2, <1>3, <1>4

LEMMA LoadSectorStep ==
  ASSUME MachineInv, LoadImageSector
  PROVE  MachineInv'
<1>1. MachineTypeOK /\ LoadSound /\ phase = "loading"
  BY DEF LoadImageSector, MoreWords, MachineInv
<1>2. UNCHANGED <<IC, R, SF, MODE, PI, SI, TI, cells, ticks, running, storage, calls>>
  BY DEF LoadImageSector, cpuVars
<1>3. /\ image'.sector = image.sector + 1 /\ image'.index = 0
      /\ image'.wordsLoaded = image.wordsLoaded
      /\ image'.loadAddress = image.loadAddress /\ image'.wordCount = image.wordCount
      /\ image'.entryOffset = image.entryOffset /\ image'.start = image.start
      /\ image'.before = image.before
  BY <1>1 DEF LoadImageSector, MachineTypeOK
<1>4. MachineTypeOK'
  <2>1. image.sector + 1 \in 0 .. NSectors /\ 0 \in 0 .. WordsPerSector
    <3>1. image.sector \in Nat /\ image.sector < NSectors
      BY <1>1, LoadFacts DEF LoadSound, readDisk
    <3>. QED BY <3>1, DiskSizes
  <2>2. image' \in [start : Sector, wordCount : Word, entryOffset : Word,
                    loadAddress : Address, sector : 0 .. NSectors,
                    index : 0 .. WordsPerSector, wordsLoaded : Word,
                    before : [Address -> Word]]
    BY <1>1, <2>1 DEF LoadImageSector, MachineTypeOK
  <2>3. phase' \in {"setup", "loading"} /\ loaded' \in BOOLEAN
    BY <1>1 DEF LoadImageSector, MachineTypeOK
  <2>. QED BY <1>1, <1>2, <2>2, <2>3 DEF MachineTypeOK
<1>5. CASE ~readDisk(image.sector + 1)
  BY <1>4, <1>5 DEF LoadImageSector, MachineInv, LoadSound
<1>6. CASE readDisk(image.sector + 1)
  <2>1. WordsPerSector * (image'.sector - image'.start) + image'.index
          = HeaderWords + image'.wordsLoaded
    <3>1. WordsPerSector * (image.sector + 1 - image.start) = HeaderWords + image.wordsLoaded
      BY AtSectorsEnd
    <3>2. HeaderWords + image.wordsLoaded \in Nat
      BY <1>1, LoadFacts, DiskSizes
    <3>3. WordsPerSector * (image.sector + 1 - image.start) + 0
            = HeaderWords + image.wordsLoaded
      BY <3>1, <3>2
    <3>4. image'.sector - image'.start = image.sector + 1 - image.start
      BY <1>1, <1>3, LoadFacts
    <3>. QED BY <1>3, <3>3, <3>4
  <2>2. \A i \in Nat : ImageWord(i)' = ImageWord(i)
    BY <1>2, <1>3 DEF ImageWord
  <2>3. \A i \in 0 .. image'.wordsLoaded - 1 :
          cells'[image'.loadAddress + i] = ImageWord(i)'
    <3>1. \A i \in 0 .. image.wordsLoaded - 1 :
            i \in Nat /\ cells[image.loadAddress + i] = ImageWord(i)
      BY <1>1, LoadFacts DEF LoadSound
    <3>. QED BY <1>2, <1>3, <2>2, <3>1
  <2>4. \A a \in Address \ (image'.loadAddress .. image'.loadAddress + image'.wordsLoaded - 1) :
          cells'[a] = image'.before[a]
    BY <1>1, <1>2, <1>3 DEF LoadSound
  <2>5. image'.start <= image'.sector
    BY <1>1, <1>3, LoadFacts
  <2>6. /\ image'.wordsLoaded <= image'.wordCount
        /\ address_fits(image'.loadAddress, image'.wordCount)
        /\ image'.entryOffset < image'.wordCount /\ readDisk(image'.sector)
    BY <1>1, <1>3, <1>6 DEF LoadSound
  <2>. QED BY <1>4, <2>1, <2>3, <2>4, <2>5, <2>6 DEF MachineInv, LoadSound
<1>. QED BY <1>5, <1>6

LEMMA LoadDoneStep ==
  ASSUME MachineInv, LoadImageDone
  PROVE  MachineInv'
<1>1. MachineTypeOK /\ LoadSound /\ phase = "loading"
  BY DEF LoadImageDone, MachineInv
<1>2. image.loadAddress + image.entryOffset \in 0 .. MemorySize
  <2>1. image.entryOffset < image.wordCount
    BY <1>1 DEF LoadSound
  <2>. QED BY <1>1, <2>1, LoadFacts, Sizes
<1>3. MachineTypeOK'
  BY <1>1, <1>2 DEF LoadImageDone, latches, MachineTypeOK
<1>. QED BY <1>3 DEF LoadImageDone, MachineInv, LoadSound

LEMMA NextMachineInv == MachineInv /\ [NextMachine]_machineVars => MachineInv'
<1>. SUFFICES ASSUME MachineInv, [NextMachine]_machineVars PROVE MachineInv'
  OBVIOUS
<1>1. ASSUME NEW t \in Transfers, channelXCHG(t) PROVE MachineInv'
  BY <1>1, TransfersAssumption, ChannelStep
<1>2. ASSUME NEW s \in 0 .. NSectors, NEW a \in Places, NEW n \in 0 .. 2, IOread(s, a, n)
      PROVE  MachineInv'
  <2> DEFINE t == [ST |-> "DISK", SB |-> s, DT |-> "SUPER_MEM", DB |-> a, COUNT |-> n]
  <2>1. channelXCHG(t)
    BY <1>2 DEF IOread
  <2>2. /\ t.SB \in Nat /\ t.DB \in Nat /\ t.COUNT \in Nat
        /\ Between(t, "DISK", "SUPER_MEM")
    BY CallsAssumption, Ranges DEF Between
  <2>. QED BY <2>1, <2>2, ChannelStep
<1>3. CASE IOwrite \/ IOcheckInterrupts
  BY <1>3, FacadeStep
<1>4. ASSUME NEW s \in 0 .. NSectors, NEW a \in Places, loadProgramImage(s, a)
      PROVE  MachineInv'
  BY <1>4, StartStep
<1>5. CASE LoadImageWord \/ LoadImageSector \/ LoadImageDone
  BY <1>5, LoadWordStep, LoadSectorStep, LoadDoneStep
<1>6. CASE Enter \/ Execute
  BY <1>6, EnterStep, ExecuteStep
<1>7. CASE UNCHANGED machineVars
  BY <1>7 DEF machineVars, cpuVars, setupVars, MachineInv, MachineTypeOK, LoadSound, ImageWord
<1>. QED BY <1>1, <1>2, <1>3, <1>4, <1>5, <1>6, <1>7 DEF NextMachine

\* Whatever the callers ask for before execCycle, registers, latches and memory keep
\* their types, and a load that is under way has copied exactly the words it has
\* passed (channel_device.c:27-84, loader.c:170-239).
THEOREM MachineInvariance == SpecMachine => []MachineInv
  BY InitMachineInv, NextMachineInv, PTL DEF SpecMachine

-----------------------------------------------------------------------------
\* The verdict of a load

Verdict ==
  LET place == image.loadAddress .. image.loadAddress + image.wordCount - 1 IN
  /\ loaded' <=> ImageOnDisk
  /\ \A a \in Address \ place : cells'[a] = image.before[a]
  /\ IF loaded'
     THEN /\ \A a \in place : cells'[a] = ImageWord(a - image.loadAddress)
          /\ IC' = image.loadAddress + image.entryOffset
     ELSE IC' = IC

\* The last word of an image lies before the end of the sector that its copy has
\* come to.
LEMMA LastPassed ==
  ASSUME NEW header \in Nat, header > 0, NEW n \in Nat, NEW passed \in Nat,
         NEW size \in Nat, NEW i \in 0 .. size, passed + i = header + n
  PROVE  header + n - 1 \in Nat /\ header + n - 1 < passed + size
OBVIOUS

LEMMA DoneVerdict ==
  ASSUME MachineInv, LoadImageDone
  PROVE  Verdict
<1> DEFINE here == image.loadAddress
           n == image.wordCount
           q == image.sector - image.start
           last == HeaderWords + n - 1
<1>1. /\ phase = "loading" /\ ~(image.wordsLoaded < n)
      /\ loaded' = TRUE /\ IC' = here + image.entryOffset /\ cells' = cells
  BY DEF LoadImageDone, MoreWords
<1>2. LoadSound
  BY DEF MachineInv
<1>3. /\ here \in Nat /\ n \in Nat /\ image.wordsLoaded = n /\ q \in Nat /\ q \in Int
      /\ image.start \in Nat /\ image.start + q = image.sector
      /\ image.index \in 0 .. WordsPerSector
  BY <1>1, <1>2, LoadFacts DEF LoadSound
<1>4. WordsPerSector * q + image.index = HeaderWords + n
  BY <1>1, <1>2, <1>3 DEF LoadSound
<1> HIDE DEF q
<1>5. WordsPerSector * q \in Nat /\ WordsPerSector * (q + 1) = WordsPerSector * q + WordsPerSector
  BY <1>3, DiskSizes
<1>6. last \in Nat /\ last < WordsPerSector * (q + 1)
  <2> DEFINE passed == WordsPerSector * q
             ahead == WordsPerSector * (q + 1)
  <2>1. /\ passed \in Nat /\ ahead = passed + WordsPerSector
        /\ passed + image.index = HeaderWords + n
    BY <1>4, <1>5
  <2> HIDE DEF passed, ahead
  <2>2. n \in Nat /\ image.index \in 0 .. WordsPerSector
    BY <1>3
  <2>3. HeaderWords \in Nat /\ HeaderWords > 0 /\ WordsPerSector \in Nat
    BY DiskSizes
  <2> HIDE DEF n
  <2>4. last \in Nat /\ last < passed + WordsPerSector
    BY <2>1, <2>2, <2>3, LastPassed
  <2>. QED BY <2>1, <2>4 DEF ahead
<1>7. last \div WordsPerSector \in Nat /\ last \div WordsPerSector <= q
  <2>1. WordsPerSector \in Nat /\ WordsPerSector > 0
    BY DiskSizes
  <2> HIDE DEF last
  <2>. QED BY <1>3, <1>6, <2>1, SectorOf, DivMod
<1>8. ImageOnDisk
  <2>1. image.start + last \div WordsPerSector < NSectors
    <3>1. image.sector < NSectors
      BY <1>1, <1>2 DEF LoadSound, readDisk
    <3> HIDE DEF last
    <3>. QED BY <1>3, <1>7, <3>1, DiskSizes
  <2>. QED BY <2>1 DEF ImageOnDisk
<1>9. \A a \in Address \ (here .. here + n - 1) : cells'[a] = image.before[a]
  BY <1>1, <1>2, <1>3 DEF LoadSound
<1>10. \A a \in here .. here + n - 1 : cells'[a] = ImageWord(a - here)
  <2>1. \A i \in 0 .. n - 1 : cells[here + i] = ImageWord(i)
    BY <1>1, <1>2, <1>3 DEF LoadSound
  <2>2. \A a \in here .. here + n - 1 : a - here \in 0 .. n - 1 /\ here + (a - here) = a
    BY <1>3
  <2>. QED BY <1>1, <2>1, <2>2
<1>. QED BY <1>1, <1>8, <1>9, <1>10 DEF Verdict

LEMMA CutVerdict ==
  ASSUME MachineInv, LoadImageSector, phase' = "setup"
  PROVE  Verdict
<1> DEFINE here == image.loadAddress
           n == image.wordCount
           q == image.sector + 1 - image.start
           last == HeaderWords + n - 1
<1>1. /\ phase = "loading" /\ image.wordsLoaded < n
      /\ ~readDisk(image.sector + 1) /\ loaded' = FALSE
      /\ cells' = cells /\ IC' = IC
  BY DEF LoadImageSector, MoreWords, cpuVars
<1>2. LoadSound
  BY DEF MachineInv
<1>3. /\ here \in Nat /\ n \in Nat /\ image.wordsLoaded \in Nat
      /\ image.start \in Nat /\ image.sector \in Nat
  BY <1>1, LoadFacts
<1>4. q \in Nat /\ WordsPerSector * q = HeaderWords + image.wordsLoaded
  BY AtSectorsEnd
<1>5. image.start + q = image.sector + 1
  BY <1>3
<1> HIDE DEF q
<1>6. last \in Nat /\ last >= WordsPerSector * q
  BY <1>1, <1>3, <1>4, DiskSizes
<1>7. last \div WordsPerSector \in Nat /\ last \div WordsPerSector >= q
  BY <1>4, <1>6, SectorOf, DivMod, DiskSizes
<1>8. ~ImageOnDisk
  <2>1. ~(image.start + last \div WordsPerSector < NSectors)
    <3>1. image.sector + 1 >= NSectors
      BY <1>1, <1>3, DiskSizes DEF readDisk
    <3> HIDE DEF last
    <3>. QED BY <1>3, <1>4, <1>5, <1>7, <3>1, DiskSizes
  <2>. QED BY <2>1 DEF ImageOnDisk
<1>9. \A a \in Address \ (here .. here + n - 1) : cells'[a] = image.before[a]
  <2>1. \A a \in Address \ (here .. here + image.wordsLoaded - 1) : cells[a] = image.before[a]
    BY <1>2, <1>1 DEF LoadSound
  <2>2. \A a \in Address \ (here .. here + n - 1) :
          a \in Address \ (here .. here + image.wordsLoaded - 1)
    BY <1>1, <1>3, Ranges
  <2>. QED BY <1>1, <2>1, <2>2
<1>. QED BY <1>1, <1>8, <1>9 DEF Verdict

\* Only the end of the loop leaves it.
LEMMA LoadEnds ==
  ASSUME [NextMachine]_machineVars, phase = "loading", phase' = "setup"
  PROVE  LoadImageSector \/ LoadImageDone
<1>1. ~UNCHANGED machineVars
  BY DEF machineVars, setupVars
<1>2. \A t : ~channelXCHG(t)
  BY DEF channelXCHG, Called
<1>3. \A s, a, n : ~IOread(s, a, n)
  BY <1>2 DEF IOread
<1>4. /\ ~IOwrite /\ ~IOcheckInterrupts /\ \A s, a : ~loadProgramImage(s, a)
      /\ ~LoadImageWord /\ ~Enter /\ ~Execute
  BY DEF IOwrite, IOcheckInterrupts, loadProgramImage, Called, LoadImageWord, Enter, Execute
<1>. QED BY <1>1, <1>2, <1>3, <1>4 DEF NextMachine

\* loadProgramImage reports success exactly when the whole image is on the disk and
\* has copied it then word by word; in any case it touched nothing else, for every
\* size of sector, disk and memory (loader.c:170-239).
THEOREM ImagesLoadWhole == SpecMachine => LoadsWholeImage
<1>1. MachineInv /\ [NextMachine]_machineVars =>
        [ phase = "loading" /\ phase' = "setup" =>
            LET place == image.loadAddress .. image.loadAddress + image.wordCount - 1 IN
            /\ loaded' <=> ImageOnDisk
            /\ \A a \in Address \ place : cells'[a] = image.before[a]
            /\ IF loaded'
               THEN /\ \A a \in place : cells'[a] = ImageWord(a - image.loadAddress)
                    /\ IC' = image.loadAddress + image.entryOffset
               ELSE IC' = IC ]_machineVars
  BY LoadEnds, DoneVerdict, CutVerdict DEF Verdict
<1>. QED BY <1>1, MachineInvariance, PTL DEF SpecMachine, LoadsWholeImage

-----------------------------------------------------------------------------
\* The processor behind the calls

\* Overflow is raised exactly when the result is no word, also on what the calls
\* before execCycle have left in the memory, the registers and the latches
\* (cpu.c:159-192, io.c:33-94).
THEOREM OverflowIsExactAfterCalls == SpecMachine => OverflowExact
<1>1. ASSUME MachineInv, [NextMachine]_machineVars, Fetched, opcode \in {ADD, SUB, MUL},
             ~UNCHANGED cpuVars
      PROVE  TypeOK /\ Arithmetic
  <2>1. MachineTypeOK /\ phase = "entered" /\ ~interrupted
    BY <1>1 DEF MachineInv, MachineTypeOK, Fetched
  <2>2. Execute
    <3>1. ~UNCHANGED machineVars
      BY <1>1 DEF machineVars
    <3>2. \A t : ~channelXCHG(t)
      BY <2>1 DEF channelXCHG, Called
    <3>3. \A s, a, n : ~IOread(s, a, n)
      BY <3>2 DEF IOread
    <3>. QED BY <1>1, <2>1, <3>1, <3>2, <3>3
         DEF NextMachine, IOwrite, IOcheckInterrupts, loadProgramImage, Called,
             LoadImageWord, LoadImageSector, LoadImageDone, MoreWords, Enter
  <2>3. Next
    BY <2>2 DEF Execute
  <2>. QED BY <1>1, <2>1, <2>3, TypesOfCPU, OnlyArithmetic DEF CPUInv
<1>2. MachineInv /\ [NextMachine]_machineVars =>
        [Fetched /\ opcode \in {ADD, SUB, MUL} =>
           LET exact == Exact(R[regA], R[regB]) IN
           /\ PI' = "OVERFLOW" <=> exact \notin Word
           /\ "OVERFLOW" \in SF' <=> exact \notin Word
           /\ exact \in Word => R'[regA] = exact]_cpuVars
  BY <1>1, ArithmeticExact
<1>. QED BY <1>2, MachineInvariance, PTL DEF SpecMachine, OverflowExact
=============================================================================
