------------------------------ MODULE Swapping ------------------------------
(***************************************************************************)
(* A machine that runRange runs itself, because its process has no entry   *)
(* function (src/kernel/scheduler.c): while it waits for a transfer its    *)
(* memory is swapped out to the slot of the process and brought back       *)
(* before it goes on (src/kernel/swapper.c).  Other machines write to the  *)
(* same disk meanwhile, and may have been given the same slot.             *)
(*                                                                         *)
(* A slot that does not fit on the disk stands also for the machine of a   *)
(* job governor, which is never swapped.                                   *)
(***************************************************************************)
EXTENDS VirtualMachine

CONSTANTS
  SwapStart,     \* SWAP_START_SECTOR, 80 in the source
  SwapSectors,   \* SWAP_SLOT_SIZE_SECTORS, 16
  Slots          \* the slots the process may have: the pids initProcess is given

ASSUME SwapAssumption ==
  /\ SwapStart \in Nat /\ SwapSectors \in Nat /\ SwapSectors * SectorSize >= VMSize
  /\ Slots \subseteq 0 .. 255

VARIABLES
  swapSlot, swapped,
  request,   \* of the trap: "new", "queued", "refused"; "none" once it is served,
             \* or once the machine runs on without it
  kept,      \* history: the memory when it was swapped out
  spoilt     \* history: the sectors of the slot written since

swapVars == <<swapSlot, swapped, request, kept, spoilt>>
machineVars == <<vmVars, swapVars>>

InitSwapping ==
  /\ Init
  /\ swapSlot \in Slots /\ swapped = FALSE /\ request = "none"
  /\ kept = memory /\ spoilt = {}

-----------------------------------------------------------------------------
swapSlotStart == SwapStart + swapSlot * SwapSectors
SlotSectors == swapSlotStart .. swapSlotStart + SwapSectors - 1
SlotFits == swapSlotStart + SwapSectors <= NSectors

\* Mutant: what is left of the memory is counted in whole sectors.
SlotByte_whole(s, i) ==
  LET a == (s - swapSlotStart) * SectorSize + i
  IN IF a < VMSize - (VMSize % SectorSize) THEN memory[a] ELSE 0

\* Byte i of sector s once the memory is swapped out: the last sector that is
\* needed is filled up with zeros.
SlotByte(s, i) ==
  LET a == (s - swapSlotStart) * SectorSize + i IN IF a < VMSize THEN memory[a] ELSE 0

\* The sector that keeps the byte at a.
Home(a) == swapSlotStart + a \div SectorSize

\* The sectors that the memory takes up, of those that the slot has.
UsedSectors == swapSlotStart .. swapSlotStart + SectorsNeeded(VMSize) - 1

swapOutVM ==
  /\ disk' = [s \in Sector |-> IF s \in UsedSectors
                                THEN [i \in 0 .. SectorSize - 1 |-> SlotByte(s, i)]
                                ELSE disk[s]]
  /\ swapped' = TRUE /\ kept' = memory /\ spoilt' = {}

swapInVM ==
  /\ memory' = [a \in Address |-> disk[Home(a)][a % SectorSize]]
  /\ swapped' = FALSE

-----------------------------------------------------------------------------
\* The trap of the machine that has just run: nothing else happens before it is
\* queued, and its memory swapped out if it can be, or refused.
Trapped == status = "trapped" /\ request = "new"

\* Mutant: the memory is swapped out when the request is refused.
RefuseRequest_swaps ==
  /\ Trapped
  /\ request' = "refused"
  /\ IF SlotFits THEN swapOutVM ELSE UNCHANGED <<disk, swapped, kept, spoilt>>
  /\ UNCHANGED <<status, file, load, memory, PC, R, trap, swapSlot>>

QueueRequest ==
  /\ Trapped
  /\ request' = "queued"
  /\ IF SlotFits THEN swapOutVM ELSE UNCHANGED <<disk, swapped, kept, spoilt>>
  /\ UNCHANGED <<status, file, load, memory, PC, R, trap, swapSlot>>

RefuseRequest ==
  /\ Trapped
  /\ request' = "refused"
  /\ UNCHANGED <<vmVars, swapSlot, swapped, kept, spoilt>>

\* completeIO, on memory that is still allocated though it is swapped out.
Complete ==
  /\ request = "queued"
  /\ CompleteRead \/ CompleteWrite \/ (trap.code = "SYS" /\ ResumeUnserved)
  /\ request' = "none"
  /\ spoilt' = IF trap.code = "WRITE" /\ trap.r0 \in SlotSectors
               THEN spoilt \cup {trap.r0} ELSE spoilt
  /\ UNCHANGED <<swapSlot, swapped, kept>>

\* The unit that was refused is handed over, which makes the process READY; what
\* it asked for stays refused.  Nothing says that this comes to pass: a release
\* hands over to one waiter, and the unit may be lost there (module Kernel).
HandOver ==
  /\ request = "refused"
  /\ ResumeUnserved
  /\ UNCHANGED swapVars

\* The transfer or the swap-out of another machine reaches a sector of the slot.
\* Bound: no other has been reached since the memory was swapped out.
OtherWrites ==
  /\ swapped /\ spoilt = {}
  /\ \E s \in SlotSectors :
       /\ disk' = [disk EXCEPT ![s] = [i \in 0 .. SectorSize - 1 |-> 0]]
       /\ spoilt' = spoilt \cup {s}
  /\ UNCHANGED <<status, file, load, memory, PC, R, trap, swapSlot, swapped, request, kept>>

\* Its process is dispatched again: first the memory is brought back.
SwapIn ==
  /\ status = "ready" /\ swapped
  /\ swapInVM
  /\ UNCHANGED <<status, loadVars, PC, R, trap, swapSlot, request, kept, spoilt>>

\* It has the unit of memory: with one thread the request for it is never denied
\* (UnitsReturned in module Kernel), so the branch that gives up is left out.
RunMachine ==
  /\ ~swapped /\ Enter
  /\ request' = "none"
  /\ UNCHANGED <<swapSlot, swapped, kept, spoilt>>

Execute ==
  /\ \/ LoadHeader \/ LoadWord \/ LoadSector \/ LoadDone
     \/ Compute \/ Trap \/ Halt \/ Fault \/ RunAway \/ Ended
  /\ request' = IF status = "running" /\ status' = "trapped" THEN "new" ELSE request
  /\ UNCHANGED <<swapSlot, swapped, kept, spoilt>>

NextSwapping ==
  \/ Execute \/ QueueRequest \/ RefuseRequest \/ Complete \/ HandOver
  \/ OtherWrites \/ SwapIn \/ RunMachine

SpecSwapping == InitSwapping /\ [][NextSwapping]_machineVars

\* The machine's process is dispatched in every pass and what is queued is served;
\* that a refused unit is ever handed over is not assumed.
Progress == Execute \/ QueueRequest \/ RefuseRequest \/ Complete \/ SwapIn \/ RunMachine

FairSpecSwapping == SpecSwapping /\ WF_machineVars(Progress)

-----------------------------------------------------------------------------
\* A machine comes back as it went: every byte is what it was at the trap, but
\* for the sectors of the slot that somebody wrote since, and the registers and
\* PC are still those of the trap.  That goes for what a READ was to bring, too:
\* completeIO copies into memory that the swap-in then overwrites
\* (swapper.c:23-65, scheduler.c:296-332, ioHandler.c:26-31).
ComesBackAsItWent ==
  [][ swapped /\ ~swapped' =>
        \A a \in Address : Home(a) \notin spoilt => memory'[a] = kept[a] ]_machineVars

\* A machine never runs, and is never refused a transfer, with its memory out on
\* the disk, and what is out there lies in a slot that fits (scheduler.c:296-333).
SwappedOnlyToWait ==
  swapped => /\ SlotFits
             /\ status = "trapped" => request = "queued"
             /\ status \in {"trapped", "ready"}

\* A machine never comes to rest anywhere but at its end or in a refused transfer,
\* whatever its program does, to itself too: it does not trap for ever, and
\* nobody leaves it halfway (vm_cpu.c:91-172, scheduler.c:287-346,
\* ioHandler.c:85-98).  One that is refused may wait for ever.
EndsOrWaits ==
  \/ <>(status \in {"unloadable", "halted", "failed"})
  \/ <>[](status = "trapped" /\ request = "refused")

\* What the log says when a READ is done, that the sector went to the memory
\* (ioHandler.c:33): what a READ brought is there when the machine is back.  It
\* is not: the swap-in puts the old memory over it.
ReadArrives ==
  [][ swapped /\ ~swapped' /\ trap.code = "READ" /\ readDisk(trap.r0) =>
        \A a \in trap.r1 .. trap.r1 + TransferBytes - 1 : memory'[a] = memory[a] ]_machineVars
=============================================================================
