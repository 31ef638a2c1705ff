# RM-VM in TLA+

RM-VM is a small operating system in C: a *real machine* (CPU, memory, disk,
timer, channel), *virtual machines* that interpret 16-bit programs, and a
single-threaded kernel that schedules processes, loads programs and performs the
transfers they trap for. This directory models the part of it that runs when
`main` boots, the processor of the real machine with the calls that prepare it, and the
parts of the scheduler that the boot leaves idle (the user slots, swapping); it checks
them with TLC and proves their central invariants with TLAPS.

## 1. Inventory

Paths are relative to the repository root.

| Component | State | Operations | Interacts with |
|---|---|---|---|
| Scheduler, process table (`src/kernel/scheduler.c`, `context_switcher.c`) | `schedule[100]`, `current`, `pid`, `prio_max`, `prio_min`, each process's `state`, `loaded`, `vm`, `parentPid`, `swapSlot`, `swapped` | `addProc`, `removeProcP`, `blockCurrent`, `unblockProcess`, `runRange`, `runCycle`, `saveContext`, `contextSwitch` | calls every entry function; claims the CPU resource around it |
| Resource manager (`resourceManager.c`) | four counted resources, each with a ring of waiting pids | `createResource`, `requestResource`, `releaseResource` | writes `state` of waiters and callers |
| Kernel, timer, interrupt handler (`kernel.c`, `interruptHandler.c`, `rm/timer.c`) | timer counter, flag, `active`; PI/SI/TI latches of `realCPU` | `tickTimer`, `checkTimerInterrupt`, `kernelHandleInterrupts`, `kernelStep`, `interruptHandlerEntry` | context switch on a timer interrupt; TMR resource |
| I/O handler (`ioHandler.c`) | ring of 8 pending requests | `enqueueIORequest`, `stepIO`, `completeIO`, `ioHandlerEntry` | IO resource; memory of the machines; disk; wakes governors |
| Boot and processes (`main.c`) | cycle counter | `main`, `startStopEntry`, `idleEntry`, `jobGovernorEntry` | creates governors, they create loaders; Start-Stop empties the table |
| Loader (`loader.c`) | file table | `loaderEntry`, `loaderLoadFile`, `loadProgramImage` | MEM resource, disk, machine of the parent, wakes it; memory and IC of the real machine |
| Virtual machine (`vm/*.c`) | memory, PC, eight registers, trap | `createVM`, `runOperations`, `executeInstruction` | returns "halted", "failed" or "trapped" to its governor |
| Disk (`rm/disk.c`) | 128 sectors of 16 bytes | `readDisk`, `writeDisk` | loader and I/O handler |
| Real CPU and memory (`rm/cpu.c`, `memory.c`, `interrupt.c`) | IC, registers, mode, latches, 512 words | `fetch`, `decode`, `execute`, `execCycle`, `handleInterrupts`, `read`, `write` | initialised by `main`, which runs no program on it any more |
| Channel, I/O facade (`channel_device.c`, `io.c`, `vm_channel.c`) | one transfer descriptor | `channelXCHG`, `IOread`, `IOwrite`, `IOcheckInterrupts` | memory, R[0] and the latches of the real CPU; not used by any process of the boot |
| Swapper (`swapper.c`) and machines scheduled without an entry function | swap slots on the disk | `swapOutVM`, `swapInVM` | around `runOperations` in `runRange`, for processes that `main` does not create; the disk of the loader and the I/O handler |
| MMU, logger, assembly stubs | — | — | no caller, console output, empty |

**What makes it hard.** There is one thread, and yet processes interleave: a
pass over the table runs the entry functions from the highest slot down, each of
them changes the states of others, and the effect depends on which slots the
pass has still to visit. A job's life crosses four processes (governor, loader,
I/O handler, Start-Stop), none of which sees the others' intermediate states:

- a governor blocks and relies on another process to wake it; whoever forgets to
  do so strands it;
- the I/O unit is claimed in the governor, given back in the I/O handler, and in
  between possibly handed over to a waiter;
- pending requests and waiting pids refer to processes that other code frees;
- timer interrupts change the state of whichever governor happens to be READY;
- Start-Stop and `main` decide independently that there is no work left;
- arithmetic at boundaries: 16-bit registers, a memory of 255 bytes, sectors,
  rings with one cell left empty.

Outside of the boot two more things are hard. The pid is an unsigned char and every
search by pid starts at slot 0, so that what is right in the first 158 processes need
not be right afterwards. And a machine that waits has its memory in two places, on the
disk and where it was, while the disk belongs to everybody.

In the processor the difficulty is another: an instruction may fault half way and go
on, what a fault left behind is noticed only by a latch, and three latches decide
together whether the next turn fetches, handles or stops.

`PROJECT.json` lists each hazard at its line with the properties aimed at it.

**What correctness means, per component.** Scheduler: a pid has one slot, the
running process is current and READY, nobody is left in a state that is never
scheduled, the scan covers the whole table, whoever ends is the one that leaves as long
as its pid is its own. Resource
manager: units balance on every path, a unit is lost where it is handed over and not
otherwise, the waiting queue holds no stale pid, the ring is a FIFO. I/O handler: one transfer at a time, requests
refer to live blocked owners, each queued transfer is performed. Governors and
loader: a blocked governor has somebody to wake it; every job ends; no program
resumes before its transfer. Start-Stop and `main`: the shutdown takes nobody's
machine away and leaves nothing behind; `main` returns. Loader: it accepts the
valid images and only those, and copies them exactly. Machine: transfers stay
inside its memory, a program ends or waits for a unit. Swapper: a machine never runs on memory that is out, and
its memory comes back as it went. Real CPU: a user's program neither changes nor
learns anything of the supervisor's memory, nor stops the processor; overflow is
raised exactly; interrupts are handled and instructions go on; the timer keeps
expiring.

## 2. Modules

| Module | Models |
|---|---|
| `ResourceManager` | the table of resources; `requestResource` and `releaseResource` as operators |
| `Kernel` | everything `main` runs: EXTENDS `ResourceManager` |
| `KernelProps` | the properties of `Kernel`, the two inductive invariants, the refinement mapping |
| `JobLifecycle` | abstract specification of what the kernel promises about jobs |
| `KernelProofs` | proofs about `Kernel`: the table, the resources and the I/O unit |
| `JobProofs` | proofs about the jobs, the timer and the shutdown, and the refinement of `JobLifecycle`: EXTENDS `KernelProofs` |
| `WaitRing`, `BoundedFifo` | the ring of `resourceManager.c`, and the FIFO that it implements |
| `WaitRingProofs` | proofs about `WaitRing`, including the refinement |
| `VirtualMachine` | `loaderLoadFile`, `runOperations`, the copies of `completeIO` |
| `VirtualMachineProofs` | proofs about `VirtualMachine`, about `Swapping`, and about the loader on a disk that is swapped to |
| `ProcTable` | the whole process table with user slots and wrapping pids: who gets which slot and pid, and who leaves |
| `ProcTableProofs` | proofs about `ProcTable` |
| `Swapping` | the branch of `runRange` for a machine without an entry function, with `swapOutVM` and `swapInVM`: EXTENDS `VirtualMachine` |
| `RealCPU` | `execCycle`, the memory's accessors and the latches |
| `CPUIsolation` | two processors side by side, on memories that differ where a user must not look: EXTENDS `RealCPU` and instantiates it a second time |
| `RealMachine` | `channelXCHG` with its facade and `loadProgramImage`, before `execCycle` goes on with what they left: EXTENDS `RealCPU` |
| `RealCPUProofs`, `CPUIsolationProofs`, `RealMachineProofs` | proofs about `RealCPU`, `CPUIsolation` and `RealMachine` |
| `MCKernel`, `MCVirtualMachine`, `MCRealCPU`, `MCSupervisor`, `MCCPUIsolation` | instances for TLC |

A definition called `..._something` right above another and commented "Mutant" is
a plausible slip in the code that the definition below it models; substituting it
must violate the property that `PROJECT.json` names.

### How `Kernel` corresponds to the code

A process is its pid. `main` creates Start-Stop, Idle, the interrupt handler, the
I/O handler and the governors with the pids 98, 99, 100, 101, 102.. in the slots
96, 95, ... below the scheduler's own process (pid 97, slot 97), so these pids are
constants; a loader's pid is assigned by `addProc`, modulo 256 as in the code.

| Variable | C |
|---|---|
| `pc`, `slot` | the point inside `runRange`: scanning, or inside the entry function of the process in `slot` |
| `cycle`, `lastPass` | the loop index of `main`; whether the `runCycle` after the loop is under way |
| `schedule`, `nextPid`, `current` | `Scheduler.schedule`, `.pid`, `.current` |
| `state`, `loaded`, `vm`, `parent` | `Process.state`, `.loaded`, whether `.vm` is not NULL, `.parentPid` |
| `res` | `resourceManager`: `available` and the waiting pids of each resource |
| `pendingIO` | the ring of requests from `ioHead` to `ioTail` |
| `timer` | `Timer` |
| `trapsLeft` | how many more transfers a program asks for; a parameter of the job |
| `owed` | history: governors whose trapped transfer was not yet performed |

One action is one visit of `runRange` to a slot, in two halves as in the code:
`Dispatch` claims the CPU and makes the process current, then the action of the
entry function runs to its end *and* does what `runRange` does with its result
(`LeaveCPU`: remove, block or make READY; release the CPU; clear `current`).
`Skip` passes over a slot. `NextCycle`, `LeaveLoop` and `Exit` are the loop of
`main` with `kernelStep`, which ticks the timer.

Kept on purpose: `releaseResource` that hands a unit to nobody, `contextSwitch`
that marks a process RUNNING without running it, results that callers ignore,
`removeProcP` before the CPU is released, the scheduler's own process that stays
current, the release without a scheduler when the ring is full.

Abstracted: register contents of contexts; `lastVM`, `lastTrapPid`,
`kernel->current`, `waitingResId`, `Scheduler.cycle`, which are written and never
decide anything; `holdsRes`, which is true of every queued request; slots 79..0,
which stay empty because every process has `sysProc` (they are in `ProcTable`); PI and SI of `realCPU`, which
nothing in the boot sets; the program of a job, reduced to "halts, fails or traps".
What a program and a load do is `VirtualMachine`.

### How `VirtualMachine` corresponds to the code

It follows one machine: `LoadHeader`, `LoadWord`, `LoadSector`, `LoadDone` are the
statements of `loaderLoadFile` with its locals in `load`; `Enter` starts
`runOperations`; `Compute`, `Trap`, `Halt`, `Fault` and `RunAway` are one iteration
of its loop each; `CompleteRead`, `CompleteWrite` and `ResumeUnserved` are what
happens to a trapped machine before its governor runs again. Memory and disk hold
bytes; instructions are decoded from them with the shifts and masks of
`executeInstruction` written as division and remainder; registers have 16 bits. The
outcome of a load in `Kernel` is LoadDone's, a visit to a loaded governor in `Kernel`
is the iterations between `Enter` and the next Halt, Fault or Trap.

Left out: SF, DS, CS, PTR and SI of the machine, which this interpreter does not
read; log output. The file table is the parameter `Files`: the entry `findFile`
returns, if any.

### How `ProcTable` corresponds to the code

| Variable | C |
|---|---|
| `schedule` | `Scheduler.schedule`: a process with its `pid`, or `Free` for NULL; `born` is history, the call of `addProc` that put it there |
| `pid`, `prio` | `Scheduler.pid`; `prio_max` and `prio_min` |
| `created` | history: the calls of `addProc` so far |

There are two actions. A caller adds a process, as a system or as a user process; and one
that the scheduler runs is finished and removed by its pid (`End`: the entry has returned
0, or the machine has halted or failed). Any process may end at any time, whatever it holds
or waits for, and so also one that some other function has woken; that is why `ProcTable`
has no states, waits or units, which are `Kernel`'s, as is Start-Stop's emptying of the
table. The scheduler's own process has no entry function and never ends. Kept on purpose: a
pid is used up although there is no slot, `removeProcP` refuses pid 0 and takes the first
process with the pid, no process is put above `prio_max` or into slot 0.

What the model shows of the code: the 159th process has pid 0, is finished and stays to be
run again; and once pids have come round, the process that is removed may be another one
with the pid of the one that has finished. `EndsItself` says up to when neither happens.

`Kernel` uses the system slots of this table and models their processes in full.

### How `Swapping` corresponds to the code

`swapSlot` and `swapped` are the fields of the process. A trapped machine is queued
(`QueueRequest`: `enqueueIORequest` and `swapOutVM`, where the slot fits on the disk) or
refused (`RefuseRequest`, whose memory stays). `Complete` is `completeIO`, `SwapIn` and
`RunMachine` are the next visit of `runRange`. A refused machine may be woken by a release
(`HandOver`); its `request` stays "refused" until it runs on. `kept` and `spoilt` are
history. Two branches are missing. The swap-in cannot fail after a swap-out that succeeded,
because both test the same sectors. The MEM unit is never denied to `runRange`
(`scheduler.c:289-295`): with one thread whoever claims it gives it back before the next
process is dispatched (`UnitsReturned` in `Kernel`).

What the model shows of the code and a caller should know: `completeIO` copies into memory
that is swapped out and still allocated, and the swap-in then overwrites it, so that what
a READ brought is lost (`ioHandler.c:31`, `scheduler.c:298`; run `read_lost`); `addProc`
gives the process a new pid but leaves the slot that `initProcess` chose by the pid it was
given, so processes may share a slot, and a slot above 2 does not fit
on the disk; a request that was refused is never asked for again, although the log says so
(`scheduler.c:330`).

### How `RealMachine` corresponds to the code

`phase` is "setup" while C code calls the channel or the loader, "loading" inside
`loadProgramImage`, whose locals are `image`, and "entered" from the call of `execCycle`
on; `storage` is the disk as little-endian words. No process of the boot calls these
functions, so their order and arguments are the run's. Addresses stay inside the memory,
because beyond it the C code's behaviour is undefined.

Kept on purpose: of the combinations of source and destination five do something, and the
others report success and do nothing; a register is no source; `IOwrite` latches WRITE and
moves nothing, though `io.c:59` says that it writes memory to disk; `IOcheckInterrupts`
clears any SI; the load address of the header is ignored in favour of the caller's, and
the room is counted in bytes though words are stored one to a cell; a failed load leaves
what it has copied.

### How `RealCPU` corresponds to the code

| Variable | C |
|---|---|
| `IC`, `R`, `SF`, `MODE`, `PI`, `SI`, `TI` | the fields of `realCPU`; `SF` is the set of its flags |
| `cells` | `physicalMemory.cells` |
| `ticks`, `running` | the locals of `execCycle` |

One action is one turn of the inner loop of `execCycle` or one call of
`handleInterrupts`. `FetchFault` and `DecodeFault` are the two `break`s; the actions
from `LoadImmediate` to `SystemCall` are the cases of `execute` with the tick that
follows (`Executed`). The code has no concurrency, so nothing can come between fetch
and execute. A word is a number, decoded with quotients and remainders for the shifts
and masks. All sizes follow from `OperandSize`: a word has 512 times as many values
(4 + 3 + 2 bits above the operand), the memory 4 times as many words, of which the lower
half is the user's; 128 gives the source's 16 bits, 512 words and 256 user words.

Kept on purpose: a LOAD that faults clears its register; an overflow is latched and the
result stored; DIV by zero clears the flags; `IC` is past an instruction that faults and
not past one that cannot be fetched; what decode rejects does not tick; SYS is never
cleared.

Three of decode's checks and the indirect modes of `OP_JMP` in `execute` are missing:
no word can reach them. The proof module states it (`FieldsInRange`): regA, the mode and
the operand are in range whatever the word, and decode leaves the mode of a jump 0.

`MODE` does not change while `execCycle` runs. It is a parameter, as it is a matter of
the caller: `initCPU` and `main` set supervisor, a context restored by `contextSwitch`
may say user. `main` calls `execCycle` only in code that is commented out, so this
module stands beside `Kernel` and not under it. `PTR` is never read.

### The abstract specifications

`JobLifecycle` knows neither slots nor resources: a job is new, loading, ready, in
transfer, queued for the unit or done; one transfer at a time; a transfer's end may
let one queued job go; the system is switched off only when every job is done.
`KernelProps!Phase` computes a job's phase from the table, the ring and the queue,
and has two values that the abstract specification lacks, "killed" and "stuck". Its
conditions overlap (a job that is done has left the table as well), so it asks them in
order.

`BoundedFifo` is a sequence with a capacity. `WaitRing` implements it with
`Contents` as the mapping.

## 3. What is checked

| Run | Instance | Shows |
|---|---|---|
| `kernel_main` | what `main` boots: 3 jobs, the third does transfers (up to 12), TICK_LIMIT 10, 200 cycles | every job ends, every transfer is performed before its program resumes, a blocked governor always has somebody to wake it, a loader reports, `main` leaves nothing behind; `JobsInv` with its conjunct `DeviceAtHand`, which is about a single job with transfers |
| `kernel_contention` | 4 jobs of which 3 compete for the unit (2 transfers each), loads that may fail, a timer interrupt every other cycle, 30 cycles | both inductive invariants on every path; resource accounting, exclusive unit, which is lost by a hand-over and nowhere else, sound queue, live requests, no governor left RUNNING; the life cycle is implemented; a shutdown takes away no job; `main` returns; the job without I/O ends whatever befalls the others |
| `proc_table` | 7 slots of which 4 for system processes, pids modulo 5, 12 creations; 39,381 states | the scan covers the table; a pid repeats only after all others were given out; whoever ends is the one that leaves as long as no pid repeats |
| `wait_ring` | 4 cells, 3 pids | the ring is a FIFO that holds three |
| `vm` | 20 bytes of memory, 6 sectors of 8 bytes of which one slot of three, and another beyond the disk; headers and file entries of every kind, and programs of 4 words, three of them out of 11, at the bottom or the top of the memory | a load succeeds for the valid images and only for them, and copies them exactly; transfers stay inside the memory; a machine does not run while its memory is out, and the memory comes back as it went; a machine comes to rest only at its end or in a refused transfer, also one that overwrites itself; 1.31 million states |
| `cpu_user` | 16 words of memory, 8 of them the user's; programs of three words out of 17 and a pointer, in user mode, beside two contents of supervisor memory | supervisor memory, mode and `running` are out of a user's reach; nothing tells the two contents apart; the timer goes on |
| `cpu_supervisor` | the same sizes and 3 sectors of 4 words, supervisor mode: programs in memory that calculate and go forward, some past its end; programs loaded from the disk after up to two calls | overflow is exact; a straight program reaches its HALT whatever the calls have latched; a load succeeds exactly when the image is on the disk, and copies it exactly; the inductive invariant of `RealMachine`; 328,642 states |

Five runs end in a counterexample, where the code departs from what it says of
itself:

- `loads_no_signal`: a load that fails ends the loader and its parent stays blocked,
  against "then signal parent" (`loader.c:242`). The parent is then the blocked
  process for which `main` runs all its 200 cycles.
- `contention_unserved`: with two jobs in contention the second is refused the unit,
  `jobGovernorEntry` ignores the refusal, and the end of the first transfer makes it
  READY: its program goes on after a READ that never took place, against "the caller
  should retry later" (`ioHandler.c:68`).
- `contention_unit_lost`: that same release does not put the unit back, because there
  was a waiter, and the waiter never learns that the unit is its own. Nobody returns
  it. The next transfer of any job waits for ever, and `main` gives up after 200
  cycles, against "load program, run VM, finish" (`main.c:104`).
- `cpu_sys`: SYS is the one interrupt that `handleInterrupts` does not clear, against
  "prints SI/PI/TI conditions, clears them" (`ARCHITECTURE.md:55`). Both loops of
  `execCycle` then go on without ever fetching again, in user mode as well.
- `read_lost`: "READ done ... -> vm_addr" (`ioHandler.c:33`), and yet the swap-in puts the
  old memory over what was read. It takes a machine whose process has no entry function.

None of the first three happens in the system `main` boots, whose images are valid and of
whose jobs only one does transfers: that is what `kernel_main` shows.

### Bounds

- `NJobs` 3 or 4: three governors are enough for one to be served, one to wait and
  a third to find the unit lost; the fourth in `kernel_contention` does no I/O. From
  seven governors on the system slots no longer hold all governors with their
  loaders at once, and a load can be refused for want of a slot; no instance goes there.
- `TickLimit` 10 is the real one where `main`'s own behaviour is asked about. 2 gives
  a timer interrupt on every other cycle. It is at least 2 by assumption: with 1 the
  interrupt of the first cycle finds governors READY after their loads, which the
  source's constant excludes.
- `MaxTraps`: 12 for a single I/O job spans more than three timer intervals; 2 under
  contention, so that each job can come back once to a unit that may be lost.
- `MaxCycles` 200 is `main`'s; 30 is enough for every job of those instances to end
  or to be stuck for ever, because their longest run without a loss takes under 20
  cycles. A program with about a hundred transfers would exceed 200 cycles and be
  cut off by `main`; this is a limit of the program and no property denies it.
- `proc_table`: two user slots and slot 0, two system slots
  below the scheduler's own and one above, which `addProc` never uses, and five pids, of
  which the third is the scheduler's. Twelve creations take the counter twice past 0 and past
  the scheduler's pid, to pids of processes that are still there; slots run out on both sides.
  Deadlock is not checked: the bound stops arrivals, and in the end none but the
  scheduler's own process may be left.
- `vm` needs images within a sector, exactly filling it, and over two and three, and
  tables that promise too few sectors: 8-byte sectors hold one word in the first and four
  in each of the next. Its programs have operations to make a register wrap below zero, to
  ask for more than a sector and to read code over code that is about to be executed. The
  memory is not a multiple of the sector, as in the source. Other machines write to one
  sector of the slot while the memory is out.
- `cpu_...`: operands of two bits are the least that distinguish an immediate, a direct
  and an indirect access; word 3 points below, at and beyond the boundary of the user's
  memory and beyond the memory, or holds an invalid opcode or a factor at the limit of a
  product. Programs that loop do no arithmetic, which would make them count through all
  2048 words; the arithmetic is in the programs that go forward. `TickLimit` 3 lets the
  timer expire inside, at the end of and after a program, and together with a HALT.
- `cpu_supervisor`: images end within their sector, with it, in the next and in the one
  after that, or run over the end of the disk. Calls are made on an empty memory only; two
  are enough for a load after a transfer that left a latch or part of an image behind.

### Fairness

One thread runs `main` and nothing in it waits: at every point exactly the next
statement happens. Weak fairness of `Next` says that it does happen. No action is
favoured. `execCycle` waits for nothing either. In `Swapping`, which carries the fairness for
`VirtualMachine` too, it is of `Progress`: the interpreter's loop goes on, its process is
dispatched in every pass, a trap is queued or refused at once, and what is queued is served
(`TransferCompletes`). That a refused machine is ever handed the unit is not assumed, because it is not so
(`contention_unit_lost`), nor that others write to the disk; `EndsOrWaits` therefore allows a
machine to wait for ever in a refused transfer. In `RealMachine` the caller makes the calls it has
left or enters `execCycle`. `StraightHalts` and `TimerGoesOn` need no more
than that.

## 4. What is proved

For every number of jobs, every set of jobs that do I/O, every set of load outcomes,
every timer limit of at least 2 and every bound (`Kernel`'s assumptions):

- `Invariance`: `KernelInv` always holds. It is `TypeOK` with
  - `TableSound`: a pid has one slot, and `nextPid` counts the loaders created so
    far; without it `addProc` could give out a pid that is in use or out of type;
  - `RunSound`: inside an entry function the process of the slot is current and
    READY, between visits only the scheduler's own process is current; without it
    `saveContext` could make a blocked governor READY and its request stale;
  - `LoadersSound`: a loader's parent waits for it and for no other loader; without
    it a loader could wake a governor that is waiting for a transfer;
  - `UnitsReturned`, and `DeviceSound`: `DeviceExclusive`, `PendingAlive` and
    `WaitQueueSound`, which need each other: a waiter is not pending, so waking it
    leaves requests sound; the unit is taken while somebody waits, so at most one
    request is pending after a hand-over.

  The proof has a lemma for each action of `Next` and, above those, lemmas about what
  `addProc`, `removeProcP`, `releaseResource`, `enqueueIORequest` and the hand-over of
  the CPU preserve.
- `TypeCorrect`, `UnitsAreReturned`, `DeviceIsExclusive`, `PendingStaysAlive`,
  `WaitQueueStaysSound`: the conjuncts that matter by themselves. Of the ring of requests
  it follows that it never holds two: the branch of `enqueueIORequest` for a full one
  (`ioHandler.c:74`) is never taken.

For the same constants `JobProofs` proves a second invariant on top of the first,
`JobsInvariance`: `JobsInv` always holds. What happens to the jobs is no matter of the
entry functions alone; it follows from the order in which one pass visits the slots, and
`JobsInv` says what that order makes of the table:

- `Placed`, `ParentsSound`: slots are given out downwards in the order of the pids, so that
  a pid determines its slot (`Home`) and a loader its parent;
- `FirstTable`: in the first pass the scan comes by the governors, which are READY and
  create a loader each, and after them by the loaders, which load and leave; the table is
  a function of `slot` alone. `LaterTable`: after it, no loader is left and every governor
  has asked;
- `QuietInterrupts`: in the first two passes no timer interrupt is latched, and later a
  governor is READY only between the I/O handler and its own visit, both of which come
  after the interrupt handler's. So `contextSwitch` never finds a governor that it could
  leave RUNNING. `TickLimit >= 2` is needed here: with 1 it is false;
- `GovernorsSound`, `DaemonsReady`: a governor is in the table with its machine until it is
  done, and is READY or BLOCKED in between;
- `ShutdownSound`: the timer runs while Start-Stop is there, and Start-Stop goes only when
  all governors are done;
- `LoadsAtOnce`, `TrappedIsQueued`, `OnlyIOJobsTrap`, `DeviceAtHand`: who will wake a
  blocked governor, under the conditions named in them.

From it:

| Theorem | Hypothesis | Why it is needed |
|---|---|---|
| `NobodyIsStranded`, `NoJobIsKilled` | none | |
| `LoadersSignal` | `SureLoads`: the images load, and the table has a slot for every loader | otherwise the loader ends in silence (run `loads_no_signal`), or is not created |
| `ServedFirst`, `ExitIsClean` | `OneIOJob` | with two the unit is handed to a waiter that ignores it (`contention_unserved`, `contention_unit_lost`) |
| `BlockedHaveWakers` | both, and `QueueHasRoom` | as above |
| `ImplementsJobLifecycle` | `QueueHasRoom`: no more jobs than the wait queue has places | a pid that does not fit is forgotten and its job is "stuck" |

The system that `main` boots satisfies all three hypotheses: three jobs, of which one does
transfers, and a queue of 31 places; the table has a slot for every loader with up to six
jobs, and for a loader of the first jobs with more. A table has room for 13 jobs at most,
so that `QueueHasRoom` never fails in the source; it is there because the length of the
queue is a parameter. `ImplementsJobLifecycle` has one step per action of `Next`: most
leave every phase alone, `GovernorLoading`, `RunLoader`, `VMTrap`, `VMFinish`, `IOComplete`
and `Shutdown` are each a step of `JobLifecycle`, and `Phase` never comes to "killed" or
"stuck".

`OnlyHandOversLoseUnits`, for the same constants: the unit of the I/O device is in the pool or
with a queued transfer that will give it back, until a release hands it to the head of the
wait queue; that step loses it for good, and no other loses one. It needs of `KernelInv` that
somebody waits only while the unit is taken and that a request has its unit.

For every ring of at least two cells and every set of items: `RingType`,
`RingHoldsItems`, that `RingInv` always holds (the indices in range, every occupied cell
set), and `RingImplementsFifo`, that `WaitRing` implements `BoundedFifo`.

For every memory, sector and disk size, every disk content and file entry:
`VMTypeCorrect` and `TransfersStayInMemory`. The inductive part beside the types is
that the header was checked before the first word was copied, so that the entry lies
in the memory, and that the registers that were checked are the ones the trap
carries.

For every size of the table and range of pids, and any number of creations
(`ProcTableProofs`): `TableTyped`, `ScanIsComplete`, `PidsStayApart` and `EndersLeave`. The
invariant, `TableInv`, says of every process that it was created by an earlier call of
`addProc` and has the pid that the counter had come to then, and that the bounds of the scan
lie around the slots in use. Two processes with one pid are then a multiple of `PidMod` calls
apart, and the search by pid finds the right one unless they are.

For every slot, whether it fits or not: `SwappedWhileWaiting`,
`MachineComesBack`, `SwappedTransfersStayInMemory`. `SwapInv` says of requests that a trapped
machine has one and that a refusal lasts until it runs on (`RequestWhileTrapped`), and of the copy on the disk
(`ImageOut`) that every byte of the memory is at its place in the slot, unless its sector
was written since; that the slot has room for them follows from a lemma about the number
of sectors (`SlotCovers`, `HomeInSlot`).

For every sector, memory and disk, whatever machines have swapped out: `LoaderDecides`, that exactly the valid images are accepted, and `LoaderCopies`.
`LoopSound` is the invariant of the loop of `loaderLoadFile`: the bytes used up, the
header among them, end at `byteOffset` of the current sector; `CopySound` is that these
words, and no others, are in the memory. `SectorsHold` relates a number of bytes to the
least number of sectors for them, which is the loop's bound in `ValidImage`.

For every (even) operand size, tick limit, set of images and mode:

- `CPUTypeCorrect`, `UserIsConfined`, `OverflowIsExact`. The invariant is `TypeOK`, of
  which that PI and SI are not latched together and that `IC` is in the memory when a
  word was fetched are the parts that matter, and `UserLatch`: in user mode only a SYS
  can be latched, so that no HALT stops the processor. `OverflowTest` is the lemma that
  the three tests, of which MUL's is a division, decide the same question.
- `UserLearnsNothing`, about two processors: `IsolationInv` is the equality of what a
  user can see, with the types and the mode. Its proof shows that the two take the same
  step (`SameStep`, from guards that exclude each other) and that each step leaves them
  alike; where memory is read or written, because in user mode the accessible words are
  just those that agree (`SameAccess`). Unlike the others it cannot be stated of a single
  processor.

For every size of the memory, sectors and disk, every content of the disk and every
sequence of calls that stay inside the memory (`RealMachineProofs`):

- `MachineInvariance`: `MachineInv` is the types, without the claim that PI and SI are not
  latched together, because a fault of one call may be latched beside the transfer of
  another, and `LoadSound`: the words that the loop of `loadProgramImage` has passed, the
  header among them, end at `index` of its sector, those it has loaded are in their places
  and nothing else has changed.
- `ImagesLoadWhole`: with `LoadSound`, and with what division makes of a number of words
  (`SectorOf`, `PlaceOf`), the two ways out of the loop are those for an image that ends on
  the disk and for one that does not.
- `OverflowIsExactAfterCalls`: `OverflowExact` of the processor that goes on after the
  calls. When it fetches nothing is latched, and the types are those of `RealCPU`
  (`TypesOfCPU`).

Only model-checked: everything about liveness (`TransferCompletes`, `JobsFinish`,
`PlainJobsFinish`, `MainReturns`, `EndsOrWaits`, `StraightHalts`, `TimerGoesOn`), which
needs fairness, out of the prover's reach. Every invariant and action property that a
passing run checks has a theorem. `Copied` in `RealMachine`, the loop of a transfer, is
written as the memory it leaves rather than as a recursion over its words, as what a
recursive definition computes cannot be proved by induction there.

## 5. Plan

Done, in this order: `ResourceManager`, `Kernel` with its properties and invariant,
`WaitRing`, `VirtualMachine`, `RealCPU` and `CPUIsolation`, `ProcTable`, `Swapping`,
`RealMachine`.

Proved: in `KernelProofs` the bookkeeping, in `JobProofs` the life of the jobs and the
refinement, and the safety of every other module. Still worth proving: that the operators `requestResource` and `releaseResource` of
`ResourceManager` treat `waitPids` as `BoundedFifo` does, which would join `WaitRing` to
the modules that use the resource table.

### Not modelled

- The PI and SI branches of `kernelHandleInterrupts`: the boot executes nothing on
  `realCPU` and calls nothing that sets these latches, so no state of the program takes
  them. A run that set them would be about a caller that does not exist.
- `mmuTranslate`: it has no caller, is a pure function, and reads a four-byte entry out of
  16-bit cells in a layout that nobody writes.
- `VMreadChannel` and `VMwriteChannel`: they type and print. `VMchannelXCHG` fills in
  the descriptor and calls `channelXCHG`.
- Functions without a caller: `removeProcN`, `templateCycle` and the cycles it runs,
  `runInstruction`, `runPseudo`, `runCustom`, `loadDiskProgram`, `pseudo_runVM`,
  `custom_runVM`, `runVM`, `execOneCycle`, `startVirtualMachine`, `readFileToBuffer`.
- The logger, the dialogue at the start and the assembly stubs: console output, and
  empty files.

## 6. Running it

    tlc -config kernel_main.cfg MCKernel.tla
    tlc -config vm.cfg MCVirtualMachine.tla
    tlc -config WaitRing.cfg WaitRing.tla
    tlc -config cpu_user.cfg MCCPUIsolation.tla
    tlc -config cpu_supervisor.cfg MCSupervisor.tla
    tlc -config proc_table.cfg ProcTable.tla
    tlc -config read_lost.cfg MCVirtualMachine.tla
    tlapm KernelProofs.tla
    tlapm JobProofs.tla
