------------------------------ MODULE Kernel ------------------------------
(***************************************************************************)
(* The booted kernel of src/main.c: a priority table of processes that one *)
(* thread scans from the highest slot down (scheduler.c runRange), giving  *)
(* each READY process the CPU resource for the time of its entry function. *)
(* The processes are Start-Stop, Idle, the interrupt handler, the I/O      *)
(* handler, one job governor per job and the loaders the governors create. *)
(*                                                                         *)
(* A process is its pid.  main creates the first ones with consecutive     *)
(* pids in descending slots, so their pids are constants here; the pid of  *)
(* a loader is assigned by addProc.  A job's program is abstracted to what *)
(* the kernel can tell of it: it halts, or fails, or (jobs of IOJobs) it   *)
(* traps for a transfer, at most MaxTraps times.                           *)
(***************************************************************************)
EXTENDS Integers, Sequences, FiniteSets, ResourceManager

CONSTANTS
  NJobs,         \* job governors created by main (3 in the source)
  IOJobs,        \* the governors whose programs perform READ or WRITE
  LoadOutcomes,  \* what loaderLoadFile may return for the file of each governor
  TickLimit,     \* TICK_LIMIT, cycles between two timer interrupts
  MaxTraps,      \* bound on the transfers one program asks for
  MaxCycles      \* the loop bound of main (200)

SelfPid == 97
StartStop == 98
Idle == 99
InterruptHandler == 100
IOHandler == 101
Governors == 102 .. 101 + NJobs
LastPid == 101 + 2 * NJobs          \* when each governor has its loader
Loaders == 102 + NJobs .. LastPid
Pids == SelfPid .. LastPid

\* The system pass of runCycle covers slots 99..80 and nothing is ever above
\* 97.  Every process has sysProc set, so the user pass 79..0 meets no process.
SysLow == 80
SysHigh == 97
Slots == SysLow .. SysHigh

\* A ring of 8 slots of which one stays empty.
IOCapacity == 7

\* A transfer is completed on the visit after its only tick.
IOTicks == 1

\* Pids are unsigned chars, and main's processes fit in the system slots.
ASSUME NJobsAssumption == NJobs \in 1 .. 13
ASSUME IOJobsAssumption == IOJobs \subseteq Governors
ASSUME LoadAssumption == LoadOutcomes \in [Governors -> (SUBSET BOOLEAN) \ {{}}]
ASSUME TickAssumption == TickLimit \in Nat /\ TickLimit >= 2
ASSUME BoundsAssumption == MaxTraps \in Nat /\ MaxCycles \in Nat /\ MaxCycles >= 1

VARIABLES
  pc,         \* "scan" the table, "run" an entry function, "exit" from main
  slot,       \* the loop index of runRange; SysLow - 1 once the pass is over
  cycle,      \* the loop index of main
  lastPass,   \* main is in the runCycle after its loop
  schedule,   \* slot -> pid, NoPid where the table has NULL
  nextPid,    \* Scheduler.pid, the last pid given out
  current,    \* Scheduler.current
  state,      \* Process.state
  loaded,     \* Process.loaded of the governors: 0 no, 2 requested, 1 yes, 3 done
  vm,         \* the governors that own a virtual machine
  parent,     \* Process.parentPid of the loaders
  res,        \* the resource manager
  pendingIO,  \* the ring of I/O requests, oldest first
  timer,      \* counter, active, interruptFlag
  trapsLeft,  \* transfers a program may still ask for
  owed        \* history: governors whose trapped transfer was not performed

procVars == <<schedule, nextPid, state, loaded, vm, parent>>
jobVars == <<trapsLeft, owed>>
vars == <<pc, slot, cycle, lastPass, schedule, nextPid, current, state, loaded,
          vm, parent, res, pendingIO, timer, trapsLeft, owed>>

-----------------------------------------------------------------------------
\* The process table

InTable(sched, p) == p # NoPid /\ \E s \in Slots : sched[s] = p

\* Mutant: only the priorities in use are searched for a free slot.
FreeSlots_in_use(sched) ==
  {s \in Slots : sched[s] = NoPid /\ \E t \in Slots : t < s /\ sched[t] # NoPid}

FreeSlots(sched) == {s \in Slots : sched[s] = NoPid}

\* The highest free system slot; the caller ignores the failure of a full table.
addProc(sched, p) ==
  IF FreeSlots(sched) = {}
  THEN sched
  ELSE [sched EXCEPT ![CHOOSE s \in FreeSlots(sched) :
                         \A t \in FreeSlots(sched) : t <= s] = p]

removeProcP(sched, p) == [s \in Slots |-> IF sched[s] = p THEN NoPid ELSE sched[s]]

\* What releaseResource does to the process at the head of the queue.
Wake(st, sched, p) == IF InTable(sched, p) THEN [st EXCEPT ![p] = "READY"] ELSE st

\* Mutant: blocked jobs are no work.
HasWork_ready == \E g \in Governors : InTable(schedule, g) /\ state[g] = "READY"

\* The loop that main and Start-Stop both contain: daemons and loaders do not
\* count, and neither do processes in another state.
HasWork == \E g \in Governors : InTable(schedule, g) /\ state[g] \in {"READY", "BLOCKED"}

-----------------------------------------------------------------------------
\* main up to its loop: addProc of pids 98.. into the slots below the
\* scheduler's own, nothing loaded, a virtual machine for each governor.
Init ==
  /\ pc = "scan" /\ slot = SysHigh /\ cycle = 0 /\ lastPass = FALSE
  /\ schedule = [s \in Slots |-> IF SysHigh - s <= 4 + NJobs
                                 THEN SelfPid + (SysHigh - s) ELSE NoPid]
  /\ nextPid = 101 + NJobs
  /\ current = NoPid
  /\ state = [p \in Pids |-> "READY"]
  /\ loaded = [g \in Governors |-> 0]
  /\ vm = Governors
  /\ parent = [l \in Loaders |-> NoPid]
  /\ res = InitResources
  /\ pendingIO = <<>>
  /\ timer = [counter |-> 0, active |-> TRUE, interruptFlag |-> FALSE]
  /\ trapsLeft = [g \in Governors |-> IF g \in IOJobs THEN MaxTraps ELSE 0]
  /\ owed = {}

-----------------------------------------------------------------------------
\* runRange, one slot at a time

Runnable(s) == schedule[s] # NoPid /\ state[schedule[s]] = "READY"

\* An empty slot, or a process that is not READY.
Skip ==
  /\ pc = "scan" /\ slot \in Slots
  /\ ~Runnable(slot)
  /\ slot' = slot - 1
  /\ UNCHANGED <<pc, cycle, lastPass, procVars, current, res, pendingIO, timer, jobVars>>

\* saveContext makes the process that was current READY again.
saveContext(next) ==
  IF current \in {NoPid, next} THEN state ELSE [state EXCEPT ![current] = "READY"]

\* The CPU is requested for the process of the slot; a denied process waits.
Dispatch ==
  /\ pc = "scan" /\ slot \in Slots
  /\ Runnable(slot)
  /\ LET next == schedule[slot] IN
     /\ res' = requestResource(res, "CPU", next)
     /\ IF Granted(res, "CPU")
        THEN /\ pc' = "run" /\ slot' = slot /\ current' = next
             /\ state' = saveContext(next)
        ELSE /\ pc' = "scan" /\ slot' = slot - 1 /\ current' = NoPid
             /\ state' = [saveContext(next) EXCEPT ![next] = "BLOCKED"]
  /\ UNCHANGED <<cycle, lastPass, schedule, nextPid, loaded, vm, parent,
                 pendingIO, timer, jobVars>>

Running(p) == pc = "run" /\ schedule[slot] = p

\* Mutant: a negative result is taken for a positive one.
LeaveCPU_unblocked(p, rc, st, sched, owners, rm) ==
  /\ pc' = "scan" /\ slot' = slot - 1 /\ current' = NoPid
  /\ schedule' = IF rc = 0 THEN removeProcP(sched, p) ELSE sched
  /\ vm' = IF rc = 0 THEN owners \ {p} ELSE owners
  /\ state' = IF rc = 0 THEN st ELSE [st EXCEPT ![p] = "READY"]
  /\ res' = releaseResource(rm, "CPU")
  /\ UNCHANGED <<cycle, lastPass>>

\* Mutant: a process that ends keeps the CPU.
LeaveCPU_unreleased(p, rc, st, sched, owners, rm) ==
  /\ pc' = "scan" /\ slot' = slot - 1 /\ current' = NoPid
  /\ schedule' = IF rc = 0 THEN removeProcP(sched, p) ELSE sched
  /\ vm' = IF rc = 0 THEN owners \ {p} ELSE owners
  /\ state' = IF rc = 0 THEN st ELSE [st EXCEPT ![p] = IF rc < 0 THEN "BLOCKED" ELSE "READY"]
  /\ res' = IF rc = 0 THEN rm ELSE releaseResource(rm, "CPU")
  /\ UNCHANGED <<cycle, lastPass>>

\* Mutant: the process stays current, and the next dispatch makes it READY.
LeaveCPU_current(p, rc, st, sched, owners, rm) ==
  /\ pc' = "scan" /\ slot' = slot - 1 /\ current' = p
  /\ schedule' = IF rc = 0 THEN removeProcP(sched, p) ELSE sched
  /\ vm' = IF rc = 0 THEN owners \ {p} ELSE owners
  /\ state' = IF rc = 0 THEN st ELSE [st EXCEPT ![p] = IF rc < 0 THEN "BLOCKED" ELSE "READY"]
  /\ res' = releaseResource(rm, "CPU")
  /\ UNCHANGED <<cycle, lastPass>>

\* What runRange does once the entry of process p has returned: rc is the sign
\* of the result, and st, sched, owners and rm are what the entry made of the
\* states, the table, vm and the resources.
LeaveCPU(p, rc, st, sched, owners, rm) ==
  LET left == IF rc = 0 THEN removeProcP(sched, p) ELSE sched
      set == IF rc = 0 THEN st
             ELSE [st EXCEPT ![p] = IF rc < 0 THEN "BLOCKED" ELSE "READY"]
  IN /\ pc' = "scan" /\ slot' = slot - 1 /\ current' = NoPid
     /\ schedule' = left
     /\ vm' = IF rc = 0 THEN owners \ {p} ELSE owners
     /\ state' = Wake(set, left, Heir(rm, "CPU"))
     /\ res' = releaseResource(rm, "CPU")
     /\ UNCHANGED <<cycle, lastPass>>

-----------------------------------------------------------------------------
\* The daemons

\* The scheduler's own process has neither entry nor virtual machine: the CPU
\* is released and the process stays current.
RunSelf ==
  /\ Running(SelfPid)
  /\ pc' = "scan" /\ slot' = slot - 1
  /\ state' = Wake(state, schedule, Heir(res, "CPU"))
  /\ res' = releaseResource(res, "CPU")
  /\ UNCHANGED <<cycle, lastPass, schedule, nextPid, current, loaded, vm, parent,
                 pendingIO, timer, jobVars>>

RunIdle ==
  /\ Running(Idle)
  /\ LeaveCPU(Idle, 1, state, schedule, vm, res)
  /\ UNCHANGED <<nextPid, loaded, parent, pendingIO, timer, jobVars>>

\* startStopEntry while a governor is READY or BLOCKED.
StayUp ==
  /\ Running(StartStop)
  /\ HasWork
  /\ LeaveCPU(StartStop, 1, state, schedule, vm, res)
  /\ UNCHANGED <<nextPid, loaded, parent, pendingIO, timer, jobVars>>

\* Otherwise it empties the table but for the processes of type START_STOP
\* (the scheduler's own process has that type, the zero of the enumeration),
\* destroys their virtual machines and stops the timer.
Shutdown ==
  /\ Running(StartStop)
  /\ ~HasWork
  /\ LET kept == [s \in Slots |-> IF schedule[s] \in {SelfPid, StartStop}
                                  THEN schedule[s] ELSE NoPid]
     IN LeaveCPU(StartStop, 0, state, kept, {}, res)
  /\ timer' = [timer EXCEPT !.active = FALSE]
  /\ UNCHANGED <<nextPid, loaded, parent, pendingIO, jobVars>>

\* The slots contextSwitch chooses from: READY processes with a virtual machine.
Switchable == {s \in Slots : schedule[s] \in vm /\ state[schedule[s]] = "READY"}

\* On a timer interrupt the highest such process is marked RUNNING.
contextSwitch ==
  IF Switchable = {}
  THEN state
  ELSE LET s == CHOOSE s \in Switchable : \A t \in Switchable : t <= s
       IN [state EXCEPT ![schedule[s]] = "RUNNING"]

\* Nothing in the boot latches a program or supervisor interrupt in realCPU:
\* what is left of kernelHandleInterrupts is the timer.
kernelHandleInterrupts == IF timer.interruptFlag THEN contextSwitch ELSE state

checkTimerInterrupt == [timer EXCEPT !.interruptFlag = FALSE]

\* interruptHandlerEntry holds the timer resource meanwhile.
RunInterruptHandler ==
  /\ Running(InterruptHandler)
  /\ LET rm == requestResource(res, "TMR", current) IN
     IF Granted(res, "TMR")
     THEN LeaveCPU(InterruptHandler, 1,
                   Wake(kernelHandleInterrupts, schedule, Heir(rm, "TMR")),
                   schedule, vm, releaseResource(rm, "TMR"))
     ELSE LeaveCPU(InterruptHandler, 1, kernelHandleInterrupts, schedule, vm, rm)
  /\ timer' = checkTimerInterrupt
  /\ UNCHANGED <<nextPid, loaded, parent, pendingIO, jobVars>>

\* ioHandlerEntry with an empty ring.
IOIdle ==
  /\ Running(IOHandler)
  /\ pendingIO = <<>>
  /\ LeaveCPU(IOHandler, 1, state, schedule, vm, res)
  /\ UNCHANGED <<nextPid, loaded, parent, pendingIO, timer, jobVars>>

\* Mutant: the tick is not counted.
IOTick_uncounted ==
  /\ Running(IOHandler)
  /\ pendingIO # <<>>
  /\ pendingIO[1].ticks > 0
  /\ LeaveCPU(IOHandler, 1, state, schedule, vm, res)
  /\ UNCHANGED <<nextPid, loaded, parent, pendingIO, timer, jobVars>>

\* stepIO on a request that still has a tick to wait.
IOTick ==
  /\ Running(IOHandler)
  /\ pendingIO # <<>>
  /\ pendingIO[1].ticks > 0
  /\ pendingIO' = [pendingIO EXCEPT ![1].ticks = @ - 1]
  /\ LeaveCPU(IOHandler, 1, state, schedule, vm, res)
  /\ UNCHANGED <<nextPid, loaded, parent, timer, jobVars>>

\* Mutant: the owner is left to the waiter's wake-up.
completeIO_heir_only(st, g) == Wake(st, schedule, Heir(res, "IO"))

\* completeIO wakes the waiter that the release hands over to, then the owner
\* of the transfer.  Without a virtual machine it returns before either.
completeIO(st, g) == [Wake(st, schedule, Heir(res, "IO")) EXCEPT ![g] = "READY"]

\* Mutant: the request does not know that it holds the unit.
IOComplete_unheld ==
  /\ Running(IOHandler)
  /\ pendingIO # <<>>
  /\ pendingIO[1].ticks = 0
  /\ pendingIO' = Tail(pendingIO)
  /\ LET g == pendingIO[1].proc IN
     /\ owed' = owed \ {g}
     /\ LeaveCPU(IOHandler, 1, [state EXCEPT ![g] = "READY"], schedule, vm, res)
  /\ UNCHANGED <<nextPid, loaded, parent, timer, trapsLeft>>

\* stepIO on a request that is due.
IOComplete ==
  /\ Running(IOHandler)
  /\ pendingIO # <<>>
  /\ pendingIO[1].ticks = 0
  /\ pendingIO' = Tail(pendingIO)
  /\ LET g == pendingIO[1].proc IN
     IF g \in vm
     THEN /\ owed' = owed \ {g}
          /\ LeaveCPU(IOHandler, 1, completeIO(state, g), schedule, vm,
                      releaseResource(res, "IO"))
     ELSE /\ owed' = owed
          /\ LeaveCPU(IOHandler, 1, state, schedule, vm, res)
  /\ UNCHANGED <<nextPid, loaded, parent, timer, trapsLeft>>

-----------------------------------------------------------------------------
\* jobGovernorEntry

\* The first visit creates a loader and blocks; a visit before the loader has
\* finished blocks again.
GovernorLoading(g) ==
  /\ Running(g) /\ g \in vm /\ loaded[g] \in {0, 2}
  /\ LET l == (nextPid + 1) % 256 IN
     IF loaded[g] = 0
     THEN /\ nextPid' = l
          /\ parent' = [parent EXCEPT ![l] = g]
          /\ loaded' = [loaded EXCEPT ![g] = 2]
          /\ LeaveCPU(g, -1, state, addProc(schedule, l), vm, res)
     ELSE /\ UNCHANGED <<nextPid, parent, loaded>>
          /\ LeaveCPU(g, -1, state, schedule, vm, res)
  /\ UNCHANGED <<pendingIO, timer, jobVars>>

\* The program halts or fails, or there is nothing left to run: the virtual
\* machine is destroyed and the governor removed.
VMFinish(g) ==
  /\ Running(g)
  /\ g \in vm => loaded[g] \in {1, 3}
  /\ loaded' = [loaded EXCEPT ![g] = IF g \in vm THEN 3 ELSE @]
  /\ LeaveCPU(g, 0, state, schedule, vm \ {g}, res)
  /\ UNCHANGED <<nextPid, parent, pendingIO, timer, jobVars>>

\* Mutant: the outcome of the claim is not looked at.
enqueueIORequest_unclaimed(g) ==
  <<requestResource(res, "IO", g),
    Append(pendingIO, [proc |-> g, ticks |-> IOTicks])>>

\* enqueueIORequest: <<the resources, the ring>> after a request of g.  When
\* the ring is full the unit is released with no scheduler to wake a waiter.
enqueueIORequest(g) ==
  LET claimed == requestResource(res, "IO", g) IN
  IF ~Granted(res, "IO")
  THEN <<claimed, pendingIO>>
  ELSE IF Len(pendingIO) = IOCapacity
       THEN <<releaseResource(claimed, "IO"), pendingIO>>
       ELSE <<claimed, Append(pendingIO, [proc |-> g, ticks |-> IOTicks])>>

\* The program traps: the transfer is requested and the governor blocks,
\* whether or not the request was queued.
VMTrap(g) ==
  /\ Running(g) /\ g \in vm /\ loaded[g] = 1
  /\ trapsLeft[g] > 0
  /\ trapsLeft' = [trapsLeft EXCEPT ![g] = @ - 1]
  /\ owed' = owed \cup {g}
  /\ LET queued == enqueueIORequest(g) IN
     /\ pendingIO' = queued[2]
     /\ LeaveCPU(g, -1, state, schedule, vm, queued[1])
  /\ UNCHANGED <<nextPid, loaded, parent, timer>>

-----------------------------------------------------------------------------
\* loaderEntry: it ends in any case, and only a successful load marks the
\* parent loaded and READY.
RunLoader(l) ==
  /\ Running(l)
  /\ LET g == parent[l]
         claimed == requestResource(res, "MEM", l)
     IN IF ~InTable(schedule, g) \/ g \notin vm
        THEN /\ loaded' = loaded
             /\ LeaveCPU(l, 0, state, schedule, vm, res)
        ELSE IF ~Granted(res, "MEM")
        THEN /\ loaded' = loaded
             /\ LeaveCPU(l, 0, [state EXCEPT ![l] = "BLOCKED"], schedule, vm, claimed)
        ELSE \E ok \in LoadOutcomes[g] :
             LET woken == Wake(state, schedule, Heir(claimed, "MEM")) IN
             /\ loaded' = IF ok THEN [loaded EXCEPT ![g] = 1] ELSE loaded
             /\ LeaveCPU(l, 0, IF ok THEN [woken EXCEPT ![g] = "READY"] ELSE woken,
                         schedule, vm, releaseResource(claimed, "MEM"))
  /\ UNCHANGED <<nextPid, parent, pendingIO, timer, jobVars>>

-----------------------------------------------------------------------------
\* The loop of main

\* Mutant: one tick early.
tickTimer_early ==
  IF ~timer.active
  THEN timer
  ELSE IF timer.counter + 2 >= TickLimit
       THEN [timer EXCEPT !.counter = 0, !.interruptFlag = TRUE]
       ELSE [timer EXCEPT !.counter = @ + 1]

tickTimer ==
  IF ~timer.active
  THEN timer
  ELSE IF timer.counter + 1 >= TickLimit
       THEN [timer EXCEPT !.counter = 0, !.interruptFlag = TRUE]
       ELSE [timer EXCEPT !.counter = @ + 1]

PassDone == pc = "scan" /\ slot = SysLow - 1

\* Mutant: the cycles are not counted.
NextCycle_uncounted ==
  /\ PassDone /\ ~lastPass
  /\ HasWork
  /\ timer' = tickTimer
  /\ slot' = SysHigh
  /\ UNCHANGED <<pc, cycle, lastPass, procVars, current, res, pendingIO, jobVars>>

\* kernelStep, then another cycle while a governor has work.
NextCycle ==
  /\ PassDone /\ ~lastPass
  /\ HasWork /\ cycle + 1 < MaxCycles
  /\ timer' = tickTimer
  /\ slot' = SysHigh
  /\ cycle' = cycle + 1
  /\ UNCHANGED <<pc, lastPass, procVars, current, res, pendingIO, jobVars>>

\* Mutant: main returns without the runCycle after its loop.
LeaveLoop_at_once ==
  /\ PassDone /\ ~lastPass
  /\ ~HasWork \/ cycle + 1 = MaxCycles
  /\ timer' = tickTimer
  /\ pc' = "exit"
  /\ UNCHANGED <<slot, cycle, lastPass, procVars, current, res, pendingIO, jobVars>>

\* The loop ends; one more runCycle lets Start-Stop shut down.
LeaveLoop ==
  /\ PassDone /\ ~lastPass
  /\ ~HasWork \/ cycle + 1 = MaxCycles
  /\ timer' = tickTimer
  /\ slot' = SysHigh
  /\ lastPass' = TRUE
  /\ UNCHANGED <<pc, cycle, procVars, current, res, pendingIO, jobVars>>

Exit ==
  /\ PassDone /\ lastPass
  /\ pc' = "exit"
  /\ UNCHANGED <<slot, cycle, lastPass, procVars, current, res, pendingIO, timer, jobVars>>

Exited == pc = "exit" /\ UNCHANGED vars

-----------------------------------------------------------------------------
Next ==
  \/ Skip \/ Dispatch
  \/ RunSelf \/ RunIdle \/ StayUp \/ Shutdown
  \/ RunInterruptHandler
  \/ IOIdle \/ IOTick \/ IOComplete
  \/ \E g \in Governors : GovernorLoading(g) \/ VMFinish(g) \/ VMTrap(g)
  \/ \E l \in Loaders : RunLoader(l)
  \/ NextCycle \/ LeaveLoop \/ Exit \/ Exited

Spec == Init /\ [][Next]_vars

\* One thread runs main: it stops only where main returns.
FairSpec == Spec /\ WF_vars(Next)
=============================================================================
