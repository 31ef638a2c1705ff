----------------------------- MODULE JobProofs -----------------------------
(***************************************************************************)
(* The second inductive invariant of the booted kernel, JobsInv, and what  *)
(* follows from it about the jobs: none is stranded or killed, the main    *)
(* configuration ends cleanly, and the kernel implements JobLifecycle.     *)
(***************************************************************************)
EXTENDS KernelProofs

-----------------------------------------------------------------------------
\* Slots and pids

LEMMA HomeFacts ==
  /\ \A p \in Int : Home(p) = 194 - p
  /\ \A s \in Slots : s \in 80 .. 97
  /\ \A s \in 80 .. 97 : s \in Slots
  /\ \A g \in Governors : g \in Int /\ g >= 102 /\ g <= 101 + NJobs
  /\ \A l \in Loaders : l \in Int /\ l >= 102 + NJobs /\ l <= 101 + 2 * NJobs
  /\ NJobs \in 1 .. 13 /\ LastPid = 101 + 2 * NJobs
  /\ Home(102) = 92 /\ Home(102 + NJobs) = 92 - NJobs
BY NJobsAssumption
DEF Home, SelfPid, SysHigh, SysLow, Slots, Governors, Loaders, LastPid

\* A process is in the table when it is in its own slot.
LEMMA PresentHome ==
  ASSUME Placed, NEW p \in Pids
  PROVE  Present(p) <=> Home(p) \in Slots /\ schedule[Home(p)] = p
<1>1. p \in Int /\ p # NoPid
  BY PidFacts
<1>2. \A s \in Slots : schedule[s] = p => s = Home(p)
  BY <1>1, HomeFacts DEF Placed
<1>. QED BY <1>1, <1>2 DEF Present, InTable

\* The process that runs is in the slot of the scan, which is its own.
LEMMA RunnerHome ==
  ASSUME KernelInv, Placed, NEW p, Running(p)
  PROVE  /\ slot \in Slots /\ slot \in 80 .. 97 /\ slot = Home(p) /\ p = 194 - slot
         /\ p \in Pids /\ p \in Int /\ Present(p) /\ schedule[slot] = p
         /\ state[p] = "READY"
<1>1. /\ p \in Pids /\ Present(p) /\ slot \in Slots /\ schedule[slot] = p
      /\ state[p] = "READY"
  BY RunnerFacts DEF KernelInv
<1>2. p \in Int /\ p # NoPid
  BY <1>1, PidFacts
<1>3. p = Home(slot)
  BY <1>1, <1>2 DEF Placed
<1>. QED BY <1>1, <1>2, <1>3, HomeFacts

LEMMA KernelTyped ==
  ASSUME KernelInv
  PROVE  /\ slot \in Int /\ slot >= 79 /\ slot <= 97
         /\ cycle \in Nat /\ lastPass \in BOOLEAN /\ nextPid \in Int
         /\ schedule \in Tables /\ state \in [Pids -> States]
         /\ loaded \in [Governors -> 0 .. 3] /\ vm \in SUBSET Governors
         /\ parent \in [Loaders -> Governors \cup {NoPid}] /\ res \in RMs
         /\ timer \in Timers /\ owed \in SUBSET Governors
         /\ trapsLeft \in [Governors -> 0 .. MaxTraps]
BY NJobsAssumption, BoundsAssumption
DEF KernelInv, TypeOK, SysLow, SysHigh, Tables, States, RMs, Timers, LastPid

-----------------------------------------------------------------------------
\* Frames

LEMMA SameProcesses ==
  ASSUME JobsInv, UNCHANGED <<schedule, nextPid, state, loaded, vm, parent>>
  PROVE  Placed' /\ DaemonsReady' /\ ParentsSound' /\ GovernorsSound'
<1>1. \A p : Present(p)' <=> Present(p)
  BY DEF Present
<1>. QED BY <1>1 DEF JobsInv, Placed, DaemonsReady, ParentsSound, GovernorsSound

\* The transfers are as they were, but for the ticks they still wait.
SameRequests ==
  /\ DOMAIN pendingIO' = DOMAIN pendingIO /\ Len(pendingIO') = Len(pendingIO)
  /\ \A i \in DOMAIN pendingIO : pendingIO'[i].proc = pendingIO[i].proc
  /\ res'["IO"] = res["IO"]
  /\ trapsLeft' = trapsLeft /\ owed' = owed

LEMMA SameTransfers ==
  ASSUME JobsInv, SameRequests,
         \A g \in Governors : loaded'[g] = 1 /\ state'[g] = "BLOCKED" =>
                              loaded[g] = 1 /\ state[g] = "BLOCKED"
  PROVE  TrappedIsQueued' /\ OnlyIOJobsTrap' /\ DeviceAtHand'
<1>1. \A g : (IsPending(g)' <=> IsPending(g)) /\ (IsWaiting(g)' <=> IsWaiting(g))
  BY DEF SameRequests, IsPending, IsWaiting
<1>2. TrappedIsQueued'
  BY <1>1 DEF JobsInv, TrappedIsQueued, QueueHasRoom
<1>3. OnlyIOJobsTrap'
  BY DEF JobsInv, SameRequests, OnlyIOJobsTrap
<1>4. DeviceAtHand'
  BY <1>1 DEF JobsInv, SameRequests, DeviceAtHand, OneIOJob
<1>. QED BY <1>2, <1>3, <1>4

-----------------------------------------------------------------------------
\* The scan goes on

\* The scan leaves a slot whose process is no governor that could run, no loader
\* and not Start-Stop without work.
PassesOver ==
  /\ slot \in Slots /\ slot' = slot - 1 /\ pc' = "scan"
  /\ UNCHANGED <<cycle, lastPass>>
  /\ UNCHANGED <<schedule, nextPid, state, loaded, vm, parent>>
  /\ timer' \in {timer, checkTimerInterrupt}
  /\ \A g \in Governors : schedule[slot] = g => state[g] # "READY"
  /\ schedule[slot] \notin Loaders
  /\ schedule[slot] = StartStop => HasWork
  /\ SameRequests

LEMMA PassedFirstTable == ASSUME KernelInv, JobsInv, PassesOver PROVE FirstTable'
<1>. SUFFICES ASSUME FirstPass PROVE FirstTable'
  BY DEF FirstTable, FirstPass, PassesOver
<1>1. /\ slot \in Slots /\ slot' = slot - 1 /\ slot \in 80 .. 97
      /\ UNCHANGED <<schedule, nextPid, loaded>>
  BY HomeFacts DEF PassesOver
<1>2. /\ nextPid = 101 + NJobs + Visited
      /\ \A s \in Slots :
           schedule[s] = IF Home(s) <= nextPid /\ (s <= slot \/ s > Home(102 + NJobs))
                         THEN Home(s) ELSE NoPid
      /\ \A g \in Governors : loaded[g] = 0 <=> Home(g) <= slot
  BY DEF JobsInv, FirstTable
<1>3. NJobs \in 1 .. 13 /\ Visited \in 0 .. NJobs
  BY <1>1, HomeFacts DEF Visited
<1>4. \A g \in Governors : Home(g) # slot
  <2>1. SUFFICES ASSUME NEW g \in Governors, Home(g) = slot PROVE FALSE
    OBVIOUS
  <2>2. g = 194 - slot /\ g \in Int /\ g <= 101 + NJobs
    BY <1>1, <2>1, HomeFacts
  <2>3. schedule[slot] = g
    BY <1>1, <1>2, <1>3, <2>2, HomeFacts
  <2>4. loaded[g] = 0
    BY <1>2, <2>1, <1>1
  <2>5. state[g] = "READY"
    BY <2>4 DEF JobsInv, GovernorsSound
  <2>. QED BY <2>3, <2>5 DEF PassesOver
<1>5. slot > 92 \/ slot <= 92 - NJobs
  <2>1. SUFFICES ASSUME slot <= 92, slot > 92 - NJobs PROVE FALSE
    BY <1>1, <1>3
  <2>2. 194 - slot \in Governors
    BY <1>1, <1>3, <2>1 DEF Governors
  <2>3. Home(194 - slot) = slot
    BY <1>1, HomeFacts
  <2>. QED BY <1>4, <2>2, <2>3
<1>6. Visited' = Visited
  BY <1>1, <1>3, <1>5, HomeFacts DEF Visited
<1>7. ASSUME NEW s \in Slots
      PROVE  schedule[s] = IF Home(s) <= nextPid /\ (s <= slot - 1 \/ s > Home(102 + NJobs))
                           THEN Home(s) ELSE NoPid
  <2>1. CASE s # slot
    BY <1>1, <1>2, <2>1, HomeFacts
  <2>2. CASE s = slot /\ Home(s) > nextPid
    BY <1>1, <1>2, <1>3, <2>2, HomeFacts
  <2>3. CASE s = slot /\ Home(s) <= nextPid
    <3>1. schedule[s] = Home(s) /\ Home(s) = 194 - slot
      BY <1>1, <1>2, <2>3, HomeFacts
    <3>2. CASE slot > 92
      <4>1. s > Home(102 + NJobs)
        BY <1>1, <2>3, <3>2, HomeFacts
      <4>. QED BY <2>3, <3>1, <4>1
    <3>3. CASE slot <= 92 - NJobs
      <4>1. Home(s) \in Loaders
        BY <1>1, <1>2, <1>3, <2>3, <3>1, <3>3 DEF Loaders, LastPid
      <4>. QED BY <2>3, <3>1, <4>1 DEF PassesOver
    <3>. QED BY <1>5, <3>2, <3>3
  <2>. QED BY <2>1, <2>2, <2>3, <1>1, <1>2, <1>3, HomeFacts
<1>8. \A g \in Governors : loaded[g] = 0 <=> Home(g) <= slot - 1
  BY <1>1, <1>2, <1>4, HomeFacts
<1>. QED BY <1>1, <1>2, <1>6, <1>7, <1>8 DEF FirstTable

LEMMA PassedInterrupts == ASSUME KernelInv, JobsInv, PassesOver PROVE QuietInterrupts'
<1>1. /\ slot \in Slots /\ slot' = slot - 1 /\ slot \in 80 .. 97
      /\ UNCHANGED <<schedule, state, loaded, cycle, lastPass>>
      /\ timer' \in {timer, checkTimerInterrupt}
  BY HomeFacts DEF PassesOver
<1>2. FirstPass' = FirstPass /\ SecondPass' = SecondPass
  BY <1>1 DEF FirstPass, SecondPass
<1>3. /\ timer'.counter = timer.counter
      /\ ~timer.interruptFlag => ~timer'.interruptFlag
  BY <1>1, KernelTyped DEF Timers, checkTimerInterrupt
<1>4. ASSUME NEW g \in Governors, loaded[g] = 1, state[g] = "READY", Home(g) = slot
      PROVE  FALSE
  <2>1. Present(g) /\ g \in Pids
    BY <1>4, PidFacts DEF JobsInv, GovernorsSound
  <2>2. schedule[slot] = g
    BY <1>4, <2>1, PresentHome DEF JobsInv
  <2>. QED BY <1>4, <2>2 DEF PassesOver
<1>5. ASSUME ~FirstPass, NEW g \in Governors, loaded[g] = 1, state[g] = "READY"
      PROVE  Home(g) <= slot - 1 /\ (SecondPass \/ slot - 1 < Home(IOHandler))
  <2>1. Home(g) <= slot /\ (SecondPass \/ slot < Home(IOHandler))
    BY <1>5 DEF JobsInv, QuietInterrupts
  <2>. QED BY <1>1, <1>4, <1>5, <2>1, HomeFacts DEF IOHandler
<1>. QED BY <1>1, <1>2, <1>3, <1>5 DEF JobsInv, QuietInterrupts

LEMMA PassedShutdown == ASSUME KernelInv, JobsInv, PassesOver PROVE ShutdownSound'
<1>1. /\ slot \in Slots /\ slot' = slot - 1 /\ slot \in 80 .. 97 /\ pc' = "scan"
      /\ UNCHANGED <<schedule, loaded, cycle, lastPass>>
      /\ timer' \in {timer, checkTimerInterrupt}
  BY HomeFacts DEF PassesOver
<1>2. timer'.active = timer.active
  BY <1>1, KernelTyped DEF Timers, checkTimerInterrupt
<1>3. \A p : Present(p)' <=> Present(p)
  BY <1>1 DEF Present
<1>4. ASSUME lastPass, cycle + 1 < MaxCycles, slot = Home(StartStop), Present(StartStop)
      PROVE  FALSE
  <2>1. schedule[slot] = StartStop
    BY <1>4, PidFacts, PresentHome DEF JobsInv
  <2>2. PICK g \in Governors : InTable(schedule, g)
    BY <2>1 DEF PassesOver, HasWork
  <2>3. loaded[g] = 3
    BY <1>4 DEF JobsInv, ShutdownSound
  <2>. QED BY <2>2, <2>3 DEF JobsInv, GovernorsSound, Present
<1>5. slot - 1 < Home(StartStop) => slot = Home(StartStop) \/ slot < Home(StartStop)
  BY <1>1, HomeFacts DEF StartStop
<1>. QED BY <1>1, <1>2, <1>3, <1>4, <1>5 DEF JobsInv, ShutdownSound

LEMMA PassedLoads == ASSUME KernelInv, JobsInv, PassesOver PROVE LoadsAtOnce'
<1>1. /\ slot \in Slots /\ slot' = slot - 1 /\ slot \in 80 .. 97
      /\ UNCHANGED <<schedule, loaded, cycle, lastPass>>
  BY HomeFacts DEF PassesOver
<1>2. SUFFICES ASSUME NEW g \in Governors, SureLoad(g), loaded[g] = 2
      PROVE  FirstPass' /\ Home(g + NJobs) <= slot - 1
  BY <1>1 DEF LoadsAtOnce, SureLoad
<1>3. FirstPass /\ Home(g + NJobs) <= slot /\ FirstPass'
  BY <1>1, <1>2 DEF JobsInv, LoadsAtOnce, FirstPass
<1>4. ASSUME Home(g + NJobs) = slot PROVE FALSE
  <2>1. slot <= 92 - NJobs /\ NJobs \in 1 .. 13 /\ g + NJobs = 194 - slot
    BY <1>1, <1>4, HomeFacts
  <2>2. Visited = NJobs
    BY <1>1, <2>1, HomeFacts DEF Visited
  <2>3. nextPid = 101 + 2 * NJobs
    BY <1>3, <2>1, <2>2 DEF JobsInv, FirstTable
  <2>4. g + NJobs \in Loaders
    BY HomeFacts DEF Loaders
  <2>5. schedule[slot] = g + NJobs
    <3>1. Home(slot) = g + NJobs /\ Home(slot) <= nextPid
      BY <1>1, <2>1, <2>3, HomeFacts
    <3>. QED BY <1>1, <1>3, <3>1 DEF JobsInv, FirstTable
  <2>. QED BY <2>4, <2>5 DEF PassesOver
<1>. QED BY <1>1, <1>3, <1>4, HomeFacts

LEMMA Passed == ASSUME KernelInv, JobsInv, PassesOver PROVE JobsInv'
<1>1. Placed' /\ DaemonsReady' /\ ParentsSound' /\ GovernorsSound'
  BY SameProcesses DEF PassesOver
<1>2. FirstTable' /\ QuietInterrupts' /\ ShutdownSound' /\ LoadsAtOnce'
  BY PassedFirstTable, PassedInterrupts, PassedShutdown, PassedLoads
<1>3. LaterTable'
  BY DEF JobsInv, LaterTable, PassesOver, FirstPass, Present
<1>4. TrappedIsQueued' /\ OnlyIOJobsTrap' /\ DeviceAtHand'
  BY SameTransfers DEF PassesOver
<1>. QED BY <1>1, <1>2, <1>3, <1>4 DEF JobsInv

LEMMA SkipPasses == ASSUME KernelInv, JobsInv, Skip PROVE PassesOver
<1>1. /\ slot \in Slots /\ slot' = slot - 1 /\ pc' = "scan" /\ ~Runnable(slot)
      /\ UNCHANGED <<cycle, lastPass>>
      /\ UNCHANGED <<schedule, nextPid, state, loaded, vm, parent>>
      /\ UNCHANGED <<res, pendingIO, timer, trapsLeft, owed>>
  BY DEF Skip, procVars, jobVars
<1>2. \A p \in Pids \ Governors : state[p] = "READY"
  BY DEF JobsInv, DaemonsReady
<1>3. schedule[slot] \notin Loaders /\ schedule[slot] # StartStop
  BY <1>1, <1>2, PidFacts DEF Runnable
<1>4. \A g \in Governors : schedule[slot] = g => state[g] # "READY"
  BY <1>1, PidFacts DEF Runnable
<1>5. SameRequests
  BY <1>1 DEF SameRequests
<1>. QED BY <1>1, <1>3, <1>4, <1>5 DEF PassesOver

\* A daemon that leaves the processes as they are.
LEMMA QuietLeave ==
  ASSUME KernelInv, JobsInv, NEW p \in Pids \ (Governors \cup Loaders), Running(p),
         LeaveCPU(p, 1, state, schedule, vm, res),
         UNCHANGED <<nextPid, loaded, parent, jobVars>>,
         DOMAIN pendingIO' = DOMAIN pendingIO, Len(pendingIO') = Len(pendingIO),
         \A i \in DOMAIN pendingIO : pendingIO'[i].proc = pendingIO[i].proc,
         timer' \in {timer, checkTimerInterrupt},
         p = StartStop => HasWork
  PROVE  PassesOver
<1>1. /\ schedule \in Tables /\ vm \in SUBSET Governors /\ res \in RMs
      /\ state \in [Pids -> States] /\ state[p] = "READY" /\ schedule[slot] = p
      /\ slot \in Slots
  BY RunnerFacts DEF KernelInv
<1>2. /\ schedule' = schedule /\ vm' = vm /\ res'["IO"] = res["IO"]
      /\ state' = [state EXCEPT ![p] = "READY"]
  BY <1>1, LeaveReady DEF KernelInv
<1>3. state' = state
  BY <1>1, <1>2
<1>4. pc' = "scan" /\ slot' = slot - 1 /\ UNCHANGED <<cycle, lastPass>>
  BY DEF LeaveCPU
<1>5. SameRequests
  BY <1>2 DEF SameRequests, jobVars
<1>. QED BY <1>1, <1>2, <1>3, <1>4, <1>5 DEF PassesOver

LEMMA RunSelfPasses == ASSUME KernelInv, JobsInv, RunSelf PROVE PassesOver
<1>1. /\ Running(SelfPid) /\ SelfPid \in Pids /\ SelfPid \notin Governors
      /\ SelfPid \notin Loaders /\ SelfPid # StartStop
  BY PidFacts DEF RunSelf, SelfPid, StartStop
<1>2. schedule[slot] = SelfPid /\ slot \in Slots /\ res \in RMs
  BY <1>1, RunnerFacts DEF KernelInv
<1>3. res["CPU"].waitPids = <<>>
  BY DEF KernelInv, UnitsReturned
<1>4. /\ pc' = "scan" /\ slot' = slot - 1 /\ state' = state
      /\ res' = releaseResource(res, "CPU")
      /\ UNCHANGED <<cycle, lastPass, schedule, nextPid, loaded, vm, parent,
                     pendingIO, timer, jobVars>>
  BY <1>3, WakeNobody DEF RunSelf, Heir
<1>5. res'["IO"] = res["IO"]
  BY <1>2, <1>4, ReleaseEffect DEF Resource
<1>6. SameRequests
  BY <1>4, <1>5 DEF SameRequests, jobVars
<1>. QED BY <1>1, <1>2, <1>4, <1>6 DEF PassesOver

LEMMA DaemonPasses ==
  ASSUME KernelInv, JobsInv, RunIdle \/ StayUp \/ IOIdle PROVE PassesOver
<1>. SUFFICES ASSUME NEW p \in {Idle, StartStop, IOHandler}, Running(p),
                     LeaveCPU(p, 1, state, schedule, vm, res),
                     UNCHANGED <<nextPid, loaded, parent, pendingIO, timer, jobVars>>,
                     p = StartStop => HasWork
     PROVE  PassesOver
  BY DEF RunIdle, StayUp, IOIdle, Idle, StartStop, IOHandler
<1>1. p \in Pids \ (Governors \cup Loaders)
  BY PidFacts
<1>. QED BY <1>1, QuietLeave

\* The ring keeps its length and its processes when the oldest request is ticked.
LEMMA TickedRing ==
  ASSUME KernelInv, pendingIO # <<>>, pendingIO' = [pendingIO EXCEPT ![1].ticks = @ - 1],
         pendingIO[1].ticks > 0
  PROVE  /\ DOMAIN pendingIO' = DOMAIN pendingIO /\ Len(pendingIO') = Len(pendingIO)
         /\ \A i \in DOMAIN pendingIO : pendingIO'[i].proc = pendingIO[i].proc
<1>1. pendingIO \in Seq(Requests)
  BY PendingTyped DEF KernelInv
<1>2. 1 \in 1 .. Len(pendingIO)
  BY <1>1, EmptySeq
<1>3. pendingIO[1] \in Requests
  BY <1>1, <1>2, ElementOfSeq
<1>. DEFINE e == [pendingIO[1] EXCEPT !.ticks = @ - 1]
<1>4. e \in Requests /\ e.proc = pendingIO[1].proc
  BY <1>3 DEF Requests, IOTicks
<1>5. pendingIO' = [pendingIO EXCEPT ![1] = e]
  OBVIOUS
<1>. HIDE DEF e
<1>6. /\ pendingIO' \in Seq(Requests) /\ Len(pendingIO') = Len(pendingIO)
      /\ \A j \in 1 .. Len(pendingIO) :
           pendingIO'[j] = IF j = 1 THEN e ELSE pendingIO[j]
  BY <1>1, <1>2, <1>4, <1>5, ExceptSeq
<1>7. DOMAIN pendingIO = 1 .. Len(pendingIO)
  BY PendingTyped DEF KernelInv
<1>. QED BY <1>4, <1>5, <1>6, <1>7

LEMMA IOTickPasses == ASSUME KernelInv, JobsInv, IOTick PROVE PassesOver
<1>1. Running(IOHandler) /\ IOHandler \in Pids \ (Governors \cup Loaders)
  BY PidFacts DEF IOTick
<1>2. /\ pendingIO # <<>> /\ pendingIO' = [pendingIO EXCEPT ![1].ticks = @ - 1]
      /\ pendingIO[1].ticks > 0
      /\ LeaveCPU(IOHandler, 1, state, schedule, vm, res)
      /\ UNCHANGED <<nextPid, loaded, parent, timer, jobVars>>
  BY DEF IOTick
<1>3. IOHandler # StartStop
  BY DEF IOHandler, StartStop
<1>. QED BY <1>1, <1>2, <1>3, TickedRing, QuietLeave

\* A timer interrupt finds no governor that contextSwitch could mark RUNNING.
LEMMA NobodySwitched ==
  ASSUME KernelInv, JobsInv, Running(InterruptHandler)
  PROVE  kernelHandleInterrupts = state
<1>1. CASE ~timer.interruptFlag
  BY <1>1 DEF kernelHandleInterrupts
<1>2. CASE timer.interruptFlag
  <2>1. ~FirstPass /\ ~SecondPass
    BY <1>2 DEF JobsInv, QuietInterrupts
  <2>2. slot = Home(InterruptHandler)
    BY RunnerHome DEF JobsInv
  <2>3. ~(slot < Home(IOHandler))
    BY <2>2, HomeFacts DEF InterruptHandler, IOHandler
  <2>4. Switchable = {}
    <3>1. SUFFICES ASSUME NEW s \in Slots, schedule[s] \in vm, state[schedule[s]] = "READY"
          PROVE  FALSE
      BY DEF Switchable
    <3>2. schedule[s] \in Governors
      BY <3>1, KernelTyped
    <3>3. Present(schedule[s])
      BY <3>2, PidFacts DEF Present, InTable
    <3>4. loaded[schedule[s]] \in 0 .. 3 /\ loaded[schedule[s]] \notin {0, 2, 3}
      BY <2>1, <3>1, <3>2, <3>3, KernelTyped DEF JobsInv, GovernorsSound, LaterTable
    <3>5. loaded[schedule[s]] = 1
      BY <3>4
    <3>. QED BY <2>1, <2>3, <3>1, <3>2, <3>5 DEF JobsInv, QuietInterrupts
  <2>. QED BY <2>4 DEF kernelHandleInterrupts, contextSwitch
<1>. QED BY <1>1, <1>2

LEMMA InterruptPasses ==
  ASSUME KernelInv, JobsInv, RunInterruptHandler PROVE PassesOver
<1>1. /\ Running(InterruptHandler) /\ InterruptHandler \in Pids \ (Governors \cup Loaders)
      /\ InterruptHandler # StartStop
  BY PidFacts DEF RunInterruptHandler, InterruptHandler, StartStop
<1>2. kernelHandleInterrupts = state
  BY <1>1, NobodySwitched
<1>3. current \in Pids /\ res \in RMs
  BY <1>1, RunnerFacts DEF KernelInv
<1>4. Granted(res, "TMR") /\ res["TMR"].waitPids = <<>> /\ "TMR" \in Resource
  BY DEF KernelInv, UnitsReturned, Granted, Units, Resource
<1>5. /\ releaseResource(requestResource(res, "TMR", current), "TMR") = res
      /\ Heir(requestResource(res, "TMR", current), "TMR") = NoPid
  BY <1>3, <1>4, RequestRelease
<1>6. /\ LeaveCPU(InterruptHandler, 1, state, schedule, vm, res)
      /\ UNCHANGED <<nextPid, loaded, parent, pendingIO, jobVars>>
      /\ timer' = checkTimerInterrupt
  BY <1>2, <1>4, <1>5, WakeNobody DEF RunInterruptHandler
<1>. QED BY <1>1, <1>6, QuietLeave

LEMMA QuietPasses ==
  ASSUME KernelInv, JobsInv,
         Skip \/ RunSelf \/ RunIdle \/ StayUp \/ IOIdle \/ IOTick \/ RunInterruptHandler
  PROVE  PassesOver
BY SkipPasses, RunSelfPasses, DaemonPasses, IOTickPasses, InterruptPasses

-----------------------------------------------------------------------------
\* The loop

\* No process and no request changes.
StandsStill == UNCHANGED <<schedule, nextPid, state, loaded, vm, parent>> /\ SameRequests

LEMMA DispatchStandsStill ==
  ASSUME KernelInv, JobsInv, Dispatch
  PROVE  StandsStill /\ pc' = "run" /\ UNCHANGED <<slot, cycle, lastPass, timer>>
<1>. DEFINE next == schedule[slot]
<1>1. /\ next \in Pids /\ state[next] = "READY" /\ Granted(res, "CPU") /\ pc = "scan"
      /\ res \in RMs /\ state \in [Pids -> States]
  BY KernelTyped
  DEF Dispatch, Runnable, KernelInv, UnitsReturned, Granted, Tables
<1>2. /\ pc' = "run" /\ slot' = slot /\ state' = saveContext(next)
      /\ res' = requestResource(res, "CPU", next)
      /\ UNCHANGED <<cycle, lastPass, schedule, nextPid, loaded, vm, parent,
                     pendingIO, timer, jobVars>>
  BY <1>1 DEF Dispatch
<1>3. state' = state
  <2>1. current \in {NoPid, SelfPid}
    BY <1>1 DEF KernelInv, RunSound
  <2>2. state[SelfPid] = "READY"
    BY PidFacts DEF JobsInv, DaemonsReady
  <2>. QED BY <1>1, <1>2, <2>1, <2>2 DEF saveContext
<1>4. res'["IO"] = res["IO"]
  BY <1>1, <1>2, RequestEffect DEF Resource
<1>5. SameRequests
  BY <1>2, <1>4 DEF SameRequests, jobVars
<1>. QED BY <1>2, <1>3, <1>5 DEF StandsStill

LEMMA DispatchKeepsJobs == ASSUME KernelInv, JobsInv, Dispatch PROVE JobsInv'
<1>1. /\ StandsStill /\ pc' = "run" /\ UNCHANGED <<slot, cycle, lastPass, timer>>
      /\ UNCHANGED <<schedule, nextPid, state, loaded, vm, parent>>
  BY DispatchStandsStill DEF StandsStill
<1>2. Placed' /\ DaemonsReady' /\ ParentsSound' /\ GovernorsSound'
  BY <1>1, SameProcesses
<1>3. TrappedIsQueued' /\ OnlyIOJobsTrap' /\ DeviceAtHand'
  BY <1>1, SameTransfers DEF StandsStill
<1>4. FirstTable' /\ LaterTable' /\ LoadsAtOnce'
  BY <1>1
  DEF JobsInv, FirstTable, LaterTable, LoadsAtOnce, SureLoad, FirstPass, Visited, Present
<1>5. QuietInterrupts' /\ ShutdownSound'
  BY <1>1
  DEF JobsInv, QuietInterrupts, ShutdownSound, FirstPass, SecondPass, Present
<1>. QED BY <1>2, <1>3, <1>4, <1>5 DEF JobsInv

\* After the first pass no loader is left, and every governor has been visited.
LEMMA FirstPassOver ==
  ASSUME KernelInv, JobsInv, slot = SysLow - 1
  PROVE  /\ \A g \in Governors : loaded[g] # 0 /\ ~(SureLoad(g) /\ loaded[g] = 2)
         /\ \A l \in Loaders : ~Present(l)
         /\ ~FirstPass => \A g \in Governors : ~(loaded[g] = 1 /\ state[g] = "READY")
<1>1. slot = 79
  BY DEF SysLow
<1>2. \A g \in Governors : Home(g) > slot
  BY <1>1, HomeFacts
<1>3. ASSUME NEW l \in Loaders, Present(l), FirstPass PROVE FALSE
  <2>1. Home(l) \in Slots /\ schedule[Home(l)] = l
    BY <1>3, PidFacts, PresentHome DEF JobsInv
  <2>2. l # NoPid
    BY PidFacts
  <2>3. Home(l) > 92 - NJobs
    BY <1>1, <1>3, <2>1, <2>2, HomeFacts DEF JobsInv, FirstTable
  <2>. QED BY <2>3, HomeFacts
<1>4. ASSUME NEW g \in Governors PROVE ~(SureLoad(g) /\ loaded[g] = 2)
  <2>1. SUFFICES ASSUME SureLoad(g), loaded[g] = 2 PROVE FALSE
    OBVIOUS
  <2>2. Home(g + NJobs) <= slot /\ Home(g + NJobs) >= SysLow
    BY <2>1 DEF JobsInv, LoadsAtOnce, SureLoad
  <2>3. Home(g + NJobs) \in Int
    BY HomeFacts
  <2>. QED BY <1>1, <2>2, <2>3 DEF SysLow
<1>5. \A g \in Governors : loaded[g] # 0
  BY <1>2, <1>1, HomeFacts DEF JobsInv, FirstTable, LaterTable
<1>6. ASSUME ~FirstPass, NEW g \in Governors, loaded[g] = 1, state[g] = "READY" PROVE FALSE
  <2>1. Home(g) <= slot
    BY <1>6 DEF JobsInv, QuietInterrupts
  <2>. QED BY <1>1, <1>2, <2>1, HomeFacts
<1>. QED BY <1>3, <1>4, <1>5, <1>6 DEF JobsInv, LaterTable

LEMMA TickEffect ==
  ASSUME TypeOK
  PROVE  /\ tickTimer.active = timer.active
         /\ timer.counter = 0 /\ ~timer.interruptFlag => ~tickTimer.interruptFlag
<1>1. timer \in Timers
  BY DEF TypeOK, Timers
<1>2. CASE ~timer.active
  BY <1>1, <1>2 DEF tickTimer
<1>3. CASE timer.active /\ timer.counter + 1 >= TickLimit
  <2>1. tickTimer = [counter |-> 0, active |-> timer.active, interruptFlag |-> TRUE]
    BY <1>1, <1>3 DEF tickTimer, Timers
  <2>2. timer.counter # 0
    BY <1>3, TickAssumption
  <2>. QED BY <2>1, <2>2
<1>4. CASE timer.active /\ ~(timer.counter + 1 >= TickLimit)
  BY <1>1, <1>4 DEF tickTimer, Timers
<1>. QED BY <1>2, <1>3, <1>4

LEMMA CycleKeepsJobs ==
  ASSUME KernelInv, JobsInv, NextCycle \/ LeaveLoop PROVE JobsInv'
<1>1. /\ pc = "scan" /\ pc' = pc /\ slot = SysLow - 1 /\ slot' = SysHigh /\ timer' = tickTimer
      /\ ~lastPass
      /\ UNCHANGED <<schedule, nextPid, state, loaded, vm, parent>>
      /\ UNCHANGED <<res, pendingIO, trapsLeft, owed>>
  BY DEF NextCycle, LeaveLoop, PassDone, procVars, jobVars
<1>2. \/ lastPass' /\ cycle' = cycle /\ (~HasWork \/ cycle + 1 = MaxCycles)
      \/ ~lastPass' /\ cycle' = cycle + 1
  BY <1>1 DEF NextCycle, LeaveLoop
<1>3. cycle \in Nat /\ MaxCycles \in Nat
  BY KernelTyped, BoundsAssumption
<1>4. ~FirstPass' /\ (SecondPass' => FirstPass) /\ (FirstPass => SecondPass')
  BY <1>1, <1>2, <1>3 DEF FirstPass, SecondPass
<1>5. /\ \A g \in Governors : loaded[g] # 0 /\ ~(SureLoad(g) /\ loaded[g] = 2)
      /\ \A l \in Loaders : ~Present(l)
      /\ ~FirstPass => \A g \in Governors : ~(loaded[g] = 1 /\ state[g] = "READY")
  BY <1>1, FirstPassOver
<1>6. \A p : Present(p)' <=> Present(p)
  BY <1>1 DEF Present
<1>7. Placed' /\ DaemonsReady' /\ ParentsSound' /\ GovernorsSound'
  BY <1>1, SameProcesses
<1>8. TrappedIsQueued' /\ OnlyIOJobsTrap' /\ DeviceAtHand'
  BY <1>1, SameTransfers DEF SameRequests
<1>9. FirstTable' /\ LaterTable'
  BY <1>1, <1>4, <1>5, <1>6 DEF FirstTable, LaterTable
<1>10. /\ tickTimer.active = timer.active
       /\ timer.counter = 0 /\ ~timer.interruptFlag => ~tickTimer.interruptFlag
  BY TickEffect DEF KernelInv
<1>11. QuietInterrupts'
  <2>1. SecondPass' => ~timer'.interruptFlag
    BY <1>1, <1>4, <1>10 DEF JobsInv, QuietInterrupts
  <2>2. \A g \in Governors : Home(g) <= slot'
    BY <1>1, HomeFacts DEF SysHigh
  <2>. QED BY <1>1, <1>4, <1>5, <2>1, <2>2 DEF QuietInterrupts
<1>12. ShutdownSound'
  <2>1. ASSUME lastPass', cycle' + 1 < MaxCycles, NEW g \in Governors PROVE loaded[g] = 3
    <3>1. ~HasWork
      BY <1>1, <1>2, <1>3, <2>1
    <3>2. ~Present(g)
      BY <3>1 DEF HasWork, Present, JobsInv, GovernorsSound
    <3>. QED BY <3>2 DEF JobsInv, GovernorsSound
  <2>2. ~(slot' < Home(StartStop))
    BY <1>1, HomeFacts DEF SysHigh, StartStop
  <2>. QED BY <1>1, <1>6, <1>10, <2>1, <2>2 DEF JobsInv, ShutdownSound
<1>13. LoadsAtOnce'
  BY <1>1, <1>5 DEF LoadsAtOnce, SureLoad
<1>. QED BY <1>7, <1>8, <1>9, <1>11, <1>12, <1>13 DEF JobsInv

LEMMA ExitKeepsJobs == ASSUME KernelInv, JobsInv, Exit \/ UNCHANGED vars PROVE JobsInv'
<1>1. /\ UNCHANGED <<slot, cycle, lastPass, timer>>
      /\ UNCHANGED <<schedule, nextPid, state, loaded, vm, parent>>
      /\ UNCHANGED <<res, pendingIO, trapsLeft, owed>>
      /\ pc' = pc \/ (pc' = "exit" /\ lastPass /\ slot = SysLow - 1)
  BY DEF Exit, PassDone, procVars, jobVars, vars
<1>2. Placed' /\ DaemonsReady' /\ ParentsSound' /\ GovernorsSound'
  BY <1>1, SameProcesses
<1>3. TrappedIsQueued' /\ OnlyIOJobsTrap' /\ DeviceAtHand'
  BY <1>1, SameTransfers DEF SameRequests
<1>4. FirstTable' /\ LaterTable' /\ LoadsAtOnce'
  BY <1>1
  DEF JobsInv, FirstTable, LaterTable, LoadsAtOnce, SureLoad, FirstPass, Visited, Present
<1>5. QuietInterrupts' /\ ShutdownSound'
  BY <1>1
  DEF JobsInv, QuietInterrupts, ShutdownSound, FirstPass, SecondPass, Present
<1>. QED BY <1>2, <1>3, <1>4, <1>5 DEF JobsInv

-----------------------------------------------------------------------------
\* Start-Stop

\* What Start-Stop does when it finds no work: no governor is in the table then,
\* and it leaves nothing there but the scheduler's own process.
LEMMA ShutdownEffect ==
  ASSUME KernelInv, JobsInv, Shutdown
  PROVE  /\ \A g \in Governors : loaded[g] = 3 /\ ~Present(g)
         /\ ~FirstPass
         /\ pc' = "scan" /\ slot' = slot - 1 /\ slot = Home(StartStop)
         /\ \A s \in Slots : schedule'[s] = IF schedule[s] = SelfPid THEN SelfPid ELSE NoPid
         /\ state' = state /\ res'["IO"] = res["IO"]
         /\ timer' = [timer EXCEPT !.active = FALSE]
         /\ UNCHANGED <<cycle, lastPass, nextPid, loaded, parent, pendingIO, trapsLeft, owed>>
<1>. DEFINE kept == [s \in Slots |-> IF schedule[s] \in {SelfPid, StartStop}
                                     THEN schedule[s] ELSE NoPid]
<1>1. Running(StartStop) /\ StartStop \in Pids /\ ~HasWork
  BY PidFacts DEF Shutdown
<1>2. schedule \in Tables /\ res \in RMs /\ state \in [Pids -> States] /\ kept \in Tables
  <2>1. schedule \in Tables /\ res \in RMs /\ state \in [Pids -> States]
    BY KernelTyped
  <2>. QED BY <2>1 DEF Tables
<1>3. /\ LeaveCPU(StartStop, 0, state, kept, {}, res)
      /\ timer' = [timer EXCEPT !.active = FALSE]
      /\ UNCHANGED <<nextPid, loaded, parent, pendingIO, trapsLeft, owed>>
  BY DEF Shutdown, jobVars
<1>4. pc' = "scan" /\ slot' = slot - 1 /\ UNCHANGED <<cycle, lastPass>>
  BY <1>3 DEF LeaveCPU
<1>5. slot = Home(StartStop)
  BY <1>1, RunnerHome DEF JobsInv
<1>6. \A s \in Slots : kept[s] = IF schedule[s] \in {SelfPid, StartStop}
                                 THEN schedule[s] ELSE NoPid
  OBVIOUS
<1>. HIDE DEF kept
<1>7. /\ schedule' = removeProcP(kept, StartStop) /\ state' = state /\ res'["IO"] = res["IO"]
  BY <1>1, <1>2, <1>3, LeaveRemoved DEF KernelInv
<1>8. \A s \in Slots : schedule'[s] = IF schedule[s] = SelfPid THEN SelfPid ELSE NoPid
  BY <1>6, <1>7 DEF removeProcP, SelfPid, StartStop, NoPid
<1>9. ASSUME NEW g \in Governors PROVE loaded[g] = 3 /\ ~Present(g)
  BY <1>1 DEF HasWork, Present, JobsInv, GovernorsSound
<1>10. ~FirstPass
  <2>1. SUFFICES ASSUME FirstPass PROVE FALSE
    OBVIOUS
  <2>2. 102 \in Governors
    BY NJobsAssumption DEF Governors
  <2>3. loaded[102] = 0
    BY <1>5, <2>1, <2>2, HomeFacts DEF JobsInv, FirstTable, StartStop
  <2>. QED BY <1>9, <2>2, <2>3
<1>. QED BY <1>3, <1>4, <1>5, <1>7, <1>8, <1>9, <1>10

LEMMA ShutdownKeepsJobs == ASSUME KernelInv, JobsInv, Shutdown PROVE JobsInv'
<1>1. /\ \A g \in Governors : loaded[g] = 3 /\ ~Present(g)
      /\ ~FirstPass
      /\ pc' = "scan" /\ slot' = slot - 1 /\ slot = Home(StartStop)
      /\ \A s \in Slots : schedule'[s] = IF schedule[s] = SelfPid THEN SelfPid ELSE NoPid
      /\ state' = state /\ res'["IO"] = res["IO"]
      /\ timer' = [timer EXCEPT !.active = FALSE]
      /\ UNCHANGED <<cycle, lastPass, nextPid, loaded, parent, pendingIO, trapsLeft, owed>>
  BY ShutdownEffect
<1>2. ~FirstPass' /\ SecondPass' = SecondPass
  BY <1>1 DEF FirstPass, SecondPass
<1>3. \A p \in Pids : Present(p)' => p = SelfPid
  BY <1>1, PidFacts DEF Present, InTable
<1>4. Placed' /\ DaemonsReady' /\ ParentsSound'
  BY <1>1 DEF JobsInv, Placed, DaemonsReady, ParentsSound
<1>5. GovernorsSound'
  BY <1>1, <1>3, PidFacts DEF GovernorsSound
<1>6. TrappedIsQueued' /\ OnlyIOJobsTrap' /\ DeviceAtHand'
  BY <1>1, SameTransfers DEF SameRequests
<1>7. FirstTable' /\ LaterTable'
  BY <1>1, <1>2, <1>3, PidFacts DEF FirstTable, LaterTable
<1>8. QuietInterrupts'
  <2>1. timer'.interruptFlag = timer.interruptFlag
    BY <1>1, KernelTyped DEF Timers
  <2>. QED BY <1>1, <1>2, <2>1 DEF JobsInv, QuietInterrupts
<1>9. ShutdownSound'
  <2>1. timer'.active = FALSE /\ ~Present(StartStop)'
    <3>1. StartStop \in Pids /\ StartStop # SelfPid
      BY PidFacts DEF StartStop, SelfPid
    <3>. QED BY <1>1, <1>3, <3>1, KernelTyped DEF Timers
  <2>. QED BY <1>1, <2>1 DEF ShutdownSound
<1>10. LoadsAtOnce'
  BY <1>1 DEF LoadsAtOnce
<1>. QED BY <1>4, <1>5, <1>6, <1>7, <1>8, <1>9, <1>10 DEF JobsInv

-----------------------------------------------------------------------------
\* The end of a transfer

\* Its owner and the waiter it wakes, both parked until then, become READY.
LEMMA IOCompleteWakes ==
  ASSUME KernelInv, JobsInv, IOComplete
  PROVE  /\ \A p \in Pids \ Governors : state'[p] = state[p]
         /\ \A g \in Governors : state'[g] = state[g] \/ (Parked(g) /\ state'[g] = "READY")
         /\ state'[pendingIO[1].proc] = "READY"
         /\ res["IO"].waitPids # <<>> => state'[res["IO"].waitPids[1]] = "READY"
<1>. DEFINE g == pendingIO[1].proc
            q == res["IO"].waitPids
<1>1. /\ g \in Governors /\ Parked(g) /\ Running(IOHandler)
      /\ state' = [completeIO(state, g) EXCEPT ![IOHandler] = "READY"]
      /\ completeIO(state, g) \in [Pids -> States]
      /\ \A p \in Pids : p # g /\ p # Heir(res, "IO") => completeIO(state, g)[p] = state[p]
  BY IOCompleteEffect
<1>2. IOHandler \in Pids /\ IOHandler \notin Governors /\ Governors \subseteq Pids
  BY PidFacts
<1>3. state[IOHandler] = "READY"
  BY <1>2 DEF JobsInv, DaemonsReady
<1>4. state'[g] = "READY"
  <2>1. state \in [Pids -> States] /\ Wake(state, schedule, Heir(res, "IO")) \in [Pids -> States]
    BY KernelTyped DEF Wake, States
  <2>2. completeIO(state, g)[g] = "READY"
    BY <1>1, <1>2, <2>1 DEF completeIO
  <2>. QED BY <1>1, <1>2, <2>2
<1>5. \A p \in Pids : p # g /\ p # Heir(res, "IO") => state'[p] = state[p]
  BY <1>1, <1>2, <1>3
<1>6. CASE q = <<>>
  <2>1. Heir(res, "IO") = NoPid
    BY <1>6 DEF Heir
  <2>2. Heir(res, "IO") \notin Pids
    BY <2>1, PidFacts
  <2>. QED BY <1>1, <1>2, <1>4, <1>5, <1>6, <2>2
<1>7. CASE q # <<>>
  <2>1. Heir(res, "IO") = q[1]
    BY <1>7 DEF Heir
  <2>2. 1 \in DOMAIN q
    <3>1. q \in Seq(Pids) /\ DOMAIN q = 1 .. Len(q)
      BY QueueTyped DEF KernelInv
    <3>. QED BY <1>7, <3>1, EmptySeq
  <2>3. q[1] \in Governors /\ Parked(q[1])
    BY <2>2 DEF KernelInv, DeviceSound, WaitQueueSound
  <2>4. state'[q[1]] = "READY"
    <3>1. InTable(schedule, q[1])
      BY <2>3 DEF Parked, Present
    <3>2. completeIO(state, g) = [[state EXCEPT ![q[1]] = "READY"] EXCEPT ![g] = "READY"]
      BY <2>1, <3>1 DEF completeIO, Wake
    <3>3. state \in [Pids -> States] /\ q[1] \in Pids
      BY <2>3, KernelTyped, PidFacts
    <3>4. completeIO(state, g)[q[1]] = "READY"
      BY <3>2, <3>3
    <3>. QED BY <1>1, <1>2, <3>3, <3>4
  <2>. QED BY <1>1, <1>2, <1>4, <1>5, <2>1, <2>3, <2>4
<1>. QED BY <1>6, <1>7

LEMMA IOCompleteTransfers ==
  ASSUME KernelInv, JobsInv, IOComplete
  PROVE  TrappedIsQueued' /\ OnlyIOJobsTrap' /\ DeviceAtHand'
<1>. DEFINE g == pendingIO[1].proc
            q == res["IO"].waitPids
<1>1. /\ Len(pendingIO) = 1 /\ DOMAIN pendingIO = {1} /\ g \in Governors /\ Parked(g)
      /\ q = <<>> => res'["IO"].available = 1 /\ res'["IO"].waitPids = <<>>
      /\ q # <<>> => res'["IO"].available = 0 /\ res'["IO"].waitPids = Tail(q)
      /\ pendingIO' = <<>> /\ owed' = owed \ {g}
      /\ UNCHANGED <<loaded, trapsLeft>>
  BY IOCompleteEffect
<1>2. /\ \A h \in Governors : state'[h] = state[h] \/ state'[h] = "READY"
      /\ state'[g] = "READY"
      /\ q # <<>> => state'[q[1]] = "READY"
  BY IOCompleteWakes
<1>3. q \in Seq(Pids) /\ Len(q) \in Nat /\ DOMAIN q = 1 .. Len(q)
  BY QueueTyped DEF KernelInv
<1>4. TrappedIsQueued'
  <2>1. SUFFICES ASSUME QueueHasRoom, NEW h \in Governors, loaded'[h] = 1,
                        state'[h] = "BLOCKED"
        PROVE  IsWaiting(h)'
    BY DEF TrappedIsQueued, QueueHasRoom
  <2>2. state[h] = "BLOCKED" /\ h # g /\ loaded[h] = 1
    BY <1>1, <1>2, <2>1
  <2>3. IsPending(h) \/ IsWaiting(h)
    BY <2>1, <2>2 DEF JobsInv, TrappedIsQueued
  <2>4. ~IsPending(h)
    BY <1>1, <2>2 DEF IsPending
  <2>5. PICK i \in DOMAIN q : q[i] = h
    BY <2>3, <2>4 DEF IsWaiting
  <2>6. q # <<>> /\ i # 1
    <3>1. q # <<>>
      BY <1>3, <2>5
    <3>. QED BY <1>2, <2>1, <2>5, <3>1
  <2>7. /\ DOMAIN Tail(q) = 1 .. Len(q) - 1
        /\ \A j \in 1 .. Len(q) - 1 : Tail(q)[j] = q[j + 1]
    BY <1>3, <2>6, HeadTailProperties, LenProperties
  <2>8. i - 1 \in 1 .. Len(q) - 1 /\ (i - 1) + 1 = i
    BY <1>3, <2>5, <2>6
  <2>9. i - 1 \in DOMAIN Tail(q) /\ Tail(q)[i - 1] = h
    BY <2>5, <2>7, <2>8
  <2>. QED BY <1>1, <2>6, <2>9 DEF IsWaiting
<1>5. OnlyIOJobsTrap'
  BY <1>1 DEF JobsInv, OnlyIOJobsTrap
<1>6. DeviceAtHand'
  <2>1. SUFFICES ASSUME OneIOJob PROVE DeviceAtHand'
    BY DEF DeviceAtHand, OneIOJob
  <2>2. q = <<>> /\ \A h \in owed : IsPending(h)
    BY <2>1 DEF JobsInv, DeviceAtHand
  <2>3. \A h \in owed : h = g
    BY <1>1, <2>2 DEF IsPending
  <2>4. owed' = {}
    BY <1>1, <2>3
  <2>5. Len(pendingIO') = 0 /\ DOMAIN pendingIO' = {}
    BY <1>1
  <2>. QED BY <1>1, <2>2, <2>4, <2>5 DEF DeviceAtHand
<1>. QED BY <1>4, <1>5, <1>6

LEMMA IOCompleteKeepsJobs == ASSUME KernelInv, JobsInv, IOComplete PROVE JobsInv'
<1>1. /\ Running(IOHandler) /\ pendingIO[1].proc \in Governors
      /\ Parked(pendingIO[1].proc)
      /\ schedule' = schedule /\ vm' = vm /\ VisitOver
      /\ UNCHANGED <<nextPid, loaded, parent, timer, trapsLeft>>
  BY IOCompleteEffect
<1>2. UNCHANGED <<cycle, lastPass>> /\ pc' = "scan" /\ slot' = slot - 1
  BY <1>1 DEF VisitOver, IOComplete, LeaveCPU, Parked
<1>3. slot = Home(IOHandler) /\ slot = 93
  BY <1>1, RunnerHome, HomeFacts DEF JobsInv, IOHandler
<1>4. /\ \A p \in Pids \ Governors : state'[p] = state[p]
      /\ \A g \in Governors : state'[g] = state[g] \/ (Parked(g) /\ state'[g] = "READY")
  BY IOCompleteWakes
<1>5. \A g \in Governors : Home(g) <= 92 /\ Home(g) <= slot /\ Home(g) <= slot'
  BY <1>2, <1>3, HomeFacts
<1>6. ~FirstPass
  <2>1. loaded[pendingIO[1].proc] = 1
    BY <1>1 DEF Parked
  <2>. QED BY <1>1, <1>5, <2>1 DEF JobsInv, FirstTable
<1>7. ~FirstPass' /\ SecondPass' = SecondPass
  BY <1>2, <1>6 DEF FirstPass, SecondPass
<1>8. \A p : Present(p)' <=> Present(p)
  BY <1>1 DEF Present
<1>9. Placed' /\ DaemonsReady' /\ ParentsSound'
  BY <1>1, <1>4 DEF JobsInv, Placed, DaemonsReady, ParentsSound
<1>10. GovernorsSound'
  BY <1>1, <1>4, <1>8 DEF JobsInv, GovernorsSound, Parked
<1>11. FirstTable' /\ LaterTable'
  BY <1>1, <1>6, <1>7, <1>8 DEF JobsInv, FirstTable, LaterTable
<1>12. QuietInterrupts'
  <2>1. slot' < Home(IOHandler)
    BY <1>2, <1>3
  <2>. QED BY <1>1, <1>5, <1>6, <1>7, <2>1 DEF JobsInv, QuietInterrupts
<1>13. ShutdownSound'
  <2>1. slot < Home(StartStop)
    BY <1>3, HomeFacts DEF StartStop
  <2>. QED BY <1>1, <1>2, <1>8, <2>1 DEF JobsInv, ShutdownSound
<1>14. LoadsAtOnce'
  BY <1>1, <1>6 DEF JobsInv, LoadsAtOnce, SureLoad
<1>15. TrappedIsQueued' /\ OnlyIOJobsTrap' /\ DeviceAtHand'
  BY IOCompleteTransfers
<1>. QED BY <1>9, <1>10, <1>11, <1>12, <1>13, <1>14, <1>15 DEF JobsInv

-----------------------------------------------------------------------------
\* Loaders

\* A governor that has not asked yet is visited in the first pass.
LEMMA AskerFacts ==
  ASSUME KernelInv, JobsInv, NEW g \in Governors, Running(g), loaded[g] = 0
  PROVE  /\ FirstPass /\ g = 194 - slot /\ slot \in 93 - NJobs .. 92
         /\ nextPid = g + NJobs - 1 /\ g + NJobs \in Loaders
         /\ \A s \in Slots : schedule[s] = IF Home(s) <= nextPid THEN Home(s) ELSE NoPid
<1>1. FirstPass
  BY DEF JobsInv, LaterTable
<1>2. slot \in 80 .. 97 /\ g = 194 - slot /\ slot \in Slots
  BY RunnerHome DEF JobsInv
<1>3. slot \in 93 - NJobs .. 92
  BY <1>2, HomeFacts
<1>4. nextPid = g + NJobs - 1
  <2>1. Visited = 92 - slot
    BY <1>3, HomeFacts DEF Visited
  <2>2. nextPid = 101 + NJobs + Visited
    BY <1>1 DEF JobsInv, FirstTable
  <2>. QED BY <1>2, <2>1, <2>2, HomeFacts
<1>5. \A s \in Slots : s <= slot \/ s > Home(102 + NJobs)
  BY <1>3, HomeFacts
<1>6. g + NJobs \in Loaders
  BY HomeFacts DEF Loaders
<1>. QED BY <1>1, <1>2, <1>3, <1>4, <1>5, <1>6 DEF JobsInv, FirstTable

\* addProc gives the new loader its home, if the table has that slot.
LEMMA AddHome ==
  ASSUME schedule \in Tables, nextPid \in Int, nextPid >= 97,
         \A s \in Slots : schedule[s] = IF Home(s) <= nextPid THEN Home(s) ELSE NoPid
  PROVE  \A s \in Slots :
           addProc(schedule, nextPid + 1)[s]
             = IF Home(s) <= nextPid + 1 THEN Home(s) ELSE NoPid
<1>. DEFINE F == FreeSlots(schedule)
            x == CHOOSE s \in F : \A t \in F : t <= s
<1>1. \A s \in Slots : s \in F <=> Home(s) > nextPid
  <2>1. \A s \in Slots : Home(s) \in 97 .. 114
    BY HomeFacts
  <2>. QED BY <2>1 DEF FreeSlots, NoPid
<1>2. F \subseteq Slots
  BY DEF FreeSlots
<1>3. CASE F = {}
  <2>1. addProc(schedule, nextPid + 1) = schedule
    BY <1>3 DEF addProc
  <2>2. \A s \in Slots : Home(s) <= nextPid
    BY <1>1, <1>3, HomeFacts
  <2>. QED BY <2>1, <2>2, HomeFacts
<1>4. CASE F # {}
  <2>1. \E s \in F : \A t \in F : t <= s
    BY <1>2, <1>4, SlotMaximum
  <2>2. x \in F /\ \A t \in F : t <= x
    BY <2>1
  <2>3. addProc(schedule, nextPid + 1) = [schedule EXCEPT ![x] = nextPid + 1]
    BY <1>4 DEF addProc
  <2>. HIDE DEF F, x
  <2>4. x \in Slots /\ Home(x) > nextPid
    BY <1>1, <1>2, <2>2
  <2>5. Home(x) = nextPid + 1
    <3>1. SUFFICES ASSUME Home(x) > nextPid + 1 PROVE FALSE
      BY <2>4, HomeFacts
    <3>2. x \in 80 .. 97 /\ x + 1 \in Slots /\ Home(x + 1) > nextPid
      BY <2>4, <3>1, HomeFacts
    <3>3. x + 1 \in F
      BY <1>1, <3>2
    <3>. QED BY <2>2, <3>2, <3>3
  <2>6. \A s \in Slots : addProc(schedule, nextPid + 1)[s] = IF s = x THEN nextPid + 1 ELSE schedule[s]
    BY <2>3, <2>4 DEF Tables
  <2>7. ASSUME NEW s \in Slots, s # x PROVE Home(s) # nextPid + 1
    BY <2>4, <2>5, <2>7, HomeFacts
  <2>8. ASSUME NEW s \in Slots
        PROVE  addProc(schedule, nextPid + 1)[s]
                 = IF Home(s) <= nextPid + 1 THEN Home(s) ELSE NoPid
    <3>1. CASE s = x
      BY <2>5, <2>6, <3>1
    <3>2. CASE s # x
      <4>1. Home(s) <= nextPid + 1 <=> Home(s) <= nextPid
        BY <2>7, <3>2, HomeFacts
      <4>. QED BY <2>6, <3>2, <4>1
    <3>. QED BY <3>1, <3>2
  <2>. QED BY <2>8
<1>. QED BY <1>3, <1>4

LEMMA CreateLoaderEffect ==
  ASSUME KernelInv, JobsInv, NEW g \in Governors, GovernorLoading(g)
  PROVE  /\ loaded[g] = 0 /\ Running(g) /\ state[g] = "READY" /\ Present(g)
         /\ loaded' = [loaded EXCEPT ![g] = 2]
         /\ state' = [state EXCEPT ![g] = "BLOCKED"]
         /\ nextPid' = nextPid + 1 /\ nextPid + 1 = g + NJobs
         /\ parent' = [parent EXCEPT ![g + NJobs] = g]
         /\ \A s \in Slots : schedule'[s] = IF Home(s) <= nextPid' THEN Home(s) ELSE NoPid
         /\ pc' = "scan" /\ slot' = slot - 1
         /\ vm' = vm /\ res'["IO"] = res["IO"]
         /\ UNCHANGED <<cycle, lastPass, pendingIO, timer, trapsLeft, owed>>
<1>1. Running(g) /\ g \in Pids
  BY PidFacts DEF GovernorLoading
<1>2. state[g] = "READY" /\ Present(g)
  BY <1>1, RunnerHome DEF JobsInv
<1>3. loaded[g] = 0
  <2>1. loaded[g] # 2
    BY <1>2 DEF JobsInv, GovernorsSound
  <2>. QED BY <2>1 DEF GovernorLoading
<1>4. /\ nextPid = g + NJobs - 1 /\ g + NJobs \in Loaders /\ g \in Int
      /\ \A s \in Slots : schedule[s] = IF Home(s) <= nextPid THEN Home(s) ELSE NoPid
  BY <1>1, <1>3, AskerFacts, HomeFacts
<1>5. /\ schedule \in Tables /\ res \in RMs /\ state \in [Pids -> States]
      /\ vm \in SUBSET Governors /\ nextPid \in Int
  BY KernelTyped
<1>6. (nextPid + 1) % 256 = nextPid + 1 /\ nextPid + 1 = g + NJobs /\ nextPid >= 97
  <2>1. nextPid + 1 \in 0 .. 255 /\ nextPid + 1 = g + NJobs /\ nextPid >= 97
    BY <1>4, <1>5, HomeFacts
  <2>. QED BY <2>1
<1>7. /\ nextPid' = nextPid + 1
      /\ parent' = [parent EXCEPT ![g + NJobs] = g]
      /\ loaded' = [loaded EXCEPT ![g] = 2]
      /\ LeaveCPU(g, -1, state, addProc(schedule, nextPid + 1), vm, res)
      /\ UNCHANGED <<pendingIO, timer, trapsLeft, owed>>
  BY <1>3, <1>6 DEF GovernorLoading, jobVars
<1>8. addProc(schedule, nextPid + 1) \in Tables
  <2>1. nextPid + 1 \in Pids /\ ~Present(nextPid + 1)
    BY <1>3, FreshPid, PidFacts
  <2>. QED BY <1>5, <2>1, AddEffect DEF Present
<1>9. /\ schedule' = addProc(schedule, nextPid + 1) /\ vm' = vm /\ res'["IO"] = res["IO"]
      /\ state' = [state EXCEPT ![g] = "BLOCKED"]
  BY <1>1, <1>5, <1>7, <1>8, LeaveBlocked DEF KernelInv
<1>10. pc' = "scan" /\ slot' = slot - 1 /\ UNCHANGED <<cycle, lastPass>>
  BY <1>7 DEF LeaveCPU
<1>11. \A s \in Slots : schedule'[s] = IF Home(s) <= nextPid' THEN Home(s) ELSE NoPid
  BY <1>4, <1>5, <1>6, <1>7, <1>9, AddHome
<1>. QED BY <1>1, <1>2, <1>3, <1>6, <1>7, <1>9, <1>10, <1>11

LEMMA CreateLoaderPlaces ==
  ASSUME KernelInv, JobsInv, NEW g \in Governors, GovernorLoading(g)
  PROVE  /\ Placed'
         /\ \A p \in Pids : p <= 101 + NJobs => (Present(p)' <=> Present(p))
<1>1. /\ loaded[g] = 0 /\ Running(g)
      /\ nextPid' = nextPid + 1
      /\ \A s \in Slots : schedule'[s] = IF Home(s) <= nextPid' THEN Home(s) ELSE NoPid
  BY CreateLoaderEffect
<1>2. /\ nextPid = g + NJobs - 1 /\ g + NJobs \in Loaders
      /\ \A s \in Slots : schedule[s] = IF Home(s) <= nextPid THEN Home(s) ELSE NoPid
  BY <1>1, AskerFacts
<1>6. nextPid \in Int /\ nextPid >= 101 + NJobs
  BY <1>2, KernelTyped, HomeFacts
<1>7. \A p \in Pids : p <= 101 + NJobs => (Present(p) <=> Home(p) \in Slots)
  <2>1. SUFFICES ASSUME NEW p \in Pids, p <= 101 + NJobs, Home(p) \in Slots
                 PROVE  schedule[Home(p)] = p
    BY PresentHome DEF JobsInv
  <2>2. Home(Home(p)) = p /\ p <= nextPid
    BY <1>6, <2>1, HomeFacts, PidFacts
  <2>. QED BY <1>2, <2>1, <2>2
<1>8. Placed'
  <2>1. \A s \in Slots : schedule'[s] \in {NoPid, Home(s)}
    BY <1>1
  <2>. QED BY <2>1 DEF Placed, Home
<1>9. \A p \in Pids : p <= 101 + NJobs => (Present(p)' <=> Home(p) \in Slots)
  <2>1. ASSUME NEW p \in Pids, p <= 101 + NJobs, Home(p) \in Slots PROVE Present(p)'
    <3>1. Home(Home(p)) = p /\ p # NoPid
      BY <2>1, HomeFacts, PidFacts
    <3>2. Home(Home(p)) <= nextPid'
      <4>1. nextPid' = nextPid + 1
        BY <1>1
      <4>2. Home(Home(p)) <= 101 + NJobs /\ Home(Home(p)) \in Int
        BY <2>1, <3>1, PidFacts
      <4>. QED BY <1>6, <4>1, <4>2, NJobsAssumption
    <3>3. schedule'[Home(p)] = Home(Home(p))
      BY <1>1, <2>1, <3>2
    <3>. QED BY <2>1, <3>1, <3>3 DEF Present, InTable
  <2>2. ASSUME NEW p \in Pids, Present(p)' PROVE Home(p) \in Slots
    <3>1. PICK s \in Slots : schedule'[s] = p /\ p # NoPid
      BY <2>2 DEF Present, InTable
    <3>2. Home(s) = p
      BY <1>8, <3>1 DEF Placed
    <3>. QED BY <3>2, HomeFacts
  <2>. QED BY <2>1, <2>2
<1>. QED BY <1>7, <1>8, <1>9

LEMMA CreateLoaderKeepsJobs ==
  ASSUME KernelInv, JobsInv, NEW g \in Governors, GovernorLoading(g) PROVE JobsInv'
<1>1. /\ loaded[g] = 0 /\ Running(g) /\ state[g] = "READY" /\ Present(g)
      /\ loaded' = [loaded EXCEPT ![g] = 2]
      /\ state' = [state EXCEPT ![g] = "BLOCKED"]
      /\ nextPid' = nextPid + 1 /\ nextPid + 1 = g + NJobs
      /\ parent' = [parent EXCEPT ![g + NJobs] = g]
      /\ \A s \in Slots : schedule'[s] = IF Home(s) <= nextPid' THEN Home(s) ELSE NoPid
      /\ pc' = "scan" /\ slot' = slot - 1
      /\ vm' = vm /\ res'["IO"] = res["IO"]
      /\ UNCHANGED <<cycle, lastPass, pendingIO, timer, trapsLeft, owed>>
  BY CreateLoaderEffect
<1>2. /\ FirstPass /\ g = 194 - slot /\ slot \in 93 - NJobs .. 92
      /\ nextPid = g + NJobs - 1 /\ g + NJobs \in Loaders
      /\ \A s \in Slots : schedule[s] = IF Home(s) <= nextPid THEN Home(s) ELSE NoPid
  BY <1>1, AskerFacts
<1>3. FirstPass' /\ ~lastPass /\ ~lastPass'
  BY <1>1, <1>2 DEF FirstPass
<1>4. /\ \A h \in Governors \ {g} : loaded'[h] = loaded[h] /\ state'[h] = state[h]
      /\ loaded'[g] = 2 /\ state'[g] = "BLOCKED"
      /\ \A p \in Pids \ Governors : state'[p] = state[p]
  BY <1>1, KernelTyped, PidFacts
<1>5. /\ \A l \in Loaders : l # g + NJobs => parent'[l] = parent[l]
      /\ parent'[g + NJobs] = g
  BY <1>1, <1>2, KernelTyped
<1>6. nextPid \in Int /\ nextPid >= 101 + NJobs
  BY <1>2, KernelTyped, HomeFacts
<1>8. /\ Placed'
      /\ \A p \in Pids : p <= 101 + NJobs => (Present(p)' <=> Present(p))
  BY CreateLoaderPlaces
<1>10. \A h \in Governors : (Present(h)' <=> Present(h)) /\ Home(h) <= 92 /\ Home(h) \in Int
  BY <1>8, HomeFacts, PidFacts
<1>11. DaemonsReady'
  BY <1>4 DEF JobsInv, DaemonsReady
<1>12. GovernorsSound'
  BY <1>1, <1>4, <1>10 DEF JobsInv, GovernorsSound
<1>13. ParentsSound'
  <2>1. ASSUME NEW l \in Loaders, l # g + NJobs
        PROVE  parent'[l] \in {NoPid, l - NJobs} /\ (l <= nextPid' => parent'[l] # NoPid)
    <3>1. l <= nextPid' => l <= nextPid
      BY <1>1, <1>6, <2>1, HomeFacts
    <3>. QED BY <1>5, <2>1, <3>1 DEF JobsInv, ParentsSound
  <2>2. g = (g + NJobs) - NJobs /\ g # NoPid
    BY HomeFacts, PidFacts
  <2>. QED BY <1>5, <2>1, <2>2 DEF ParentsSound
<1>14. FirstTable'
  <2>1. nextPid' = 101 + NJobs + Visited'
    BY <1>1, <1>2, HomeFacts DEF Visited
  <2>2. \A s \in Slots : s <= slot' \/ s > Home(102 + NJobs)
    BY <1>1, <1>2, HomeFacts
  <2>3. \A h \in Governors : loaded'[h] = 0 <=> Home(h) <= slot'
    <3>1. \A h \in Governors : loaded[h] = 0 <=> Home(h) <= slot
      BY <1>2 DEF JobsInv, FirstTable
    <3>2. \A h \in Governors : Home(h) = slot <=> h = g
      BY <1>2, HomeFacts
    <3>. QED BY <1>1, <1>2, <1>4, <1>10, <3>1, <3>2
  <2>. QED BY <1>1, <2>1, <2>2, <2>3 DEF FirstTable
<1>15. QuietInterrupts'
  BY <1>1, <1>2, <1>3 DEF JobsInv, QuietInterrupts
<1>16. ShutdownSound'
  <2>1. Present(StartStop)' <=> Present(StartStop)
    BY <1>8, NJobsAssumption, PidFacts DEF StartStop
  <2>2. timer.active <=> Present(StartStop)
    BY DEF JobsInv, ShutdownSound
  <2>3. Present(StartStop)
    <3>1. StartStop \in Pids /\ Home(StartStop) = 96 /\ 96 \in Slots /\ Home(96) = StartStop
      BY HomeFacts, PidFacts DEF StartStop
    <3>2. schedule[96] = StartStop
      BY <1>2, <1>6, <3>1, HomeFacts DEF StartStop
    <3>. QED BY <3>1, <3>2, PresentHome DEF JobsInv
  <2>. QED BY <1>1, <1>3, <2>1, <2>2, <2>3 DEF ShutdownSound
<1>17. LoadsAtOnce'
  <2>1. \A h \in Governors : Home(h + NJobs) <= slot'
    BY <1>1, <1>2, HomeFacts
  <2>. QED BY <1>3, <2>1 DEF LoadsAtOnce, SureLoad
<1>18. TrappedIsQueued' /\ OnlyIOJobsTrap' /\ DeviceAtHand'
  <2>1. SameRequests
    BY <1>1 DEF SameRequests
  <2>. QED BY <1>4, <2>1, SameTransfers
<1>19. LaterTable'
  BY <1>3 DEF LaterTable
<1>. QED BY <1>8, <1>11, <1>12, <1>13, <1>14, <1>15, <1>16, <1>17, <1>18, <1>19 DEF JobsInv

\* A loader runs in the first pass, and its parent is the governor whose pid is
\* NJobs less than its own.  A load that must succeed wakes the parent.
LEMMA RunLoaderEffect ==
  ASSUME KernelInv, JobsInv, NEW l \in Loaders, RunLoader(l)
  PROVE  /\ Running(l) /\ FirstPass /\ l - NJobs \in Governors /\ parent[l] = l - NJobs
         /\ loaded[l - NJobs] = 2
         /\ \E ok \in LoadOutcomes[l - NJobs] :
              /\ loaded' = IF ok THEN [loaded EXCEPT ![l - NJobs] = 1] ELSE loaded
              /\ state' = IF ok THEN [state EXCEPT ![l - NJobs] = "READY"] ELSE state
         /\ schedule' = removeProcP(schedule, l)
         /\ pc' = "scan" /\ slot' = slot - 1
         /\ vm' = vm /\ res'["IO"] = res["IO"]
         /\ UNCHANGED <<cycle, lastPass, nextPid, parent, pendingIO, timer, trapsLeft, owed>>
<1>. DEFINE g == parent[l]
<1>1. Running(l) /\ l \in Pids /\ l \notin Governors /\ l # NoPid
  BY PidFacts DEF RunLoader
<1>2. /\ schedule \in Tables /\ res \in RMs /\ state \in [Pids -> States]
      /\ vm \in SUBSET Governors /\ Present(l)
  BY <1>1, RunnerFacts DEF KernelInv
<1>3. g \in Governors /\ loaded[g] = 2 /\ g \in Pids
  BY <1>2, PidFacts DEF KernelInv, LoadersSound
<1>4. g = l - NJobs
  BY <1>3, PidFacts DEF JobsInv, ParentsSound
<1>5. FirstPass
  BY <1>2 DEF JobsInv, LaterTable
<1>6. InTable(schedule, g) /\ g \in vm
  BY <1>3 DEF JobsInv, GovernorsSound, Present
<1>7. /\ Granted(res, "MEM") /\ res["MEM"].waitPids = <<>> /\ "MEM" \in Resource
  BY DEF KernelInv, UnitsReturned, Granted, Units, Resource
<1>8. /\ releaseResource(requestResource(res, "MEM", l), "MEM") = res
      /\ Heir(requestResource(res, "MEM", l), "MEM") = NoPid
  BY <1>1, <1>2, <1>7, RequestRelease
<1>9. PICK ok \in LoadOutcomes[g] :
        /\ loaded' = IF ok THEN [loaded EXCEPT ![g] = 1] ELSE loaded
        /\ LeaveCPU(l, 0, IF ok THEN [state EXCEPT ![g] = "READY"] ELSE state,
                    schedule, vm, res)
  BY <1>6, <1>7, <1>8, WakeNobody DEF RunLoader
<1>. DEFINE st == IF ok THEN [state EXCEPT ![g] = "READY"] ELSE state
<1>10. st \in [Pids -> States]
  BY <1>2, <1>3 DEF States
<1>. HIDE DEF st
<1>11. /\ schedule' = removeProcP(schedule, l)
       /\ vm' = vm \ {l} /\ res'["IO"] = res["IO"] /\ state' = st
  BY <1>1, <1>2, <1>9, <1>10, LeaveRemoved DEF st, KernelInv
<1>12. pc' = "scan" /\ slot' = slot - 1 /\ UNCHANGED <<cycle, lastPass>>
  BY <1>9 DEF LeaveCPU
<1>13. UNCHANGED <<nextPid, parent, pendingIO, timer, trapsLeft, owed>>
  BY DEF RunLoader, jobVars
<1>14. vm' = vm
  BY <1>1, <1>2, <1>11
<1>. QED BY <1>1, <1>3, <1>4, <1>5, <1>9, <1>11, <1>12, <1>13, <1>14 DEF st

LEMMA RunLoaderKeepsJobs ==
  ASSUME KernelInv, JobsInv, NEW l \in Loaders, RunLoader(l) PROVE JobsInv'
<1>. DEFINE g == l - NJobs
<1>1. /\ Running(l) /\ FirstPass /\ g \in Governors /\ parent[l] = g
      /\ loaded[g] = 2
      /\ \E ok \in LoadOutcomes[g] :
           /\ loaded' = IF ok THEN [loaded EXCEPT ![g] = 1] ELSE loaded
           /\ state' = IF ok THEN [state EXCEPT ![g] = "READY"] ELSE state
      /\ schedule' = removeProcP(schedule, l)
      /\ pc' = "scan" /\ slot' = slot - 1
      /\ vm' = vm /\ res'["IO"] = res["IO"]
      /\ UNCHANGED <<cycle, lastPass, nextPid, parent, pendingIO, timer, trapsLeft, owed>>
  BY RunLoaderEffect
<1>. HIDE DEF g
<1>2. /\ slot \in Slots /\ slot \in 80 .. 97 /\ l = 194 - slot /\ l \in Int /\ schedule[slot] = l
      /\ l # NoPid /\ l \in Pids
  BY <1>1, RunnerHome, PidFacts DEF JobsInv
<1>3. slot <= 92 - NJobs /\ NJobs \in 1 .. 13
  BY <1>2, HomeFacts
<1>4. \A s \in Slots : schedule'[s] = IF s = slot THEN NoPid ELSE schedule[s]
  <2>1. \A s \in Slots : schedule[s] = l => s = slot
    BY <1>2, HomeFacts DEF JobsInv, Placed
  <2>. QED BY <1>1, <1>2, <2>1 DEF removeProcP
<1>5. \A p \in Pids : Present(p)' <=> Present(p) /\ p # l
  BY <1>1, <1>2, KernelTyped, RemoveEffect DEF Present
<1>6. PICK ok \in LoadOutcomes[g] :
        /\ loaded' = IF ok THEN [loaded EXCEPT ![g] = 1] ELSE loaded
        /\ state' = IF ok THEN [state EXCEPT ![g] = "READY"] ELSE state
  BY <1>1
<1>7. /\ \A h \in Governors : h # g => loaded'[h] = loaded[h] /\ state'[h] = state[h]
      /\ ok => loaded'[g] = 1 /\ state'[g] = "READY"
      /\ ~ok => loaded'[g] = 2 /\ state'[g] = state[g]
      /\ \A p \in Pids \ Governors : state'[p] = state[p]
  BY <1>1, <1>6, KernelTyped, PidFacts
<1>8. FirstPass' /\ ~lastPass /\ ~lastPass'
  BY <1>1 DEF FirstPass
<1>9. Placed'
  <2>1. \A s \in Slots : schedule'[s] \in {NoPid, Home(s)}
    BY <1>4 DEF JobsInv, Placed
  <2>. QED BY <2>1 DEF Placed, Home
<1>10. DaemonsReady' /\ ParentsSound'
  BY <1>1, <1>7 DEF JobsInv, DaemonsReady, ParentsSound
<1>11. \A h \in Governors : h # l /\ h \in Pids
  BY PidFacts
<1>12. GovernorsSound'
  <2>1. \A h \in Governors : h # g =>
          /\ Present(h)' <=> loaded'[h] # 3
          /\ Present(h)' => h \in vm' /\ state'[h] \in {"READY", "BLOCKED"}
          /\ loaded'[h] = 0 => state'[h] = "READY"
          /\ loaded'[h] = 2 => state'[h] = "BLOCKED"
    BY <1>1, <1>5, <1>7, <1>11 DEF JobsInv, GovernorsSound
  <2>2. Present(g) /\ g \in vm /\ state[g] = "BLOCKED"
    BY <1>1 DEF JobsInv, GovernorsSound
  <2>3. /\ Present(g)' /\ loaded'[g] \in {1, 2} /\ g \in vm'
        /\ state'[g] \in {"READY", "BLOCKED"}
        /\ loaded'[g] = 2 => state'[g] = "BLOCKED"
    BY <1>1, <1>5, <1>7, <1>11, <2>2
  <2>. QED BY <2>1, <2>3 DEF GovernorsSound
<1>13. FirstTable'
  <2>1. /\ nextPid = 101 + NJobs + Visited
        /\ \A s \in Slots :
             schedule[s] = IF Home(s) <= nextPid /\ (s <= slot \/ s > Home(102 + NJobs))
                           THEN Home(s) ELSE NoPid
        /\ \A h \in Governors : loaded[h] = 0 <=> Home(h) <= slot
    BY <1>1 DEF JobsInv, FirstTable
  <2>2. Visited = NJobs /\ Visited' = NJobs
    BY <1>1, <1>2, <1>3, HomeFacts DEF Visited
  <2>3. \A s \in Slots :
          schedule'[s] = IF Home(s) <= nextPid /\ (s <= slot - 1 \/ s > Home(102 + NJobs))
                         THEN Home(s) ELSE NoPid
    <3>1. \A s \in Slots : s # slot => (s <= slot - 1 <=> s <= slot)
      BY <1>2, HomeFacts
    <3>2. ~(slot <= slot - 1 \/ slot > Home(102 + NJobs))
      BY <1>2, <1>3, HomeFacts
    <3>. QED BY <1>4, <2>1, <3>1, <3>2
  <2>4. \A h \in Governors : ~(Home(h) <= slot) /\ ~(Home(h) <= slot - 1)
    BY <1>2, <1>3, HomeFacts
  <2>5. \A h \in Governors : loaded'[h] = 0 <=> Home(h) <= slot - 1
    BY <1>7, <2>1, <2>4
  <2>. QED BY <1>1, <2>1, <2>2, <2>3, <2>5 DEF FirstTable, Home
<1>14. LaterTable'
  BY <1>8 DEF LaterTable
<1>15. QuietInterrupts'
  BY <1>1, <1>8 DEF JobsInv, QuietInterrupts
<1>16. ShutdownSound'
  <2>1. Present(StartStop)' <=> Present(StartStop)
    BY <1>5, PidFacts
  <2>2. \A s \in Slots : schedule'[s] \in {schedule[s], NoPid}
    BY <1>4
  <2>. QED BY <1>1, <1>8, <2>1, <2>2 DEF JobsInv, ShutdownSound
<1>17. LoadsAtOnce'
  <2>1. ASSUME NEW h \in Governors, SureLoad(h), loaded'[h] = 2
        PROVE  Home(h + NJobs) <= slot - 1
    <3>1. h # g
      <4>1. SUFFICES ASSUME h = g PROVE FALSE
        OBVIOUS
      <4>2. LoadOutcomes[g] = {TRUE}
        BY <2>1, <4>1 DEF SureLoad
      <4>3. ok
        BY <1>6, <4>2
      <4>4. loaded'[g] = 1
        BY <1>7, <4>3
      <4>. QED BY <2>1, <4>1, <4>4
    <3>2. loaded[h] = 2
      BY <1>7, <2>1, <3>1
    <3>3. Home(h + NJobs) <= slot
      BY <2>1, <3>2 DEF JobsInv, LoadsAtOnce
    <3>4. Home(h + NJobs) # slot
      BY <1>2, <3>1, HomeFacts DEF g
    <3>. QED BY <1>2, <3>3, <3>4, HomeFacts
  <2>. QED BY <1>1, <1>8, <2>1 DEF LoadsAtOnce, SureLoad, Home
<1>18. TrappedIsQueued' /\ OnlyIOJobsTrap' /\ DeviceAtHand'
  <2>1. SameRequests
    BY <1>1 DEF SameRequests
  <2>2. \A h \in Governors : loaded'[h] = 1 /\ state'[h] = "BLOCKED" =>
                             loaded[h] = 1 /\ state[h] = "BLOCKED"
    BY <1>7
  <2>. QED BY <2>1, <2>2, SameTransfers
<1>. QED BY <1>9, <1>10, <1>12, <1>13, <1>14, <1>15, <1>16, <1>17, <1>18 DEF JobsInv

-----------------------------------------------------------------------------
\* The program runs

\* A governor whose program runs, or is over, has been loaded, and it was not in
\* the first pass that its loader ran.
LEMMA JobRunsFacts ==
  ASSUME KernelInv, JobsInv, NEW g \in Governors, Running(g), g \in vm => loaded[g] \in {1, 3}
  PROVE  /\ ~FirstPass /\ loaded[g] = 1 /\ g \in vm /\ state[g] = "READY" /\ Present(g)
         /\ slot \in Slots /\ slot \in 80 .. 92 /\ slot = Home(g) /\ g = 194 - slot
         /\ g \in Pids /\ g \notin Loaders /\ g # StartStop /\ schedule[slot] = g
<1>1. /\ slot \in Slots /\ slot \in 80 .. 97 /\ slot = Home(g) /\ g = 194 - slot
      /\ g \in Pids /\ Present(g) /\ schedule[slot] = g /\ state[g] = "READY"
  BY RunnerHome DEF JobsInv
<1>2. g \in vm /\ loaded[g] # 3
  BY <1>1 DEF JobsInv, GovernorsSound
<1>3. loaded[g] = 1
  BY <1>2
<1>4. ~FirstPass
  BY <1>1, <1>3 DEF JobsInv, FirstTable
<1>5. slot \in 80 .. 92
  BY <1>1, HomeFacts
<1>. QED BY <1>1, <1>2, <1>3, <1>4, <1>5, PidFacts

LEMMA FinishEffect ==
  ASSUME KernelInv, JobsInv, NEW g \in Governors, VMFinish(g)
  PROVE  /\ Running(g) /\ loaded[g] = 1
         /\ loaded' = [loaded EXCEPT ![g] = 3]
         /\ schedule' = removeProcP(schedule, g)
         /\ vm' = vm \ {g} /\ state' = state /\ res'["IO"] = res["IO"]
         /\ pc' = "scan" /\ slot' = slot - 1
         /\ UNCHANGED <<cycle, lastPass, nextPid, parent, pendingIO, timer, trapsLeft, owed>>
<1>1. /\ Running(g)
      /\ g \in vm => loaded[g] \in {1, 3}
      /\ LeaveCPU(g, 0, state, schedule, vm \ {g}, res)
      /\ loaded' = [loaded EXCEPT ![g] = IF g \in vm THEN 3 ELSE @]
      /\ UNCHANGED <<nextPid, parent, pendingIO, timer, trapsLeft, owed>>
  BY DEF VMFinish, jobVars
<1>2. loaded[g] = 1 /\ g \in vm /\ g \in Pids
  BY <1>1, JobRunsFacts
<1>3. /\ schedule \in Tables /\ res \in RMs /\ state \in [Pids -> States]
      /\ vm \ {g} \in SUBSET Governors
  BY KernelTyped
<1>4. /\ schedule' = removeProcP(schedule, g)
      /\ vm' = (vm \ {g}) \ {g} /\ res'["IO"] = res["IO"] /\ state' = state
  BY <1>1, <1>2, <1>3, LeaveRemoved DEF KernelInv
<1>5. pc' = "scan" /\ slot' = slot - 1 /\ UNCHANGED <<cycle, lastPass>>
  BY <1>1 DEF LeaveCPU
<1>. QED BY <1>1, <1>2, <1>4, <1>5

LEMMA VMFinishKeepsJobs ==
  ASSUME KernelInv, JobsInv, NEW g \in Governors, VMFinish(g) PROVE JobsInv'
<1>1. /\ Running(g) /\ loaded[g] = 1
      /\ loaded' = [loaded EXCEPT ![g] = 3]
      /\ schedule' = removeProcP(schedule, g)
      /\ vm' = vm \ {g} /\ state' = state /\ res'["IO"] = res["IO"]
      /\ pc' = "scan" /\ slot' = slot - 1
      /\ UNCHANGED <<cycle, lastPass, nextPid, parent, pendingIO, timer, trapsLeft, owed>>
  BY FinishEffect
<1>2. /\ ~FirstPass /\ slot \in Slots /\ slot \in 80 .. 92 /\ slot = Home(g)
      /\ g \in Pids /\ g \notin Loaders /\ g # StartStop /\ g = 194 - slot
  BY <1>1, JobRunsFacts
<1>3. /\ \A p : p # g => (Present(p)' <=> Present(p))
      /\ ~Present(g)'
      /\ \A s \in Slots : schedule'[s] \in {schedule[s], NoPid}
  BY <1>1, <1>2, KernelTyped, RemoveEffect DEF Present
<1>4. /\ \A h \in Governors : h # g => loaded'[h] = loaded[h]
      /\ loaded'[g] = 3
  BY <1>1, KernelTyped
<1>5. ~FirstPass' /\ (SecondPass' <=> SecondPass)
  BY <1>1, <1>2 DEF FirstPass, SecondPass
<1>6. Placed'
  BY <1>3 DEF JobsInv, Placed, Home
<1>7. DaemonsReady' /\ ParentsSound'
  BY <1>1 DEF JobsInv, DaemonsReady, ParentsSound
<1>8. GovernorsSound'
  <2>1. ASSUME NEW h \in Governors, h # g
        PROVE  /\ Present(h)' <=> loaded'[h] # 3
               /\ Present(h)' => h \in vm' /\ state'[h] \in {"READY", "BLOCKED"}
               /\ loaded'[h] = 0 => state'[h] = "READY"
               /\ loaded'[h] = 2 => state'[h] = "BLOCKED"
    BY <1>1, <1>3, <1>4, <2>1 DEF JobsInv, GovernorsSound
  <2>. QED BY <1>3, <1>4, <2>1 DEF GovernorsSound
<1>9. FirstTable'
  BY <1>5 DEF FirstTable
<1>10. LaterTable'
  <2>1. /\ \A h \in Governors : loaded[h] # 0
        /\ \A l \in Loaders : ~Present(l)
    BY <1>2 DEF JobsInv, LaterTable
  <2>2. \A h \in Governors : loaded'[h] # 0
    BY <1>4, <2>1
  <2>3. \A l \in Loaders : ~Present(l)'
    <3>1. SUFFICES ASSUME NEW l \in Loaders PROVE ~Present(l)'
      OBVIOUS
    <3>2. l # g /\ ~Present(l)
      BY <1>2, <2>1
    <3>. QED BY <1>3, <3>2
  <2>. QED BY <2>2, <2>3 DEF LaterTable
<1>11. QuietInterrupts'
  <2>1. ASSUME NEW h \in Governors, loaded'[h] = 1, state'[h] = "READY"
        PROVE  Home(h) <= slot' /\ (SecondPass' \/ slot' < Home(IOHandler))
    <3>1. h # g /\ loaded[h] = 1 /\ state[h] = "READY"
      BY <1>1, <1>4, <2>1
    <3>2. Home(h) <= slot /\ (SecondPass \/ slot < Home(IOHandler))
      BY <1>2, <3>1 DEF JobsInv, QuietInterrupts
    <3>3. Home(h) # slot
      BY <1>2, <3>1, HomeFacts
    <3>4. slot - 1 < Home(IOHandler) /\ slot' = slot - 1
      BY <1>1, <1>2, HomeFacts DEF IOHandler
    <3>. QED BY <1>2, <3>2, <3>3, <3>4, HomeFacts
  <2>. QED BY <1>1, <1>2, <1>5, <2>1 DEF JobsInv, QuietInterrupts, Home
<1>12. ShutdownSound'
  <2>1. Present(StartStop)' <=> Present(StartStop)
    BY <1>2, <1>3
  <2>2. slot < Home(StartStop)
    BY <1>2, HomeFacts DEF StartStop
  <2>3. lastPass' /\ cycle' + 1 < MaxCycles =>
          /\ \A h \in Governors : loaded'[h] = 3
          /\ ~Present(StartStop)'
    BY <1>1, <1>4, <2>1, <2>2 DEF JobsInv, ShutdownSound
  <2>4. ~Present(StartStop)' => \A s \in Slots : schedule'[s] \in {NoPid, SelfPid}
    BY <1>3, <2>1 DEF JobsInv, ShutdownSound
  <2>. QED BY <1>1, <2>1, <2>3, <2>4 DEF JobsInv, ShutdownSound
<1>13. LoadsAtOnce'
  <2>1. \A h \in Governors : loaded'[h] = 2 => loaded[h] = 2
    BY <1>4
  <2>. QED BY <1>2, <2>1 DEF JobsInv, LoadsAtOnce, SureLoad
<1>14. TrappedIsQueued' /\ OnlyIOJobsTrap' /\ DeviceAtHand'
  <2>1. SameRequests
    BY <1>1 DEF SameRequests
  <2>2. \A h \in Governors : loaded'[h] = 1 /\ state'[h] = "BLOCKED" =>
                             loaded[h] = 1 /\ state[h] = "BLOCKED"
    BY <1>1, <1>4
  <2>. QED BY <2>1, <2>2, SameTransfers
<1>. QED BY <1>6, <1>7, <1>8, <1>9, <1>10, <1>11, <1>12, <1>13, <1>14 DEF JobsInv

LEMMA TrapEffect ==
  ASSUME KernelInv, JobsInv, NEW g \in Governors, VMTrap(g), NEW rm \in RMs, NEW ring,
         enqueueIORequest(g) = <<rm, ring>>,
         \A r \in {"CPU", "MEM", "TMR"} : rm[r] = res[r]
  PROVE  /\ pendingIO' = ring /\ res'["IO"] = rm["IO"]
         /\ schedule' = schedule /\ vm' = vm
         /\ state' = [state EXCEPT ![g] = "BLOCKED"]
         /\ pc' = "scan" /\ slot' = slot - 1
         /\ UNCHANGED <<cycle, lastPass, nextPid, loaded, parent, timer>>
<1>1. /\ Running(g) /\ g \in Pids
      /\ LeaveCPU(g, -1, state, schedule, vm, rm) /\ pendingIO' = ring
      /\ UNCHANGED <<nextPid, loaded, parent, timer>>
  BY PidFacts DEF VMTrap
<1>2. schedule \in Tables /\ vm \in SUBSET Governors /\ state \in [Pids -> States]
  BY KernelTyped
<1>3. /\ schedule' = schedule /\ vm' = vm /\ res'["IO"] = rm["IO"]
      /\ state' = [state EXCEPT ![g] = "BLOCKED"]
  BY <1>1, <1>2, LeaveBlocked DEF KernelInv
<1>4. pc' = "scan" /\ slot' = slot - 1 /\ UNCHANGED <<cycle, lastPass>>
  BY <1>1 DEF LeaveCPU
<1>. QED BY <1>1, <1>3, <1>4

\* The process that traps is not in the queue, so one of its places is free.
LEMMA RoomToWait ==
  ASSUME KernelInv, QueueHasRoom, NEW g \in Governors, ~Parked(g)
  PROVE  enqueue(res["IO"].waitPids, g) = Append(res["IO"].waitPids, g)
<1>. DEFINE q == res["IO"].waitPids
            n == Len(q)
            f == [i \in 1 .. n |-> q[i]]
<1>1. q \in Seq(Pids) /\ n \in Nat /\ DOMAIN q = 1 .. n
  BY QueueTyped DEF KernelInv
<1>2. /\ \A i \in 1 .. n : q[i] \in Governors \ {g}
      /\ \A i, j \in 1 .. n : q[i] = q[j] => i = j
  <2>1. /\ \A i \in DOMAIN q : q[i] \in Governors /\ Parked(q[i])
        /\ \A i, j \in DOMAIN q : q[i] = q[j] => i = j
    BY DEF KernelInv, DeviceSound, WaitQueueSound
  <2>2. \A i \in 1 .. n : q[i] # g
    BY <1>1, <2>1
  <2>. QED BY <1>1, <2>1, <2>2
<1>3. IsFiniteSet(Governors) /\ Cardinality(Governors) = NJobs
  <2>1. 102 \in Int /\ 101 + NJobs \in Int /\ NJobs \in 1 .. 13
    BY NJobsAssumption
  <2>2. /\ IsFiniteSet(102 .. 101 + NJobs)
        /\ Cardinality(102 .. 101 + NJobs)
             = IF 102 > 101 + NJobs THEN 0 ELSE (101 + NJobs) - 102 + 1
    BY <2>1, FS_Interval
  <2>. QED BY <2>1, <2>2 DEF Governors
<1>4. IsFiniteSet(Governors \ {g}) /\ Cardinality(Governors \ {g}) = NJobs - 1
  BY <1>3, FS_RemoveElement
<1>5. f \in Injection(1 .. n, Governors \ {g})
  BY <1>2 DEF Injection, IsInjective
<1>6. Cardinality(1 .. n) <= NJobs - 1
  BY <1>4, <1>5, FS_Injection
<1>7. Cardinality(1 .. n) = n
  <2>. HIDE DEF n
  <2>1. 1 \in Int /\ n \in Int /\ n \in Nat
    BY <1>1
  <2>2. Cardinality(1 .. n) = IF 1 > n THEN 0 ELSE n - 1 + 1
    BY <2>1, FS_Interval
  <2>. QED BY <2>1, <2>2
<1>8. n < WaitCapacity
  BY <1>1, <1>6, <1>7, NJobsAssumption, WaitAssumption DEF QueueHasRoom
<1>. QED BY <1>8 DEF enqueue

LEMMA GrantedKeepsTransfers ==
  ASSUME KernelInv, JobsInv, NEW g \in Governors, VMTrap(g), Granted(res, "IO")
  PROVE  TrappedIsQueued' /\ DeviceAtHand'
<1>1. pendingIO = <<>> /\ res["IO"].waitPids = <<>>
  <2>1. res["IO"].available # 0
    BY DEF Granted
  <2>. QED BY <2>1, ClaimGranted DEF KernelInv, DeviceSound, WaitQueueSound
<1>2. PICK rm \in RMs, request \in Requests :
        /\ enqueueIORequest(g) = <<rm, <<request>>>> /\ request.proc = g
        /\ \A r \in {"CPU", "MEM", "TMR"} : rm[r] = res[r]
        /\ rm["IO"].available = 0 /\ rm["IO"].waitPids = <<>>
  BY ClaimGranted
<1>3. /\ pendingIO' = <<request>> /\ res'["IO"] = rm["IO"] /\ loaded' = loaded
      /\ state' = [state EXCEPT ![g] = "BLOCKED"]
  BY <1>2, TrapEffect
<1>4. Len(pendingIO') = 1 /\ DOMAIN pendingIO' = {1} /\ pendingIO'[1].proc = g
  <2>1. Len(<<request>>) = 1 /\ DOMAIN <<request>> = {1} /\ <<request>>[1] = request
    OBVIOUS
  <2>. QED BY <1>2, <1>3, <2>1
<1>5. /\ \A h : ~IsPending(h) /\ ~IsWaiting(h)
      /\ IsPending(g)'
  BY <1>1, <1>4 DEF IsPending, IsWaiting
<1>6. TrappedIsQueued'
  <2>1. SUFFICES ASSUME QueueHasRoom, NEW h \in Governors, h # g,
                        loaded'[h] = 1, state'[h] = "BLOCKED"
                 PROVE  FALSE
    BY <1>5 DEF TrappedIsQueued, QueueHasRoom
  <2>2. loaded[h] = 1 /\ state[h] = "BLOCKED"
    BY <1>3, <2>1, KernelTyped
  <2>. QED BY <1>5, <2>1, <2>2 DEF JobsInv, TrappedIsQueued
<1>7. DeviceAtHand'
  <2>1. SUFFICES ASSUME OneIOJob
                 PROVE  /\ res'["IO"].waitPids = <<>>
                        /\ res'["IO"].available + Len(pendingIO') = 1
                        /\ \A i \in DOMAIN pendingIO' : pendingIO'[i].proc \in IOJobs
                        /\ \A h \in owed' : IsPending(h)'
    BY DEF DeviceAtHand, OneIOJob
  <2>2. g \in IOJobs
    BY KernelTyped DEF JobsInv, OnlyIOJobsTrap, VMTrap
  <2>3. \A h \in owed' : h = g
    BY <1>5, <2>1 DEF JobsInv, DeviceAtHand, VMTrap
  <2>. QED BY <1>2, <1>3, <1>4, <1>5, <2>2, <2>3
<1>. QED BY <1>6, <1>7

LEMMA DeniedKeepsTransfers ==
  ASSUME KernelInv, JobsInv, NEW g \in Governors, VMTrap(g), ~Granted(res, "IO")
  PROVE  TrappedIsQueued' /\ DeviceAtHand'
<1>. DEFINE q == res["IO"].waitPids
<1>1. PICK rm \in RMs :
        /\ enqueueIORequest(g) = <<rm, pendingIO>>
        /\ \A r \in {"CPU", "MEM", "TMR"} : rm[r] = res[r]
        /\ rm["IO"].available = 0 /\ rm["IO"].waitPids = enqueue(q, g)
  BY ClaimDenied
<1>2. /\ pendingIO' = pendingIO /\ res'["IO"] = rm["IO"] /\ loaded' = loaded
      /\ state' = [state EXCEPT ![g] = "BLOCKED"]
  BY <1>1, TrapEffect
<1>3. \A h : IsPending(h)' <=> IsPending(h)
  BY <1>2 DEF IsPending
<1>4. g \in Pids /\ state[g] = "READY" /\ ~Parked(g)
  <2>1. Running(g) /\ g \in vm /\ loaded[g] = 1
    BY DEF VMTrap
  <2>. QED BY <2>1, JobRunsFacts DEF Parked
<1>5. TrappedIsQueued'
  <2>1. SUFFICES ASSUME QueueHasRoom, NEW h \in Governors, loaded'[h] = 1, state'[h] = "BLOCKED"
                 PROVE  IsPending(h)' \/ IsWaiting(h)'
    BY DEF TrappedIsQueued, QueueHasRoom
  <2>2. res'["IO"].waitPids = Append(q, g)
    BY <1>1, <1>2, <1>4, <2>1, RoomToWait
  <2>3. /\ q \in Seq(Pids) /\ Len(q) \in Nat /\ DOMAIN q = 1 .. Len(q)
    BY QueueTyped DEF KernelInv
  <2>4. /\ DOMAIN Append(q, g) = 1 .. Len(q) + 1
        /\ \A i \in 1 .. Len(q) : Append(q, g)[i] = q[i]
        /\ Append(q, g)[Len(q) + 1] = g
    BY <1>4, <2>3, AppendProperties, LenProperties
  <2>5. CASE h = g
    BY <2>2, <2>3, <2>4, <2>5 DEF IsWaiting
  <2>6. CASE h # g
    <3>1. loaded[h] = 1 /\ state[h] = "BLOCKED"
      BY <1>2, <2>1, <2>6, KernelTyped
    <3>2. IsPending(h) \/ IsWaiting(h)
      BY <2>1, <3>1 DEF JobsInv, TrappedIsQueued
    <3>3. IsWaiting(h) => IsWaiting(h)'
      <4>1. \A i \in 1 .. Len(q) : i \in 1 .. Len(q) + 1
        BY <2>3
      <4>. QED BY <2>2, <2>3, <2>4, <4>1 DEF IsWaiting
    <3>. QED BY <1>3, <3>2, <3>3
  <2>. QED BY <2>5, <2>6
<1>6. DeviceAtHand'
  <2>1. SUFFICES ASSUME OneIOJob PROVE FALSE
    BY DEF DeviceAtHand, OneIOJob
  <2>2. res["IO"].available = 0 /\ res["IO"].available + Len(pendingIO) = 1
    BY <2>1, ClaimDenied DEF JobsInv, DeviceAtHand
  <2>3. Len(pendingIO) = 1 /\ 1 \in DOMAIN pendingIO
    <3>1. Len(pendingIO) \in Nat /\ DOMAIN pendingIO = 1 .. Len(pendingIO)
      BY PendingTyped DEF KernelInv
    <3>. QED BY <2>2, <3>1
  <2>4. pendingIO[1].proc \in IOJobs /\ g \in IOJobs
    BY <2>1, <2>3, KernelTyped DEF JobsInv, DeviceAtHand, OnlyIOJobsTrap, VMTrap
  <2>5. pendingIO[1].proc = g
    BY <2>1, <2>4 DEF OneIOJob
  <2>. QED BY <1>4, <2>3, <2>5 DEF KernelInv, DeviceSound, PendingAlive
<1>. QED BY <1>5, <1>6

LEMMA VMTrapKeepsJobs ==
  ASSUME KernelInv, JobsInv, NEW g \in Governors, VMTrap(g) PROVE JobsInv'
<1>1. /\ schedule' = schedule /\ vm' = vm
      /\ state' = [state EXCEPT ![g] = "BLOCKED"]
      /\ pc' = "scan" /\ slot' = slot - 1
      /\ UNCHANGED <<cycle, lastPass, nextPid, loaded, parent, timer>>
  <2>1. CASE Granted(res, "IO")
    BY <2>1, ClaimGranted, TrapEffect
  <2>2. CASE ~Granted(res, "IO")
    BY <2>2, ClaimDenied, TrapEffect
  <2>. QED BY <2>1, <2>2
<1>2. /\ ~FirstPass /\ slot \in 80 .. 92 /\ slot = Home(g) /\ g = 194 - slot
      /\ g \in vm /\ loaded[g] = 1 /\ Present(g) /\ g \in Pids
  <2>1. Running(g) /\ g \in vm /\ loaded[g] = 1
    BY DEF VMTrap
  <2>. QED BY <2>1, JobRunsFacts
<1>3. /\ \A p \in Pids : p # g => state'[p] = state[p]
      /\ state'[g] = "BLOCKED"
  BY <1>1, <1>2, KernelTyped
<1>4. \A p : Present(p)' <=> Present(p)
  BY <1>1 DEF Present
<1>5. ~FirstPass' /\ (SecondPass' <=> SecondPass)
  BY <1>1, <1>2 DEF FirstPass, SecondPass
<1>6. Placed' /\ ParentsSound' /\ DaemonsReady'
  BY <1>1, <1>3 DEF JobsInv, Placed, ParentsSound, DaemonsReady
<1>7. GovernorsSound'
  BY <1>1, <1>2, <1>3, <1>4, PidFacts DEF JobsInv, GovernorsSound
<1>8. FirstTable' /\ LaterTable'
  BY <1>1, <1>2, <1>4, <1>5 DEF JobsInv, FirstTable, LaterTable
<1>9. QuietInterrupts'
  <2>1. ASSUME NEW h \in Governors, loaded'[h] = 1, state'[h] = "READY"
        PROVE  Home(h) <= slot' /\ (SecondPass' \/ slot' < Home(IOHandler))
    <3>1. h # g /\ loaded[h] = 1 /\ state[h] = "READY"
      BY <1>1, <1>3, <2>1, PidFacts
    <3>2. Home(h) <= slot /\ (SecondPass \/ slot < Home(IOHandler))
      BY <1>2, <3>1 DEF JobsInv, QuietInterrupts
    <3>3. Home(h) # slot
      BY <1>2, <3>1, HomeFacts
    <3>4. slot - 1 < Home(IOHandler) /\ slot' = slot - 1
      BY <1>1, <1>2, HomeFacts DEF IOHandler
    <3>. QED BY <1>2, <3>2, <3>3, <3>4, HomeFacts
  <2>. QED BY <1>1, <1>2, <1>5, <2>1 DEF JobsInv, QuietInterrupts, Home
<1>10. ShutdownSound'
  <2>1. ~(lastPass /\ cycle + 1 < MaxCycles)
    BY <1>2 DEF JobsInv, ShutdownSound
  <2>. QED BY <1>1, <1>4, <2>1 DEF JobsInv, ShutdownSound
<1>11. LoadsAtOnce'
  BY <1>1, <1>2 DEF JobsInv, LoadsAtOnce, SureLoad
<1>12. OnlyIOJobsTrap'
  <2>1. \A h \in Governors : h # g => trapsLeft'[h] = trapsLeft[h]
    BY KernelTyped DEF VMTrap
  <2>2. g \in IOJobs
    BY KernelTyped DEF JobsInv, OnlyIOJobsTrap, VMTrap
  <2>. QED BY <2>1, <2>2 DEF JobsInv, OnlyIOJobsTrap
<1>13. TrappedIsQueued' /\ DeviceAtHand'
  BY GrantedKeepsTransfers, DeniedKeepsTransfers
<1>. QED BY <1>6, <1>7, <1>8, <1>9, <1>10, <1>11, <1>12, <1>13 DEF JobsInv

-----------------------------------------------------------------------------
\* Every step

LEMMA JobsInit == Init => JobsInv
<1>. SUFFICES ASSUME Init PROVE JobsInv
  OBVIOUS
<1>1. \A s \in Slots : schedule[s] = IF Home(s) <= 101 + NJobs THEN Home(s) ELSE NoPid
  <2>1. schedule = [s \in Slots |-> IF SysHigh - s <= 4 + NJobs
                                    THEN SelfPid + (SysHigh - s) ELSE NoPid]
    BY DEF Init
  <2>2. ASSUME NEW s \in Slots
        PROVE  /\ SelfPid + (SysHigh - s) = Home(s)
               /\ SysHigh - s <= 4 + NJobs <=> Home(s) <= 101 + NJobs
    BY HomeFacts DEF Home, SelfPid, SysHigh
  <2>. QED BY <2>1, <2>2
<1>2. /\ FirstPass /\ ~lastPass /\ pc = "scan" /\ pendingIO = <<>> /\ owed = {}
      /\ timer.counter = 0 /\ timer.active /\ ~timer.interruptFlag
  BY DEF Init, FirstPass
<1>3. nextPid = 101 + NJobs /\ slot = 97
  BY DEF Init, SysHigh
<1>4. res["IO"].waitPids = <<>> /\ res["IO"].available = 1
  BY DEF Init, InitResources, Resource, Units
<1>5. /\ \A p \in Pids : state[p] = "READY"
      /\ \A g \in Governors : loaded[g] = 0 /\ g \in vm /\ g \in Pids
      /\ \A l \in Loaders : parent[l] = NoPid
  BY PidFacts DEF Init
<1>6. Placed
  BY <1>1 DEF Placed
<1>7. DaemonsReady
  BY <1>5 DEF DaemonsReady
<1>8. \A p \in Pids : p <= 101 + NJobs /\ Home(p) \in Slots => Present(p)
  <2>1. SUFFICES ASSUME NEW p \in Pids, p <= 101 + NJobs, Home(p) \in Slots
                 PROVE  schedule[Home(p)] = p
    BY <1>6, PresentHome
  <2>2. Home(Home(p)) = p
    BY HomeFacts, PidFacts
  <2>. QED BY <1>1, <2>1, <2>2
<1>9. \A g \in Governors : Present(g)
  <2>1. ASSUME NEW g \in Governors PROVE g <= 101 + NJobs /\ Home(g) \in Slots
    BY HomeFacts
  <2>. QED BY <1>5, <1>8, <2>1
<1>10. Present(StartStop)
  <2>1. StartStop <= 101 + NJobs /\ Home(StartStop) \in Slots
    BY HomeFacts DEF StartStop
  <2>. QED BY <1>8, <2>1, PidFacts
<1>11. FirstTable
  <2>1. Visited = 0
    BY <1>3, HomeFacts DEF Visited
  <2>2. \A s \in Slots : s <= slot
    BY <1>3, HomeFacts
  <2>3. \A g \in Governors : loaded[g] = 0 /\ Home(g) <= slot
    BY <1>5, <1>3, HomeFacts
  <2>4. nextPid = 101 + NJobs + Visited
    BY <1>3, <2>1
  <2>. QED BY <1>1, <1>3, <2>2, <2>3, <2>4 DEF FirstTable
<1>12. LaterTable
  BY <1>2 DEF LaterTable
<1>13. ParentsSound
  <2>1. \A l \in Loaders : ~(l <= nextPid)
    BY <1>3, HomeFacts
  <2>. QED BY <1>5, <2>1 DEF ParentsSound
<1>14. GovernorsSound
  BY <1>9, <1>5 DEF GovernorsSound
<1>15. QuietInterrupts
  BY <1>2 DEF QuietInterrupts
<1>16. ShutdownSound
  BY <1>2, <1>10 DEF ShutdownSound
<1>17. LoadsAtOnce
  BY <1>5 DEF LoadsAtOnce
<1>18. TrappedIsQueued
  BY <1>5 DEF TrappedIsQueued
<1>19. OnlyIOJobsTrap
  BY DEF Init, OnlyIOJobsTrap
<1>20. DeviceAtHand
  BY <1>2, <1>4 DEF DeviceAtHand
<1>. QED BY <1>6, <1>7, <1>11, <1>12, <1>13, <1>14, <1>15, <1>16, <1>17, <1>18, <1>19, <1>20
     DEF JobsInv

LEMMA JobsNext == KernelInv /\ JobsInv /\ [Next]_vars => JobsInv'
<1>. SUFFICES ASSUME KernelInv, JobsInv, [Next]_vars PROVE JobsInv'
  OBVIOUS
<1>1. CASE Skip \/ RunSelf \/ RunIdle \/ StayUp \/ IOIdle \/ IOTick \/ RunInterruptHandler
  BY <1>1, QuietPasses, Passed
<1>2. CASE Dispatch
  BY <1>2, DispatchKeepsJobs
<1>3. CASE Shutdown
  BY <1>3, ShutdownKeepsJobs
<1>4. CASE IOComplete
  BY <1>4, IOCompleteKeepsJobs
<1>5. ASSUME NEW g \in Governors, GovernorLoading(g) \/ VMFinish(g) \/ VMTrap(g)
      PROVE  JobsInv'
  BY <1>5, CreateLoaderKeepsJobs, VMFinishKeepsJobs, VMTrapKeepsJobs
<1>6. ASSUME NEW l \in Loaders, RunLoader(l) PROVE JobsInv'
  BY <1>6, RunLoaderKeepsJobs
<1>7. CASE NextCycle \/ LeaveLoop
  BY <1>7, CycleKeepsJobs
<1>8. CASE Exit \/ Exited \/ UNCHANGED vars
  BY <1>8, ExitKeepsJobs DEF Exited
<1>. QED BY <1>1, <1>2, <1>3, <1>4, <1>5, <1>6, <1>7, <1>8 DEF Next

-----------------------------------------------------------------------------
\* Theorems

\* main creates the jobs, they load in its first pass over the table and first
\* run in its second, and the table, the timer and the transfers stay as JobsInv
\* says, whatever the number of jobs, their programs and their files.
THEOREM JobsInvariance == Spec => []JobsInv
<1>1. Init => KernelInv /\ JobsInv
  BY InitStep, JobsInit
<1>2. KernelInv /\ JobsInv /\ [Next]_vars => (KernelInv /\ JobsInv)'
  BY NextStep, JobsNext
<1>. QED BY <1>1, <1>2, PTL DEF Spec

\* No timer interrupt finds a governor READY: contextSwitch never leaves a job
\* RUNNING, a state nothing in the scheduler leaves (context_switcher.c:45-58).
THEOREM NobodyIsStranded == Spec => []NeverStranded
<1>1. JobsInv => NeverStranded
  BY DEF JobsInv, GovernorsSound, NeverStranded
<1>. QED BY <1>1, JobsInvariance, PTL

\* Start-Stop stops the timer and empties the table only when every job has
\* ended, so the processes it frees are daemons (main.c:183-204).
THEOREM NoJobIsKilled == Spec => ShutdownKillsNoJob
<1>1. KernelInv /\ JobsInv /\ [Next]_vars =>
        [timer'.active # timer.active => \A g \in Governors : loaded[g] = 3]_vars
  <2>1. SUFFICES ASSUME KernelInv, JobsInv, Next, timer'.active # timer.active
                 PROVE  \A g \in Governors : loaded[g] = 3
    OBVIOUS
  <2>2. checkTimerInterrupt.active = timer.active
    BY <2>1, KernelTyped DEF checkTimerInterrupt, Timers
  <2>3. tickTimer.active = timer.active
    <3>1. TypeOK
      BY <2>1 DEF KernelInv
    <3>. QED BY <3>1, TickEffect
  <2>4. timer' \notin {timer, checkTimerInterrupt, tickTimer}
    BY <2>1, <2>2, <2>3
  <2>5. Shutdown
    BY <2>1, <2>4 DEF Next, Skip, Dispatch, RunSelf, RunIdle, StayUp, RunInterruptHandler,
       IOIdle, IOTick, IOComplete, GovernorLoading, VMFinish, VMTrap, RunLoader, NextCycle,
       LeaveLoop, Exit, Exited, vars
  <2>6. ~HasWork
    BY <2>5 DEF Shutdown
  <2>7. GovernorsSound
    BY <2>1 DEF JobsInv
  <2>. QED BY <2>6, <2>7 DEF GovernorsSound, HasWork, Present
<1>. QED BY <1>1, Invariance, JobsInvariance, PTL DEF Spec, ShutdownKillsNoJob

\* Every image loads, and the table has a slot for every loader.
SureLoads == \A g \in Governors : SureLoad(g)

\* In the first pass the loader a governor waits for is in its own slot, which
\* the scan has not reached yet.
LEMMA LoaderAhead ==
  ASSUME KernelInv, JobsInv, NEW g \in Governors, SureLoad(g), loaded[g] = 2
  PROVE  g + NJobs \in Loaders /\ Present(g + NJobs) /\ parent[g + NJobs] = g
<1>. DEFINE l == g + NJobs
<1>1. FirstPass /\ Home(l) <= slot
  BY DEF JobsInv, LoadsAtOnce
<1>2. /\ nextPid = 101 + NJobs + Visited
      /\ \A s \in Slots :
           schedule[s] = IF Home(s) <= nextPid /\ (s <= slot \/ s > Home(102 + NJobs))
                         THEN Home(s) ELSE NoPid
      /\ Home(g) > slot
  <2>1. Home(g) \in Int /\ slot \in Int
    BY KernelTyped, HomeFacts
  <2>2. ~(Home(g) <= slot)
    BY <1>1 DEF JobsInv, FirstTable
  <2>. QED BY <1>1, <2>1, <2>2 DEF JobsInv, FirstTable
<1>3. /\ l \in Loaders /\ l \in Pids /\ l # NoPid /\ l - NJobs = g
      /\ Home(l) \in Slots /\ Home(Home(l)) = l
  <2>1. l \in Loaders /\ Home(l) \in 80 .. 97 /\ Home(Home(l)) = l /\ l - NJobs = g
    BY HomeFacts DEF SureLoad, SysLow, Loaders
  <2>. QED BY <2>1, HomeFacts, PidFacts
<1>4. l <= nextPid
  <2>1. slot \in Int /\ g < 194 - slot /\ g <= 101 + NJobs /\ g \in Int
    BY <1>2, KernelTyped, HomeFacts
  <2>2. NJobs \in 1 .. 13 /\ Home(102) = 92 /\ Home(102 + NJobs) = 92 - NJobs /\ g >= 102
    BY HomeFacts
  <2>3. CASE slot >= 92
    BY <2>1, <2>2, <2>3
  <2>4. CASE slot < 92 /\ slot >= 92 - NJobs
    <3>1. Visited = 92 - slot
      BY <2>1, <2>2, <2>4 DEF Visited
    <3>. QED BY <1>2, <2>1, <2>2, <3>1
  <2>5. CASE slot < 92 - NJobs
    <3>1. Visited = NJobs
      BY <2>1, <2>2, <2>5 DEF Visited
    <3>. QED BY <1>2, <2>1, <2>2, <3>1
  <2>. QED BY <2>1, <2>2, <2>3, <2>4, <2>5
<1>5. schedule[Home(l)] = l
  BY <1>1, <1>2, <1>3, <1>4
<1>6. parent[l] = g
  BY <1>3, <1>4 DEF JobsInv, ParentsSound
<1>. QED BY <1>3, <1>5, <1>6 DEF Present, InTable

\* When every image loads and the loaders fit the table, which they do up to six
\* jobs, a governor that asked for its program has a loader in the table until
\* the loader marks it loaded (loader.c:242, loader.h:52).
THEOREM LoadersSignal == SureLoads => (Spec => []LoaderSignals)
<1>. SUFFICES ASSUME SureLoads PROVE Spec => []LoaderSignals
  OBVIOUS
<1>1. KernelInv /\ JobsInv => LoaderSignals
  BY LoaderAhead DEF SureLoads, LoaderSignals
<1>. QED BY <1>1, Invariance, JobsInvariance, PTL

\* With one job that does transfers, as in main, its program goes on only after
\* the transfer it trapped for was performed (ioHandler.c:68).
THEOREM ServedFirst == OneIOJob => (Spec => []ServedBeforeResume)
<1>. SUFFICES ASSUME OneIOJob PROVE Spec => []ServedBeforeResume
  OBVIOUS
<1>1. KernelInv /\ JobsInv => ServedBeforeResume
  <2>1. SUFFICES ASSUME KernelInv, JobsInv, NEW g \in Governors, g \in owed
                 PROVE  state[g] = "BLOCKED"
    BY DEF ServedBeforeResume
  <2>2. IsPending(g)
    BY <2>1 DEF JobsInv, DeviceAtHand
  <2>. QED BY <2>1, <2>2 DEF IsPending, KernelInv, DeviceSound, PendingAlive, Parked
<1>. QED BY <1>1, Invariance, JobsInvariance, PTL

\* With one job that does transfers and images that load, every blocked governor
\* has somebody who will wake it: its loader or the end of its transfer.
THEOREM BlockedHaveWakers ==
  SureLoads /\ OneIOJob /\ QueueHasRoom => (Spec => []BlockedHasWaker)
<1>. SUFFICES ASSUME SureLoads, OneIOJob, QueueHasRoom PROVE Spec => []BlockedHasWaker
  OBVIOUS
<1>1. KernelInv /\ JobsInv => BlockedHasWaker
  <2>1. SUFFICES ASSUME KernelInv, JobsInv,
                        NEW g \in Governors, Present(g), state[g] = "BLOCKED"
                 PROVE  \/ loaded[g] = 2 /\ \E l \in Loaders : Present(l) /\ parent[l] = g
                        \/ IsPending(g)
    BY DEF BlockedHasWaker
  <2>2. loaded[g] \in {1, 2}
    <3>1. loaded[g] \in 0 .. 3 /\ loaded[g] # 3 /\ loaded[g] # 0
      BY <2>1, KernelTyped DEF JobsInv, GovernorsSound
    <3>. QED BY <3>1
  <2>3. CASE loaded[g] = 2
    BY <2>1, <2>3, LoaderAhead DEF SureLoads
  <2>4. CASE loaded[g] = 1
    <3>1. IsPending(g) \/ IsWaiting(g)
      BY <2>1, <2>4 DEF JobsInv, TrappedIsQueued
    <3>2. ~IsWaiting(g)
      BY <2>1 DEF JobsInv, DeviceAtHand, IsWaiting
    <3>. QED BY <3>1, <3>2
  <2>. QED BY <2>2, <2>3, <2>4
<1>. QED BY <1>1, Invariance, JobsInvariance, PTL

\* With one job that does transfers, main returns early only with the timer
\* stopped, nothing in the table but the scheduler's own process, no request and
\* every unit in its pool (main.c:193-209, 322-325).
THEOREM ExitIsClean == OneIOJob => (Spec => []CleanExit)
<1>. SUFFICES ASSUME OneIOJob PROVE Spec => []CleanExit
  OBVIOUS
<1>1. KernelInv /\ JobsInv => CleanExit
  <2>1. SUFFICES ASSUME KernelInv, JobsInv, pc = "exit", cycle < MaxCycles - 1
                 PROVE  /\ ~timer.active
                        /\ \A s \in Slots : schedule[s] # NoPid => schedule[s] = SelfPid
                        /\ pendingIO = <<>>
                        /\ res = InitResources
    BY DEF CleanExit
  <2>2. lastPass /\ slot = 79 /\ cycle + 1 < MaxCycles
    BY <2>1, KernelTyped, BoundsAssumption DEF JobsInv, ShutdownSound, SysLow
  <2>3. slot < Home(StartStop)
    BY <2>2, HomeFacts DEF StartStop
  <2>4. (\A g \in Governors : loaded[g] = 3) /\ ~Present(StartStop)
    BY <2>1, <2>2, <2>3 DEF JobsInv, ShutdownSound
  <2>5. ~timer.active /\ \A s \in Slots : schedule[s] # NoPid => schedule[s] = SelfPid
    BY <2>1, <2>4 DEF JobsInv, ShutdownSound
  <2>6. pendingIO = <<>>
    <3>1. \A i \in DOMAIN pendingIO : FALSE
      <4>1. \A g \in Governors : ~Parked(g)
        BY <2>4 DEF Parked
      <4>. QED BY <2>1, <4>1, PendingTyped DEF KernelInv, DeviceSound, PendingAlive
    <3>2. pendingIO \in Seq(Requests) /\ DOMAIN pendingIO = 1 .. Len(pendingIO)
      BY <2>1, PendingTyped DEF KernelInv
    <3>3. SUFFICES ASSUME Len(pendingIO) \in Nat \ {0} PROVE FALSE
      BY <3>2, EmptySeq
    <3>4. 1 \in 1 .. Len(pendingIO)
      BY <3>3
    <3>. QED BY <3>1, <3>2, <3>4
  <2>7. res = InitResources
    <3>1. res["IO"].waitPids = <<>> /\ res["IO"].available = 1
      <4>1. res["IO"].waitPids = <<>> /\ res["IO"].available + Len(pendingIO) = 1
        BY <2>1 DEF JobsInv, DeviceAtHand
      <4>2. Len(pendingIO) = 0 /\ res["IO"].available \in Nat
        BY <2>1, <2>6, QueueTyped DEF KernelInv
      <4>. QED BY <4>1, <4>2
    <3>2. /\ \A r \in {"MEM", "TMR"} : res[r].available = Units[r] /\ res[r].waitPids = <<>>
          /\ res["CPU"].available = 1 /\ res["CPU"].waitPids = <<>>
      BY <2>1 DEF KernelInv, UnitsReturned
    <3>3. \A r \in Resource : res[r].available = Units[r] /\ res[r].waitPids = <<>>
      BY <3>1, <3>2 DEF Resource, Units
    <3>4. \A r \in Resource : res[r] = [available |-> Units[r], waitPids |-> <<>>]
      <4>1. \A r \in Resource : res[r] \in [available : Nat, waitPids : Seq(Pids)]
        BY <2>1, KernelTyped DEF RMs
      <4>. QED BY <3>3, <4>1
    <3>. QED BY <2>1, <3>4, KernelTyped DEF InitResources, RMs
  <2>. QED BY <2>5, <2>6, <2>7
<1>. QED BY <1>1, Invariance, JobsInvariance, PTL

-----------------------------------------------------------------------------
\* The kernel implements JobLifecycle.  With room in the wait queue no job is
\* ever in the phases "killed" and "stuck", which JobLifecycle does not have.

LEMMA PhaseFrame ==
  ASSUME NEW h \in Governors, loaded'[h] = loaded[h], state'[h] = state[h],
         Present(h)' <=> Present(h), IsPending(h)' <=> IsPending(h),
         IsWaiting(h)' <=> IsWaiting(h)
  PROVE  Phase(h)' = Phase(h)
BY DEF Phase

\* A job that does not stand for a request is neither served nor queued.
LEMMA NotAsking ==
  ASSUME KernelInv, NEW g \in Governors, ~Parked(g)
  PROVE  ~IsPending(g) /\ ~IsWaiting(g)
BY DEF KernelInv, DeviceSound, PendingAlive, WaitQueueSound, IsPending, IsWaiting

LEMMA RunningIsReady ==
  ASSUME KernelInv, JobsInv, NEW g \in Governors, loaded[g] = 1, state[g] = "READY"
  PROVE  Phase(g) = "ready"
<1>1. Present(g)
  BY DEF JobsInv, GovernorsSound
<1>2. ~IsPending(g) /\ ~IsWaiting(g)
  BY NotAsking DEF Parked
<1>. QED BY <1>1, <1>2 DEF Phase

\* A process other than the scheduler's own runs only before the shutdown.
LEMMA UpWhileRunning ==
  ASSUME KernelInv, JobsInv, NEW p, Running(p), p # SelfPid
  PROVE  Present(StartStop)
<1>1. slot \in Slots /\ schedule[slot] = p /\ p # NoPid
  BY RunnerHome, PidFacts DEF JobsInv
<1>. QED BY <1>1 DEF JobsInv, ShutdownSound

Stutters == UNCHANGED Lifecycle!lifecycleVars

LEMMA StillPhases ==
  ASSUME UNCHANGED <<schedule, loaded, state>>, SameRequests PROVE Stutters
<1>1. \A p : Present(p)' <=> Present(p)
  BY DEF Present
<1>2. \A h : (IsPending(h)' <=> IsPending(h)) /\ (IsWaiting(h)' <=> IsWaiting(h))
  BY DEF SameRequests, IsPending, IsWaiting
<1>3. \A h \in Governors : Phase(h)' = Phase(h)
  BY <1>1, <1>2, PhaseFrame
<1>4. Present(StartStop)' = Present(StartStop)
  BY <1>1
<1>. QED BY <1>3, <1>4 DEF Stutters, Lifecycle!lifecycleVars

\* One job goes from one phase to another.
LEMMA OneMoves ==
  ASSUME NEW g \in Governors, NEW from, NEW to, Present(StartStop), Present(StartStop)',
         Phase(g) = from, Phase(g)' = to,
         \A h \in Governors : h # g => Phase(h)' = Phase(h)
  PROVE  Lifecycle!Move(g, from, to)
<1>. DEFINE phase == [h \in Governors |-> Phase(h)]
<1>1. phase[g] = from
  OBVIOUS
<1>2. phase' = [phase EXCEPT ![g] = to]
  OBVIOUS
<1>3. Present(StartStop)' = Present(StartStop)
  OBVIOUS
<1>. QED BY <1>1, <1>2, <1>3 DEF Lifecycle!Move

LEMMA InitPhases == Init => Lifecycle!Init
<1>. SUFFICES ASSUME Init PROVE Lifecycle!Init
  OBVIOUS
<1>1. JobsInv
  BY JobsInit
<1>2. \A g \in Governors : loaded[g] = 0
  BY DEF Init
<1>3. \A g \in Governors : Phase(g) = "new"
  BY <1>1, <1>2 DEF JobsInv, GovernorsSound, Phase
<1>4. Present(StartStop) = TRUE
  BY <1>1 DEF Init, JobsInv, ShutdownSound
<1>. QED BY <1>3, <1>4 DEF Lifecycle!Init

LEMMA CreateLoaderMoves ==
  ASSUME KernelInv, JobsInv, NEW g \in Governors, GovernorLoading(g)
  PROVE  Lifecycle!RequestLoad(g)
<1>1. /\ loaded[g] = 0 /\ Running(g) /\ Present(g)
      /\ loaded' = [loaded EXCEPT ![g] = 2]
      /\ state' = [state EXCEPT ![g] = "BLOCKED"]
      /\ res'["IO"] = res["IO"] /\ pendingIO' = pendingIO
  BY CreateLoaderEffect
<1>2. \A p \in Governors \cup {StartStop} : Present(p)' <=> Present(p)
  <2>1. \A p \in Governors \cup {StartStop} : p \in Pids /\ p <= 101 + NJobs
    BY HomeFacts, PidFacts DEF StartStop
  <2>. QED BY <2>1, CreateLoaderPlaces
<1>3. \A h : (IsPending(h)' <=> IsPending(h)) /\ (IsWaiting(h)' <=> IsWaiting(h))
  BY <1>1 DEF IsPending, IsWaiting
<1>4. \A h \in Governors : h # g => loaded'[h] = loaded[h] /\ state'[h] = state[h]
  BY <1>1, KernelTyped, PidFacts
<1>5. Phase(g) = "new" /\ Phase(g)' = "loading"
  BY <1>1, <1>2, KernelTyped DEF Phase
<1>6. \A h \in Governors : h # g => Phase(h)' = Phase(h)
  BY <1>2, <1>3, <1>4, PhaseFrame
<1>7. Present(StartStop)
  BY <1>1, UpWhileRunning, PidFacts
<1>. QED BY <1>2, <1>5, <1>6, <1>7, OneMoves DEF Lifecycle!RequestLoad

LEMMA RunLoaderMoves ==
  ASSUME KernelInv, JobsInv, NEW l \in Loaders, RunLoader(l)
  PROVE  Lifecycle!Load(l - NJobs) \/ Stutters
<1>. DEFINE g == l - NJobs
<1>1. /\ Running(l) /\ g \in Governors /\ loaded[g] = 2
      /\ \E ok \in LoadOutcomes[g] :
           /\ loaded' = IF ok THEN [loaded EXCEPT ![g] = 1] ELSE loaded
           /\ state' = IF ok THEN [state EXCEPT ![g] = "READY"] ELSE state
      /\ schedule' = removeProcP(schedule, l)
      /\ res'["IO"] = res["IO"] /\ pendingIO' = pendingIO
  BY RunLoaderEffect
<1>. HIDE DEF g
<1>2. \A p \in Governors \cup {StartStop} : Present(p)' <=> Present(p)
  <2>1. l \in Pids /\ \A p \in Governors \cup {StartStop} : p # l
    BY PidFacts
  <2>. QED BY <1>1, <2>1, KernelTyped, RemoveEffect DEF Present
<1>3. \A h : (IsPending(h)' <=> IsPending(h)) /\ (IsWaiting(h)' <=> IsWaiting(h))
  BY <1>1 DEF IsPending, IsWaiting
<1>4. CASE UNCHANGED <<loaded, state>>
  <2>1. \A h \in Governors : Phase(h)' = Phase(h)
    BY <1>2, <1>3, <1>4, PhaseFrame
  <2>2. Present(StartStop)' <=> Present(StartStop)
    BY <1>2
  <2>3. Present(StartStop)' = Present(StartStop)
    BY <2>2 DEF Present, InTable
  <2>. QED BY <2>1, <2>3 DEF Stutters, Lifecycle!lifecycleVars
<1>5. CASE loaded' = [loaded EXCEPT ![g] = 1] /\ state' = [state EXCEPT ![g] = "READY"]
  <2>1. \A h \in Governors : h # g => loaded'[h] = loaded[h] /\ state'[h] = state[h]
    BY <1>5, KernelTyped, PidFacts
  <2>2. loaded'[g] = 1 /\ state'[g] = "READY"
    BY <1>1, <1>5, KernelTyped, PidFacts
  <2>3. Present(g) /\ ~IsPending(g) /\ ~IsWaiting(g)
    BY <1>1, NotAsking DEF JobsInv, GovernorsSound, Parked
  <2>4. Phase(g) = "loading"
    BY <1>1, <2>3 DEF Phase
  <2>5. Phase(g)' = "ready"
    BY <1>1, <1>2, <1>3, <2>2, <2>3 DEF Phase
  <2>6. \A h \in Governors : h # g => Phase(h)' = Phase(h)
    BY <1>2, <1>3, <2>1, PhaseFrame
  <2>7. Present(StartStop)
    <3>1. l # SelfPid
      BY PidFacts
    <3>. QED BY <1>1, <3>1, UpWhileRunning
  <2>8. Lifecycle!Move(g, "loading", "ready")
    BY <1>1, <1>2, <2>4, <2>5, <2>6, <2>7, OneMoves
  <2>. QED BY <2>8 DEF Lifecycle!Load, g
<1>. QED BY <1>1, <1>4, <1>5

LEMMA FinishMoves ==
  ASSUME KernelInv, JobsInv, NEW g \in Governors, VMFinish(g)
  PROVE  Lifecycle!Finish(g)
<1>1. /\ Running(g) /\ loaded[g] = 1
      /\ loaded' = [loaded EXCEPT ![g] = 3]
      /\ schedule' = removeProcP(schedule, g)
      /\ state' = state /\ res'["IO"] = res["IO"] /\ pendingIO' = pendingIO
  BY FinishEffect
<1>2. g \in Pids /\ g # StartStop /\ state[g] = "READY"
  BY <1>1, JobRunsFacts
<1>3. \A p : p # g => (Present(p)' <=> Present(p))
  BY <1>1, <1>2, KernelTyped, RemoveEffect DEF Present
<1>4. \A h : (IsPending(h)' <=> IsPending(h)) /\ (IsWaiting(h)' <=> IsWaiting(h))
  BY <1>1 DEF IsPending, IsWaiting
<1>5. loaded'[g] = 3 /\ \A h \in Governors : h # g => loaded'[h] = loaded[h]
  BY <1>1, KernelTyped
<1>6. Phase(g) = "ready"
  BY <1>1, <1>2, RunningIsReady
<1>7. Phase(g)' = "done"
  BY <1>5 DEF Phase
<1>8. \A h \in Governors : h # g => Phase(h)' = Phase(h)
  BY <1>1, <1>3, <1>4, <1>5, PhaseFrame
<1>9. Present(StartStop) /\ Present(StartStop)'
  BY <1>1, <1>2, <1>3, UpWhileRunning, PidFacts
<1>. QED BY <1>6, <1>7, <1>8, <1>9, OneMoves DEF Lifecycle!Finish

\* The device is free: nobody else is served or queued.
LEMMA TrapStarts ==
  ASSUME KernelInv, JobsInv, NEW g \in Governors, VMTrap(g), Granted(res, "IO")
  PROVE  Lifecycle!StartTransfer(g)
<1>1. pendingIO = <<>> /\ res["IO"].waitPids = <<>>
  <2>1. res["IO"].available # 0
    BY DEF Granted
  <2>. QED BY <2>1, ClaimGranted DEF KernelInv, DeviceSound, WaitQueueSound
<1>2. PICK rm \in RMs, request \in Requests :
        /\ enqueueIORequest(g) = <<rm, <<request>>>> /\ request.proc = g
        /\ \A r \in {"CPU", "MEM", "TMR"} : rm[r] = res[r]
        /\ rm["IO"].available = 0 /\ rm["IO"].waitPids = <<>>
  BY ClaimGranted
<1>3. /\ pendingIO' = <<request>> /\ res'["IO"] = rm["IO"] /\ loaded' = loaded
      /\ schedule' = schedule /\ state' = [state EXCEPT ![g] = "BLOCKED"]
  BY <1>2, TrapEffect
<1>4. DOMAIN pendingIO' = {1} /\ pendingIO'[1].proc = g
  <2>1. DOMAIN <<request>> = {1} /\ <<request>>[1] = request
    OBVIOUS
  <2>. QED BY <1>2, <1>3, <2>1
<1>5. /\ \A h : ~IsPending(h) /\ ~IsWaiting(h) /\ ~IsWaiting(h)'
      /\ \A h : IsPending(h)' <=> h = g
  BY <1>1, <1>2, <1>3, <1>4 DEF IsPending, IsWaiting
<1>6. \A p : Present(p)' <=> Present(p)
  BY <1>3 DEF Present
<1>7. Running(g) /\ g \in vm /\ loaded[g] = 1 /\ state[g] = "READY" /\ Present(g)
  <2>1. Running(g) /\ g \in vm /\ loaded[g] = 1
    BY DEF VMTrap
  <2>. QED BY <2>1, JobRunsFacts
<1>8. Phase(g) = "ready"
  BY <1>7, RunningIsReady
<1>9. Phase(g)' = "transfer"
  BY <1>3, <1>5, <1>6, <1>7 DEF Phase
<1>10. \A h \in Governors : h # g => Phase(h)' = Phase(h)
  <2>1. \A h \in Governors : h # g => loaded'[h] = loaded[h] /\ state'[h] = state[h]
    BY <1>3, KernelTyped, PidFacts
  <2>. QED BY <1>5, <1>6, <2>1, PhaseFrame
<1>11. Present(StartStop) /\ Present(StartStop)'
  BY <1>6, <1>7, UpWhileRunning, PidFacts
<1>12. Lifecycle!At("transfer") = {}
  <2>1. \A h \in Governors : Phase(h) # "transfer"
    BY <1>5 DEF Phase
  <2>. QED BY <2>1 DEF Lifecycle!At
<1>. QED BY <1>8, <1>9, <1>10, <1>11, <1>12, OneMoves DEF Lifecycle!StartTransfer

\* The device is taken: the job is queued, for there is room.
LEMMA TrapQueues ==
  ASSUME KernelInv, JobsInv, QueueHasRoom, NEW g \in Governors, VMTrap(g), ~Granted(res, "IO")
  PROVE  Lifecycle!Queue(g)
<1>. DEFINE q == res["IO"].waitPids
<1>1. PICK rm \in RMs :
        /\ enqueueIORequest(g) = <<rm, pendingIO>>
        /\ \A r \in {"CPU", "MEM", "TMR"} : rm[r] = res[r]
        /\ rm["IO"].available = 0 /\ rm["IO"].waitPids = enqueue(q, g)
  BY ClaimDenied
<1>2. /\ pendingIO' = pendingIO /\ res'["IO"] = rm["IO"] /\ loaded' = loaded
      /\ schedule' = schedule /\ state' = [state EXCEPT ![g] = "BLOCKED"]
  BY <1>1, TrapEffect
<1>3. Running(g) /\ g \in vm /\ loaded[g] = 1 /\ state[g] = "READY" /\ Present(g) /\ g \in Pids
  <2>1. Running(g) /\ g \in vm /\ loaded[g] = 1
    BY DEF VMTrap
  <2>. QED BY <2>1, JobRunsFacts
<1>4. ~Parked(g) /\ ~IsPending(g) /\ ~IsWaiting(g)
  BY <1>3, NotAsking DEF Parked
<1>5. res'["IO"].waitPids = Append(q, g)
  BY <1>1, <1>2, <1>4, RoomToWait
<1>6. \A h : IsWaiting(h)' <=> IsWaiting(h) \/ h = g
  <2>1. /\ q \in Seq(Pids) /\ Len(q) \in Nat /\ DOMAIN q = 1 .. Len(q)
    BY QueueTyped DEF KernelInv
  <2>2. /\ DOMAIN Append(q, g) = 1 .. Len(q) + 1
        /\ \A i \in 1 .. Len(q) : Append(q, g)[i] = q[i]
        /\ Append(q, g)[Len(q) + 1] = g
    BY <1>3, <2>1, AppendProperties, LenProperties
  <2>3. \A i : i \in 1 .. Len(q) + 1 <=> i \in 1 .. Len(q) \/ i = Len(q) + 1
    BY <2>1
  <2>. HIDE DEF q
  <2>4. \A h : IsWaiting(h) <=> \E i \in 1 .. Len(q) : q[i] = h
    BY <2>1 DEF IsWaiting, q
  <2>5. \A h : IsWaiting(h)' <=> \E i \in 1 .. Len(q) + 1 : Append(q, g)[i] = h
    BY <1>5, <2>2 DEF IsWaiting
  <2>. QED BY <2>2, <2>3, <2>4, <2>5
<1>7. \A h : IsPending(h)' <=> IsPending(h)
  BY <1>2 DEF IsPending
<1>8. \A p : Present(p)' <=> Present(p)
  BY <1>2 DEF Present
<1>9. Phase(g) = "ready"
  BY <1>3, RunningIsReady
<1>10. Phase(g)' = "queued"
  BY <1>2, <1>3, <1>4, <1>6, <1>7, <1>8 DEF Phase
<1>11. \A h \in Governors : h # g => Phase(h)' = Phase(h)
  <2>1. \A h \in Governors : h # g => loaded'[h] = loaded[h] /\ state'[h] = state[h]
    BY <1>2, KernelTyped, PidFacts
  <2>. QED BY <1>6, <1>7, <1>8, <2>1, PhaseFrame
<1>12. Present(StartStop) /\ Present(StartStop)'
  BY <1>3, <1>8, UpWhileRunning, PidFacts
<1>. QED BY <1>9, <1>10, <1>11, <1>12, OneMoves DEF Lifecycle!Queue

LEMMA ShutdownMoves == ASSUME KernelInv, JobsInv, Shutdown PROVE Lifecycle!SwitchOff
<1>1. /\ \A g \in Governors : loaded[g] = 3
      /\ loaded' = loaded
      /\ \A s \in Slots : schedule'[s] = IF schedule[s] = SelfPid THEN SelfPid ELSE NoPid
  BY ShutdownEffect
<1>2. Present(StartStop)
  <2>1. Running(StartStop) /\ StartStop # SelfPid
    BY DEF Shutdown, StartStop, SelfPid
  <2>. QED BY <2>1, UpWhileRunning
<1>3. Present(StartStop)' = FALSE
  BY <1>1, PidFacts DEF Present, InTable, StartStop, SelfPid
<1>4. \A g \in Governors : Phase(g) = "done" /\ Phase(g)' = "done"
  BY <1>1 DEF Phase
<1>5. Lifecycle!At("done") = Governors
  BY <1>4 DEF Lifecycle!At
<1>. QED BY <1>2, <1>3, <1>4, <1>5 DEF Lifecycle!SwitchOff

\* The end of a transfer makes its owner ready, and the waiter that gets the unit.
LEMMA IOCompleteMoves ==
  ASSUME KernelInv, JobsInv, IOComplete
  PROVE  \E g \in Governors : Lifecycle!EndTransfer(g)
<1>. DEFINE phase == [h \in Governors |-> Phase(h)]
<1>0. PICK g, q : g = pendingIO[1].proc /\ q = res["IO"].waitPids
  OBVIOUS
<1>1. /\ Running(IOHandler) /\ DOMAIN pendingIO = {1} /\ g \in Governors /\ Parked(g)
      /\ schedule' = schedule /\ pendingIO' = <<>> /\ loaded' = loaded
      /\ q = <<>> => res'["IO"].waitPids = <<>>
      /\ q # <<>> => res'["IO"].waitPids = Tail(q)
  BY <1>0, IOCompleteEffect
<1>2. /\ state'[g] = "READY"
      /\ q # <<>> => state'[q[1]] = "READY"
  BY <1>0, IOCompleteWakes
<1>3. \A h \in Governors : h # g /\ (q = <<>> \/ h # q[1]) => state'[h] = state[h]
  <2>1. /\ state' = [completeIO(state, g) EXCEPT ![IOHandler] = "READY"]
        /\ completeIO(state, g) \in [Pids -> States]
        /\ \A p \in Pids : p # g /\ p # Heir(res, "IO") => completeIO(state, g)[p] = state[p]
    BY <1>0, IOCompleteEffect
  <2>2. \A h \in Governors : h \in Pids /\ h # IOHandler /\ h # NoPid
    BY PidFacts
  <2>3. Heir(res, "IO") = IF q = <<>> THEN NoPid ELSE q[1]
    BY <1>0 DEF Heir
  <2>. QED BY <2>1, <2>2, <2>3
<1>4. /\ \A h : IsPending(h) <=> h = g
      /\ \A h : ~IsPending(h)'
      /\ \A p : Present(p)' <=> Present(p)
  BY <1>0, <1>1 DEF IsPending, Present
<1>5. q \in Seq(Pids) /\ Len(q) \in Nat /\ DOMAIN q = 1 .. Len(q)
  BY <1>0, QueueTyped DEF KernelInv
<1>6. /\ \A i \in DOMAIN q : q[i] \in Governors /\ Parked(q[i]) /\ q[i] # g
      /\ \A i, j \in DOMAIN q : q[i] = q[j] => i = j
  <2>1. /\ \A i \in DOMAIN q : q[i] \in Governors /\ Parked(q[i]) /\ ~IsPending(q[i])
        /\ \A i, j \in DOMAIN q : q[i] = q[j] => i = j
    BY <1>0 DEF KernelInv, DeviceSound, WaitQueueSound
  <2>. QED BY <1>4, <2>1
<1>7. \A h : IsWaiting(h)' <=> IsWaiting(h) /\ h # q[1]
  <2>1. CASE q = <<>>
    BY <1>0, <1>1, <2>1 DEF IsWaiting
  <2>2. CASE q # <<>>
    <3>1. Len(q) \in Nat \ {0}
      BY <1>5, <2>2, EmptySeq
    <3>2. /\ DOMAIN Tail(q) = 1 .. Len(q) - 1
          /\ \A j \in 1 .. Len(q) - 1 : Tail(q)[j] = q[j + 1]
      BY <1>5, <2>2, HeadTailProperties, LenProperties
    <3>3. \A h : IsWaiting(h)' <=> \E j \in 1 .. Len(q) - 1 : q[j + 1] = h
      BY <1>1, <2>2, <3>2 DEF IsWaiting
    <3>4. \A j \in 1 .. Len(q) - 1 : j + 1 \in DOMAIN q /\ j + 1 # 1
      BY <1>5, <3>1
    <3>5. \A i \in DOMAIN q : i # 1 => i - 1 \in 1 .. Len(q) - 1 /\ (i - 1) + 1 = i
      BY <1>5, <3>1
    <3>6. 1 \in DOMAIN q
      BY <1>5, <3>1
    <3>7. ASSUME NEW h, IsWaiting(h)' PROVE IsWaiting(h) /\ h # q[1]
      <4>1. PICK j \in 1 .. Len(q) - 1 : q[j + 1] = h
        BY <3>3, <3>7
      <4>. QED BY <1>0, <1>6, <3>4, <3>6, <4>1 DEF IsWaiting
    <3>8. ASSUME NEW h, IsWaiting(h), h # q[1] PROVE IsWaiting(h)'
      <4>1. PICK i \in DOMAIN q : q[i] = h
        BY <1>0, <3>8 DEF IsWaiting
      <4>2. q[(i - 1) + 1] = h /\ i - 1 \in 1 .. Len(q) - 1
        BY <3>5, <3>8, <4>1
      <4>. QED BY <3>3, <4>2
    <3>. QED BY <3>7, <3>8
  <2>. QED BY <2>1, <2>2
<1>8. ASSUME NEW h \in Governors, h # g, q = <<>> \/ h # q[1] PROVE Phase(h)' = Phase(h)
  <2>1. IsWaiting(h)' <=> IsWaiting(h)
    BY <1>0, <1>7, <1>8 DEF IsWaiting
  <2>2. loaded'[h] = loaded[h] /\ state'[h] = state[h]
    BY <1>1, <1>3, <1>8
  <2>. QED BY <1>4, <1>8, <2>1, <2>2, PhaseFrame
<1>9. ~IsWaiting(g) /\ loaded[g] = 1 /\ Present(g)
  BY <1>0, <1>1, <1>6 DEF IsWaiting, Parked
<1>10. Phase(g) = "transfer" /\ Phase(g)' = "ready"
  BY <1>1, <1>2, <1>4, <1>7, <1>9 DEF Phase
<1>11. Present(StartStop) /\ Present(StartStop)' = Present(StartStop)
  <2>1. IOHandler # SelfPid
    BY DEF IOHandler, SelfPid
  <2>2. Present(StartStop)
    BY <1>1, <2>1, UpWhileRunning
  <2>. QED BY <1>4, <2>2 DEF Present, InTable
<1>12. CASE q = <<>>
  <2>1. Lifecycle!At("queued") = {}
    <3>1. \A h \in Governors : Phase(h) # "queued"
      BY <1>0, <1>12 DEF Phase, IsWaiting
    <3>. QED BY <3>1 DEF Lifecycle!At
  <2>2. phase' = [phase EXCEPT ![g] = "ready"]
    BY <1>8, <1>10, <1>12
  <2>. QED BY <1>1, <1>10, <1>11, <2>1, <2>2 DEF Lifecycle!EndTransfer
<1>13. CASE q # <<>>
  <2>1. 1 \in DOMAIN q
    BY <1>5, <1>13, EmptySeq
  <2>2. q[1] \in Governors /\ Parked(q[1]) /\ q[1] # g /\ IsWaiting(q[1])
    BY <1>0, <1>6, <2>1 DEF IsWaiting
  <2>3. Phase(q[1]) = "queued"
    BY <1>4, <2>2 DEF Phase, Parked
  <2>4. Phase(q[1])' = "ready"
    BY <1>1, <1>2, <1>4, <1>7, <1>13, <2>2 DEF Phase, Parked
  <2>5. q[1] \in Lifecycle!At("queued")
    BY <2>2, <2>3 DEF Lifecycle!At
  <2>6. phase' = [phase EXCEPT ![g] = "ready", ![q[1]] = "ready"]
    BY <1>8, <1>10, <2>2, <2>4
  <2>. QED BY <1>1, <1>10, <1>11, <2>5, <2>6 DEF Lifecycle!EndTransfer
<1>. QED BY <1>12, <1>13

LEMMA LifecycleStep ==
  ASSUME KernelInv, JobsInv, QueueHasRoom, [Next]_vars
  PROVE  [Lifecycle!Next]_(Lifecycle!lifecycleVars)
<1>1. CASE Skip \/ RunSelf \/ RunIdle \/ StayUp \/ IOIdle \/ IOTick \/ RunInterruptHandler
  <2>1. PassesOver
    BY <1>1, QuietPasses
  <2>. QED BY <2>1, StillPhases DEF PassesOver, Stutters
<1>2. CASE Dispatch
  BY <1>2, DispatchStandsStill, StillPhases DEF StandsStill, Stutters
<1>3. CASE NextCycle \/ LeaveLoop \/ Exit \/ Exited \/ UNCHANGED vars
  <2>1. UNCHANGED <<schedule, loaded, state>> /\ SameRequests
    BY <1>3 DEF NextCycle, LeaveLoop, Exit, Exited, vars, procVars, jobVars, SameRequests
  <2>. QED BY <2>1, StillPhases DEF Stutters
<1>4. CASE Shutdown
  BY <1>4, ShutdownMoves DEF Lifecycle!Next
<1>5. CASE IOComplete
  BY <1>5, IOCompleteMoves DEF Lifecycle!Next
<1>6. ASSUME NEW g \in Governors, GovernorLoading(g) \/ VMFinish(g) \/ VMTrap(g)
      PROVE  Lifecycle!Next
  <2>1. \/ Lifecycle!RequestLoad(g) \/ Lifecycle!Finish(g)
        \/ Lifecycle!StartTransfer(g) \/ Lifecycle!Queue(g)
    BY <1>6, CreateLoaderMoves, FinishMoves, TrapStarts, TrapQueues
  <2>. QED BY <2>1 DEF Lifecycle!Next
<1>7. ASSUME NEW l \in Loaders, RunLoader(l)
      PROVE  Lifecycle!Next \/ Stutters
  <2>1. l - NJobs \in Governors
    BY <1>7, RunLoaderEffect
  <2>. QED BY <1>7, <2>1, RunLoaderMoves DEF Lifecycle!Next
<1>. QED BY <1>1, <1>2, <1>3, <1>4, <1>5, <1>6, <1>7 DEF Next, Stutters

\* With room in the wait queue for every job, as the 31 places of the source are,
\* the booted system does what JobLifecycle promises of its jobs: one transfer at
\* a time, no job lost, killed or run after its end, no shutdown before all have
\* ended (main.c:104-210, ioHandler.c:20-131).
THEOREM ImplementsJobLifecycle == QueueHasRoom => (Spec => ImplementsLifecycle)
<1>. SUFFICES ASSUME QueueHasRoom PROVE Spec => ImplementsLifecycle
  OBVIOUS
<1>1. Init => Lifecycle!Init
  BY InitPhases
<1>2. KernelInv /\ JobsInv /\ [Next]_vars => [Lifecycle!Next]_(Lifecycle!lifecycleVars)
  BY LifecycleStep
<1>. QED BY <1>1, <1>2, Invariance, JobsInvariance, PTL
     DEF Spec, ImplementsLifecycle, Lifecycle!Spec

-----------------------------------------------------------------------------
\* The I/O unit

LEMMA RequestsKept == ASSUME SameRequests PROVE AtHand' = AtHand
  BY DEF SameRequests, AtHand

LEMMA TrapKeepsUnit ==
  ASSUME KernelInv, JobsInv, NEW g \in Governors, VMTrap(g)
  PROVE  AtHand' = AtHand
<1>1. res["IO"].available \in Nat /\ Len(<<>>) = 0
  BY QueueTyped DEF KernelInv
<1>2. CASE Granted(res, "IO")
  <2>1. pendingIO = <<>>
    BY <1>2, ClaimGranted
  <2>2. res["IO"].available = 1
    <3>1. res["IO"].available > 0 /\ Len(pendingIO) = 0
      BY <1>1, <1>2, <2>1 DEF Granted
    <3>2. res["IO"].available + Len(pendingIO) <= 1
      BY DEF KernelInv, DeviceSound, DeviceExclusive
    <3>. QED BY <1>1, <3>1, <3>2
  <2>3. PICK rm \in RMs, request \in Requests :
          /\ enqueueIORequest(g) = <<rm, <<request>>>>
          /\ \A r \in {"CPU", "MEM", "TMR"} : rm[r] = res[r]
          /\ rm["IO"].available = 0
    BY <1>2, ClaimGranted
  <2>4. pendingIO' = <<request>> /\ res'["IO"] = rm["IO"]
    BY <2>3, TrapEffect
  <2>5. Len(pendingIO') = 1 /\ res'["IO"].available = 0
    BY <2>3, <2>4
  <2>. QED BY <1>1, <2>1, <2>2, <2>5 DEF AtHand
<1>3. CASE ~Granted(res, "IO")
  <2>1. res["IO"].available = 0
    BY <1>3, ClaimDenied
  <2>2. PICK rm \in RMs :
          /\ enqueueIORequest(g) = <<rm, pendingIO>>
          /\ \A r \in {"CPU", "MEM", "TMR"} : rm[r] = res[r]
          /\ rm["IO"].available = 0
    BY <1>3, ClaimDenied
  <2>3. pendingIO' = pendingIO /\ res'["IO"] = rm["IO"]
    BY <2>2, TrapEffect
  <2>. QED BY <2>1, <2>2, <2>3 DEF AtHand
<1>. QED BY <1>2, <1>3

LEMMA CompletionKeepsUnit ==
  ASSUME KernelInv, IOComplete
  PROVE  LET q == res["IO"].waitPids IN
         IF q = <<>> THEN AtHand' = AtHand
         ELSE res'["IO"].waitPids = Tail(q) /\ AtHand' = AtHand - 1
<1>. DEFINE q == res["IO"].waitPids
<1>1. /\ res["IO"].available = 0 /\ Len(pendingIO) = 1 /\ pendingIO' = <<>>
      /\ q = <<>> => res'["IO"].available = 1
      /\ q # <<>> => res'["IO"].available = 0 /\ res'["IO"].waitPids = Tail(q)
  BY IOCompleteEffect
<1>2. Len(pendingIO') = 0
  BY <1>1
<1>. QED BY <1>1, <1>2 DEF AtHand

LEMMA UnitStep ==
  ASSUME KernelInv, JobsInv, [Next]_vars
  PROVE  LET q == res["IO"].waitPids IN
         \/ AtHand' = AtHand
         \/ q # <<>> /\ res'["IO"].waitPids = Tail(q) /\ AtHand' = AtHand - 1
<1>1. CASE Skip \/ RunSelf \/ RunIdle \/ StayUp \/ IOIdle \/ IOTick \/ RunInterruptHandler
  BY <1>1, QuietPasses, RequestsKept DEF PassesOver
<1>2. CASE Dispatch
  BY <1>2, DispatchStandsStill, RequestsKept DEF StandsStill
<1>3. CASE NextCycle \/ LeaveLoop \/ Exit \/ Exited \/ UNCHANGED vars
  BY <1>3 DEF NextCycle, LeaveLoop, Exit, Exited, vars, AtHand
<1>4. CASE Shutdown
  BY <1>4, ShutdownEffect DEF AtHand
<1>5. CASE IOComplete
  BY <1>5, CompletionKeepsUnit
<1>6. ASSUME NEW g \in Governors, GovernorLoading(g) \/ VMFinish(g) \/ VMTrap(g)
      PROVE  AtHand' = AtHand
  BY <1>6, CreateLoaderEffect, FinishEffect, TrapKeepsUnit DEF AtHand
<1>7. ASSUME NEW l \in Loaders, RunLoader(l)
      PROVE  AtHand' = AtHand
  BY <1>7, RunLoaderEffect DEF AtHand
<1>. QED BY <1>1, <1>2, <1>3, <1>4, <1>5, <1>6, <1>7 DEF Next

\* The I/O unit is lost in no other way than by a release that hands it to a
\* waiter, whatever the jobs, their programs and their files: every other step
\* leaves it in its pool or with a transfer (resourceManager.c:61-82).
THEOREM OnlyHandOversLoseUnits == Spec => LostOnlyByHandOver
<1>1. KernelInv /\ JobsInv /\ [Next]_vars =>
        [LET q == res["IO"].waitPids IN
         \/ AtHand' = AtHand
         \/ q # <<>> /\ res'["IO"].waitPids = Tail(q) /\ AtHand' = AtHand - 1]_vars
  BY UnitStep
<1>. QED BY <1>1, Invariance, JobsInvariance, PTL DEF Spec, LostOnlyByHandOver
=============================================================================
