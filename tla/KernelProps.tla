---------------------------- MODULE KernelProps ----------------------------
(***************************************************************************)
(* What is required of module Kernel: the properties that TLC checks, the  *)
(* inductive invariant of the proofs, and the refinement mapping onto      *)
(* JobLifecycle.                                                           *)
(***************************************************************************)
EXTENDS Kernel

IsPending(g) == \E i \in DOMAIN pendingIO : pendingIO[i].proc = g
IsWaiting(g) == \E i \in DOMAIN res["IO"].waitPids : res["IO"].waitPids[i] = g

Present(p) == InTable(schedule, p)

\* A loaded governor, blocked and in possession of its machine: the process a
\* pending request or a queued pid stands for.
Parked(g) == Present(g) /\ g \in vm /\ loaded[g] = 1 /\ state[g] = "BLOCKED"

\* The type invariant.
TypeOK ==
  /\ pc \in {"scan", "run", "exit"}
  /\ slot \in SysLow - 1 .. SysHigh
  /\ cycle \in 0 .. MaxCycles - 1
  /\ lastPass \in BOOLEAN
  /\ schedule \in [Slots -> Pids \cup {NoPid}]
  /\ nextPid \in 101 + NJobs .. LastPid
  /\ current \in Pids \cup {NoPid}
  /\ state \in [Pids -> {"READY", "RUNNING", "BLOCKED", "SUSP_BLOCKED"}]
  /\ loaded \in [Governors -> 0 .. 3]
  /\ vm \in SUBSET Governors
  /\ parent \in [Loaders -> Governors \cup {NoPid}]
  /\ res \in [Resource -> [available : Nat, waitPids : Seq(Pids)]]
  /\ pendingIO \in Seq([proc : Governors, ticks : 0 .. IOTicks])
  /\ timer \in [counter : 0 .. TickLimit - 1, active : BOOLEAN, interruptFlag : BOOLEAN]
  /\ trapsLeft \in [Governors -> 0 .. MaxTraps]
  /\ owed \in SUBSET Governors

-----------------------------------------------------------------------------
\* Resources

\* Between two visits every unit of CPU, MEM and TMR is back in its pool and
\* nobody waits for one, whatever the error path the entry function took
\* (scheduler.c:256-282, loader.c:82-166, interruptHandler.c:33-92).
UnitsReturned ==
  /\ \A r \in {"MEM", "TMR"} : res[r].available = Units[r] /\ res[r].waitPids = <<>>
  /\ res["CPU"].available = IF pc = "run" THEN 0 ELSE 1
  /\ res["CPU"].waitPids = <<>>

\* The I/O unit is never given out twice: it is free or serves one queued
\* transfer, even when a release hands it to a waiter (ioHandler.c:69-86,
\* resourceManager.c:61-82).
DeviceExclusive == res["IO"].available + Len(pendingIO) <= 1

\* The units of the I/O device that are to be had again: in the pool, or with a
\* transfer that gives its unit back when it is done.
AtHand == res["IO"].available + Len(pendingIO)

\* Only a hand-over loses the unit: a step that leaves one less at hand is a
\* release that takes the head of the wait queue, and none brings a lost one
\* back (resourceManager.c:61-82, ioHandler.c:52-61, 68-86).
LostOnlyByHandOver ==
  [][ LET q == res["IO"].waitPids IN
      \/ AtHand' = AtHand
      \/ q # <<>> /\ res'["IO"].waitPids = Tail(q) /\ AtHand' = AtHand - 1 ]_vars

\* A pid waits for the I/O unit at most once, belongs to a blocked governor that
\* still has its machine and is not being served, and the unit is not free:
\* the pid that releaseResource takes from the queue is never stale
\* (resourceManager.c:66-77).
WaitQueueSound ==
  LET q == res["IO"].waitPids IN
  /\ \A i \in DOMAIN q :
       /\ q[i] \in Governors /\ Parked(q[i])
       /\ ~IsPending(q[i])
  /\ \A i, j \in DOMAIN q : q[i] = q[j] => i = j
  /\ q # <<>> => res["IO"].available = 0

-----------------------------------------------------------------------------
\* I/O requests

\* The process a pending request points to has not been freed, still owns the
\* machine the transfer is made with, and stays blocked until it is done
\* (ioHandler.c:20-61; removeProcP and Start-Stop free processes).
PendingAlive == \A i \in DOMAIN pendingIO : Parked(pendingIO[i].proc)

\* A program goes on only after the transfer it trapped for was performed
\* (ioHandler.c:68: the caller is to retry a denied request later).
ServedBeforeResume ==
  \A g \in Governors : Present(g) /\ loaded[g] = 1 /\ state[g] = "READY" => g \notin owed

\* A queued transfer is eventually performed: the ring is never left with a
\* request that nobody ticks (ioHandler.c:96-131).
TransferCompletes == \A g \in Governors : IsPending(g) ~> ~IsPending(g)

-----------------------------------------------------------------------------
\* Jobs

\* contextSwitch never leaves a governor RUNNING, a state that runRange does not
\* schedule and that does not count as work (context_switcher.c:45-58,
\* scheduler.c:244, main.c:320): no timer interrupt finds a governor READY.
NeverStranded == \A g \in Governors : Present(g) => state[g] \in {"READY", "BLOCKED"}

\* A blocked governor has somebody who will wake it: its loader, its transfer,
\* or the transfer whose end hands the unit on.
BlockedHasWaker ==
  \A g \in Governors : Present(g) /\ state[g] = "BLOCKED" =>
    \/ loaded[g] = 2 /\ \E l \in Loaders : Present(l) /\ parent[l] = g
    \/ IsPending(g)
    \/ IsWaiting(g) /\ pendingIO # <<>>

\* A governor that has asked for its program waits for a loader that is still
\* in the table, or has been marked loaded: a loader signals its parent before
\* it ends (loader.c:242, loader.h:52).
LoaderSignals ==
  \A g \in Governors : loaded[g] = 2 =>
    \E l \in Loaders : Present(l) /\ parent[l] = g

\* Start-Stop never takes a job's process or machine away: when it empties the
\* table every governor has already finished (main.c:183-204).
ShutdownKillsNoJob ==
  [][ timer'.active # timer.active => \A g \in Governors : loaded[g] = 3 ]_vars

\* main returns before its 200 cycles are over only after a shutdown that left
\* nothing behind: no request, no lost unit, no process but the scheduler's own
\* (main.c:193-209, 322-325).
CleanExit ==
  pc = "exit" /\ cycle < MaxCycles - 1 =>
    /\ ~timer.active
    /\ \A s \in Slots : schedule[s] # NoPid => schedule[s] = SelfPid
    /\ pendingIO = <<>>
    /\ res = InitResources

\* main always returns (main.c:307-326).
MainReturns == <>(pc = "exit")

\* Every job runs to its end (main.c:104: load program, run VM, finish).
JobsFinish == \A g \in Governors : <>(loaded[g] = 3)

\* Every job that asks for no transfer and has a valid image runs to its end,
\* whatever happens to the loads and the transfers of the others (main.c:104-171).
PlainJobsFinish ==
  \A g \in Governors \ IOJobs : LoadOutcomes[g] = {TRUE} => <>(loaded[g] = 3)

-----------------------------------------------------------------------------
\* The inductive invariant: the resource and I/O properties above hold because
\* of these facts about the table, the process being run and the loaders.

\* A pid has one slot, and none was given out yet beyond nextPid, which counts
\* the governors that asked for a loader (scheduler.c:82-112).
TableSound ==
  /\ \A s, t \in Slots : schedule[s] = schedule[t] /\ schedule[s] # NoPid => s = t
  /\ \A s \in Slots : schedule[s] <= nextPid
  /\ nextPid = 101 + NJobs + Cardinality({g \in Governors : loaded[g] # 0})

\* The process whose entry runs is the current one, in its slot and READY;
\* between visits only the scheduler's own process may still be current.
RunSound ==
  IF pc = "run"
  THEN /\ slot \in Slots /\ schedule[slot] # NoPid
       /\ state[schedule[slot]] = "READY"
       /\ current = schedule[slot]
  ELSE current \in {NoPid, SelfPid}

\* A loader in the table has a parent that waits for it and for no other.
LoadersSound ==
  /\ \A l \in Loaders : Present(l) => parent[l] \in Governors /\ loaded[parent[l]] = 2
  /\ \A l, m \in Loaders : Present(l) /\ Present(m) /\ parent[l] = parent[m] => l = m

DeviceSound == DeviceExclusive /\ PendingAlive /\ WaitQueueSound

KernelInv ==
  TypeOK /\ TableSound /\ RunSound /\ LoadersSound /\ UnitsReturned /\ DeviceSound

-----------------------------------------------------------------------------
\* The second inductive invariant: what the properties about jobs rest on.  The
\* jobs are all created, loaded and first run in an order the scan fixes.

\* main and addProc give out slots downwards in the order of the pids, and no
\* process ever changes its slot (main.c:226-283, scheduler.c:82-112).
Home(p) == SelfPid + SysHigh - p

FirstPass == cycle = 0 /\ ~lastPass
SecondPass == IF lastPass THEN cycle = 0 ELSE cycle = 1

Placed == \A s \in Slots : schedule[s] \in {NoPid, Home(s)}

DaemonsReady == \A p \in Pids \ Governors : state[p] = "READY"

\* How many governors were visited so far, each of which has created its loader.
Visited ==
  IF slot >= Home(102) THEN 0 ELSE IF slot >= Home(102 + NJobs) THEN Home(102) - slot ELSE NJobs

\* In the first pass nobody leaves the table but the loaders that have run.
FirstTable ==
  FirstPass =>
    /\ nextPid = 101 + NJobs + Visited
    /\ \A s \in Slots :
         schedule[s] = IF Home(s) <= nextPid /\ (s <= slot \/ s > Home(102 + NJobs))
                       THEN Home(s) ELSE NoPid
    /\ \A g \in Governors : loaded[g] = 0 <=> Home(g) <= slot

\* Afterwards every governor has asked for its program and no loader is left.
LaterTable ==
  ~FirstPass => /\ \A g \in Governors : loaded[g] # 0
                /\ \A l \in Loaders : ~Present(l)

ParentsSound ==
  \A l \in Loaders : parent[l] \in {NoPid, l - NJobs} /\ (l <= nextPid => parent[l] # NoPid)

\* A governor is in the table, with its machine, until it is done.
GovernorsSound ==
  \A g \in Governors :
    /\ Present(g) <=> loaded[g] # 3
    /\ Present(g) => g \in vm /\ state[g] \in {"READY", "BLOCKED"}
    /\ loaded[g] = 0 => state[g] = "READY"
    /\ loaded[g] = 2 => state[g] = "BLOCKED"

\* No timer interrupt is latched in the first two passes.  Later, a governor is
\* READY only between the end of its transfer and its visit: never in the slots
\* of the scan above the I/O handler, where the interrupt handler runs.
QuietInterrupts ==
  /\ FirstPass => timer.counter = 0
  /\ FirstPass \/ SecondPass => ~timer.interruptFlag
  /\ ~FirstPass => \A g \in Governors : loaded[g] = 1 /\ state[g] = "READY" =>
       Home(g) <= slot /\ (SecondPass \/ slot < Home(IOHandler))

\* The timer is stopped, and the table emptied, when Start-Stop leaves it.
ShutdownSound ==
  /\ timer.active <=> Present(StartStop)
  /\ ~Present(StartStop) => \A s \in Slots : schedule[s] \in {NoPid, SelfPid}
  /\ pc = "exit" => lastPass /\ slot = SysLow - 1
  /\ lastPass /\ cycle + 1 < MaxCycles =>
       /\ \A g \in Governors : loaded[g] = 3
       /\ slot < Home(StartStop) => ~Present(StartStop)

\* A loader that must succeed does so in the first pass, if the table has a slot
\* for it.
SureLoad(g) == LoadOutcomes[g] = {TRUE} /\ Home(g + NJobs) >= SysLow

LoadsAtOnce ==
  \A g \in Governors : SureLoad(g) /\ loaded[g] = 2 => FirstPass /\ Home(g + NJobs) <= slot

\* With room for every governor in the wait queue a trapped one is always in it
\* or being served.
QueueHasRoom == NJobs <= WaitCapacity

TrappedIsQueued ==
  QueueHasRoom =>
    \A g \in Governors : loaded[g] = 1 /\ state[g] = "BLOCKED" => IsPending(g) \/ IsWaiting(g)

\* With a single job that does I/O the unit is there when it asks.
OneIOJob == \A g, h \in IOJobs : g = h

DeviceAtHand ==
  OneIOJob =>
    /\ res["IO"].waitPids = <<>>
    /\ res["IO"].available + Len(pendingIO) = 1
    /\ \A i \in DOMAIN pendingIO : pendingIO[i].proc \in IOJobs
    /\ \A g \in owed : IsPending(g)

OnlyIOJobsTrap == \A g \in Governors \ IOJobs : trapsLeft[g] = 0

JobsInv ==
  /\ Placed /\ DaemonsReady /\ FirstTable /\ LaterTable /\ ParentsSound
  /\ GovernorsSound /\ QuietInterrupts /\ ShutdownSound /\ LoadsAtOnce
  /\ TrappedIsQueued /\ OnlyIOJobsTrap /\ DeviceAtHand

-----------------------------------------------------------------------------
\* Refinement

\* Where a governor is in its life.  The last two are not phases of
\* JobLifecycle: a job in one of them has been lost.
Phase(g) ==
  IF loaded[g] = 3 THEN "done"
  ELSE IF ~Present(g) THEN "killed"
  ELSE IF loaded[g] = 0 THEN "new"
  ELSE IF loaded[g] = 2 THEN "loading"
  ELSE IF IsPending(g) THEN "transfer"
  ELSE IF IsWaiting(g) THEN "queued"
  ELSE IF state[g] = "READY" THEN "ready"
  ELSE "stuck"

Lifecycle == INSTANCE JobLifecycle
  WITH Jobs <- Governors,
       phase <- [g \in Governors |-> Phase(g)],
       up <- Present(StartStop)

\* The kernel implements the life cycle: one transfer at a time, no job lost or
\* run again after its end, a shutdown only when all have ended.
ImplementsLifecycle == Lifecycle!Spec
=============================================================================
