--------------------------- MODULE KernelProofs ---------------------------
(***************************************************************************)
(* The inductive invariant KernelInv of the booted kernel, for any number  *)
(* of jobs that fits the table, any set of jobs that do I/O, any outcome   *)
(* of the loads and any bounds.                                            *)
(***************************************************************************)
EXTENDS KernelProps, FiniteSetTheorems, SequenceTheorems, WellFoundedInduction, TLAPS

RMs == [Resource -> [available : Nat, waitPids : Seq(Pids)]]
States == {"READY", "RUNNING", "BLOCKED", "SUSP_BLOCKED"}
Tables == [Slots -> Pids \cup {NoPid}]
Requests == [proc : Governors, ticks : 0 .. IOTicks]
Timers == [counter : 0 .. TickLimit - 1, active : BOOLEAN, interruptFlag : BOOLEAN]

-----------------------------------------------------------------------------
\* Constants

LEMMA PidFacts ==
  /\ Pids \subseteq Nat /\ NoPid \notin Pids
  /\ {SelfPid, StartStop, Idle, InterruptHandler, IOHandler} \subseteq Pids
  /\ Governors \subseteq Pids /\ Loaders \subseteq Pids
  /\ Governors \cap Loaders = {}
  /\ \A p \in {SelfPid, StartStop, Idle, InterruptHandler, IOHandler} :
       p \notin Governors /\ p \notin Loaders
  /\ NoPid \notin Governors /\ NoPid \notin Loaders
BY NJobsAssumption
DEF Pids, NoPid, SelfPid, StartStop, Idle, InterruptHandler, IOHandler,
    Governors, Loaders, LastPid

LEMMA SlotFacts == Slots \subseteq Nat /\ \A s \in Slots : s - 1 \in SysLow - 1 .. SysHigh
BY DEF Slots, SysLow, SysHigh

\* A non-empty set of slots has a highest one.
LEMMA SlotMaximum ==
  \A S \in SUBSET Slots : S # {} => \E x \in S : \A t \in S : t <= x
<1>. SUFFICES ASSUME NEW S \in SUBSET Slots, S # {}
     PROVE  \E x \in S : \A t \in S : t <= x
  OBVIOUS
<1>. DEFINE Below == {SysHigh - x : x \in S}
<1>1. Below \subseteq Nat /\ Below # {}
  <2>1. ASSUME NEW x \in S PROVE SysHigh - x \in Nat
    <3>1. x \in Slots
      OBVIOUS
    <3>. QED BY <3>1 DEF Slots, SysLow, SysHigh
  <2>2. Below # {}
    OBVIOUS
  <2>. QED BY <2>1, <2>2
<1>2. PICK y \in Below : \A z \in Below : ~ (<<z, y>> \in OpToRel(<, Nat))
  BY <1>1, NatLessThanWellFounded, WFMin
<1>3. \A z \in Below : ~ (z < y)
  BY <1>1, <1>2 DEF OpToRel
<1>4. PICK x \in S : y = SysHigh - x
  OBVIOUS
<1>5. ASSUME NEW t \in S PROVE t <= x
  <2>1. ~ (SysHigh - t < SysHigh - x)
    BY <1>3, <1>4
  <2>2. t \in Slots /\ x \in Slots
    OBVIOUS
  <2>. QED BY <2>1, <2>2 DEF Slots, SysLow, SysHigh
<1>. QED BY <1>5

-----------------------------------------------------------------------------
\* The resource manager

\* A request touches its own resource only: a unit less, or one waiter more.
LEMMA RequestEffect ==
  ASSUME NEW rm \in RMs, NEW r \in Resource, NEW p \in Pids
  PROVE  LET rm2 == requestResource(rm, r, p) IN
         /\ rm2 \in RMs
         /\ \A q \in Resource \ {r} : rm2[q] = rm[q]
         /\ Granted(rm, r) => /\ rm2[r].available = rm[r].available - 1
                              /\ rm2[r].waitPids = rm[r].waitPids
         /\ ~Granted(rm, r) => /\ rm2[r].available = 0
                               /\ rm2[r].waitPids = enqueue(rm[r].waitPids, p)
<1>1. rm[r].available \in Nat /\ rm[r].waitPids \in Seq(Pids)
  BY DEF RMs
<1>2. enqueue(rm[r].waitPids, p) \in Seq(Pids)
  BY <1>1, AppendProperties DEF enqueue
<1>3. CASE Granted(rm, r)
  BY <1>1, <1>3 DEF RMs, Granted, requestResource
<1>4. CASE ~Granted(rm, r)
  BY <1>1, <1>2, <1>4 DEF RMs, Granted, requestResource
<1>. QED BY <1>3, <1>4

\* So does a release: a waiter less, or a unit more.
LEMMA ReleaseEffect ==
  ASSUME NEW rm \in RMs, NEW r \in Resource
  PROVE  LET rm2 == releaseResource(rm, r) IN
         /\ rm2 \in RMs
         /\ \A q \in Resource \ {r} : rm2[q] = rm[q]
         /\ rm[r].waitPids = <<>> => /\ rm2[r].available = rm[r].available + 1
                                     /\ rm2[r].waitPids = <<>>
         /\ rm[r].waitPids # <<>> => /\ rm2[r].available = rm[r].available
                                     /\ rm2[r].waitPids = Tail(rm[r].waitPids)
<1>1. rm[r].available \in Nat /\ rm[r].waitPids \in Seq(Pids)
  BY DEF RMs
<1>2. CASE rm[r].waitPids = <<>>
  BY <1>1, <1>2 DEF RMs, releaseResource
<1>3. CASE rm[r].waitPids # <<>>
  <2>1. Tail(rm[r].waitPids) \in Seq(Pids)
    BY <1>1, <1>3, HeadTailProperties
  <2>. QED BY <1>1, <1>3, <2>1 DEF RMs, releaseResource
<1>. QED BY <1>2, <1>3

\* With a free unit and nobody waiting, a release undoes a request.
LEMMA RequestRelease ==
  ASSUME NEW rm \in RMs, NEW r \in Resource, NEW p \in Pids,
         Granted(rm, r), rm[r].waitPids = <<>>
  PROVE  /\ releaseResource(requestResource(rm, r, p), r) = rm
         /\ Heir(requestResource(rm, r, p), r) = NoPid
<1>1. rm[r].available \in Nat
  BY DEF RMs
<1>. QED BY <1>1 DEF RMs, Granted, requestResource, releaseResource, Heir

\* Nobody is woken when nobody waits.
LEMMA WakeNobody ==
  ASSUME NEW st, NEW sched PROVE Wake(st, sched, NoPid) = st
BY DEF Wake, InTable

\* A pending request belongs to a governor.
LEMMA PendingTyped ==
  ASSUME TypeOK
  PROVE  /\ pendingIO \in Seq(Requests) /\ Len(pendingIO) \in Nat
         /\ DOMAIN pendingIO = 1 .. Len(pendingIO)
         /\ \A i \in DOMAIN pendingIO : pendingIO[i].proc \in Governors
<1>1. pendingIO \in Seq(Requests)
  BY DEF TypeOK, Requests
<1>2. Len(pendingIO) \in Nat /\ DOMAIN pendingIO = 1 .. Len(pendingIO)
  BY <1>1, LenProperties
<1>3. \A i \in 1 .. Len(pendingIO) : pendingIO[i] \in Requests
  BY <1>1, ElementOfSeq
<1>. QED BY <1>1, <1>2, <1>3 DEF Requests

-----------------------------------------------------------------------------
\* Frames: what keeps each part of the invariant

\* The table only loses processes, and no governor asks for a loader.
LEMMA TableFrame ==
  ASSUME TypeOK, TableSound,
         \A s \in Slots : schedule'[s] \in {schedule[s], NoPid},
         nextPid' = nextPid,
         \A g \in Governors : loaded'[g] # 0 <=> loaded[g] # 0
  PROVE  TableSound'
<1>1. {g \in Governors : loaded'[g] # 0} = {g \in Governors : loaded[g] # 0}
  OBVIOUS
<1>2. NoPid <= nextPid
  BY NJobsAssumption DEF TypeOK, NoPid, LastPid
<1>. QED BY <1>1, <1>2 DEF TableSound

LEMMA PresentFrame ==
  ASSUME \A s \in Slots : schedule'[s] \in {schedule[s], NoPid}, NEW p
  PROVE  Present(p)' => Present(p)
BY DEF Present, InTable

LEMMA LoadersFrame ==
  ASSUME LoadersSound,
         \A s \in Slots : schedule'[s] \in {schedule[s], NoPid},
         parent' = parent,
         \A l \in Loaders : Present(l)' => loaded'[parent[l]] = loaded[parent[l]]
  PROVE  LoadersSound'
BY PresentFrame DEF LoadersSound

\* The ring and the queue are not touched and no parked governor is disturbed.
LEMMA DeviceFrame ==
  ASSUME TypeOK, DeviceSound,
         pendingIO' = pendingIO, res'["IO"] = res["IO"],
         \A g \in Governors : Parked(g) => Parked(g)'
  PROVE  DeviceSound'
<1>1. \A i \in DOMAIN pendingIO : pendingIO[i].proc \in Governors
  BY PendingTyped
<1>2. DeviceExclusive'
  BY DEF DeviceSound, DeviceExclusive
<1>3. PendingAlive'
  BY <1>1 DEF DeviceSound, PendingAlive
<1>4. WaitQueueSound'
  BY DEF DeviceSound, WaitQueueSound, IsPending
<1>. QED BY <1>2, <1>3, <1>4 DEF DeviceSound

-----------------------------------------------------------------------------
\* The end of a visit

\* After any visit the scan goes on, the structure of the kernel is sound again
\* and the CPU is back in its pool.
VisitOver ==
  /\ pc' = "scan" /\ slot' \in SysLow - 1 .. SysHigh
  /\ cycle' = cycle /\ lastPass' = lastPass /\ current' = NoPid
  /\ schedule' \in Tables /\ state' \in [Pids -> States]
  /\ vm' \in SUBSET Governors /\ res' \in RMs
  /\ RunSound' /\ UnitsReturned'

LEMMA LeaveEffect ==
  ASSUME TypeOK, RunSound, UnitsReturned,
         NEW p \in Pids, Running(p), NEW rc \in {-1, 0, 1},
         NEW st \in [Pids -> States], NEW sched \in Tables,
         NEW owners \in SUBSET Governors, NEW rm \in RMs,
         \A r \in {"CPU", "MEM", "TMR"} : rm[r] = res[r],
         LeaveCPU(p, rc, st, sched, owners, rm)
  PROVE  /\ VisitOver
         /\ schedule' = IF rc = 0 THEN removeProcP(sched, p) ELSE sched
         /\ state' = IF rc = 0 THEN st
                     ELSE [st EXCEPT ![p] = IF rc < 0 THEN "BLOCKED" ELSE "READY"]
         /\ vm' = IF rc = 0 THEN owners \ {p} ELSE owners
         /\ res'["IO"] = rm["IO"]
<1>1. rm["CPU"].waitPids = <<>> /\ rm["CPU"].available = 0
  BY DEF UnitsReturned, Running
<1>2. Heir(rm, "CPU") = NoPid
  BY <1>1 DEF Heir
<1>3. /\ schedule' = IF rc = 0 THEN removeProcP(sched, p) ELSE sched
      /\ state' = IF rc = 0 THEN st
                  ELSE [st EXCEPT ![p] = IF rc < 0 THEN "BLOCKED" ELSE "READY"]
      /\ vm' = IF rc = 0 THEN owners \ {p} ELSE owners
      /\ pc' = "scan" /\ slot' = slot - 1 /\ current' = NoPid
      /\ cycle' = cycle /\ lastPass' = lastPass
      /\ res' = releaseResource(rm, "CPU")
  BY <1>2, WakeNobody DEF LeaveCPU
<1>4. schedule' \in Tables
  BY <1>3 DEF Tables, removeProcP
<1>5. state' \in [Pids -> States]
  BY <1>3 DEF States
<1>6. /\ res' \in RMs
      /\ \A q \in Resource \ {"CPU"} : res'[q] = rm[q]
      /\ res'["CPU"].available = 1 /\ res'["CPU"].waitPids = <<>>
  BY <1>1, <1>3, ReleaseEffect DEF Resource
<1>7. slot' \in SysLow - 1 .. SysHigh
  BY <1>3, SlotFacts DEF RunSound, Running
<1>8. RunSound'
  BY <1>3 DEF RunSound
<1>9. UnitsReturned'
  BY <1>3, <1>6 DEF UnitsReturned, Resource
<1>10. res'["IO"] = rm["IO"]
  BY <1>6 DEF Resource
<1>11. vm' \in SUBSET Governors
  BY <1>3
<1>12. VisitOver
  BY <1>3, <1>4, <1>5, <1>6, <1>7, <1>8, <1>9, <1>11 DEF VisitOver
<1>. QED BY <1>3, <1>10, <1>12

\* The three ways in which an entry ends.
LEMMA LeaveReady ==
  ASSUME TypeOK, RunSound, UnitsReturned, NEW p \in Pids, Running(p),
         NEW st \in [Pids -> States], NEW sched \in Tables,
         NEW owners \in SUBSET Governors, NEW rm \in RMs,
         \A r \in {"CPU", "MEM", "TMR"} : rm[r] = res[r],
         LeaveCPU(p, 1, st, sched, owners, rm)
  PROVE  /\ VisitOver
         /\ schedule' = sched /\ vm' = owners /\ res'["IO"] = rm["IO"]
         /\ state' = [st EXCEPT ![p] = "READY"]
<1>1. /\ schedule' = IF 1 = 0 THEN removeProcP(sched, p) ELSE sched
      /\ state' = IF 1 = 0 THEN st
                  ELSE [st EXCEPT ![p] = IF 1 < 0 THEN "BLOCKED" ELSE "READY"]
      /\ vm' = IF 1 = 0 THEN owners \ {p} ELSE owners
  BY LeaveEffect
<1>2. VisitOver /\ res'["IO"] = rm["IO"]
  BY LeaveEffect
<1>. QED BY <1>1, <1>2

LEMMA LeaveBlocked ==
  ASSUME TypeOK, RunSound, UnitsReturned, NEW p \in Pids, Running(p),
         NEW st \in [Pids -> States], NEW sched \in Tables,
         NEW owners \in SUBSET Governors, NEW rm \in RMs,
         \A r \in {"CPU", "MEM", "TMR"} : rm[r] = res[r],
         LeaveCPU(p, -1, st, sched, owners, rm)
  PROVE  /\ VisitOver
         /\ schedule' = sched /\ vm' = owners /\ res'["IO"] = rm["IO"]
         /\ state' = [st EXCEPT ![p] = "BLOCKED"]
<1>1. /\ schedule' = IF -1 = 0 THEN removeProcP(sched, p) ELSE sched
      /\ state' = IF -1 = 0 THEN st
                  ELSE [st EXCEPT ![p] = IF -1 < 0 THEN "BLOCKED" ELSE "READY"]
      /\ vm' = IF -1 = 0 THEN owners \ {p} ELSE owners
  BY LeaveEffect
<1>2. VisitOver /\ res'["IO"] = rm["IO"]
  BY LeaveEffect
<1>. QED BY <1>1, <1>2

LEMMA LeaveRemoved ==
  ASSUME TypeOK, RunSound, UnitsReturned, NEW p \in Pids, Running(p),
         NEW st \in [Pids -> States], NEW sched \in Tables,
         NEW owners \in SUBSET Governors, NEW rm \in RMs,
         \A r \in {"CPU", "MEM", "TMR"} : rm[r] = res[r],
         LeaveCPU(p, 0, st, sched, owners, rm)
  PROVE  /\ VisitOver
         /\ schedule' = removeProcP(sched, p) /\ vm' = owners \ {p}
         /\ res'["IO"] = rm["IO"] /\ state' = st
<1>1. /\ schedule' = IF 0 = 0 THEN removeProcP(sched, p) ELSE sched
      /\ state' = IF 0 = 0 THEN st
                  ELSE [st EXCEPT ![p] = IF 0 < 0 THEN "BLOCKED" ELSE "READY"]
      /\ vm' = IF 0 = 0 THEN owners \ {p} ELSE owners
  BY LeaveEffect
<1>2. VisitOver /\ res'["IO"] = rm["IO"]
  BY LeaveEffect
<1>. QED BY <1>1, <1>2

\* What is left to show of the types after a visit.
LEMMA VisitTyped ==
  ASSUME TypeOK, VisitOver,
         nextPid' \in 101 + NJobs .. LastPid, loaded' \in [Governors -> 0 .. 3],
         parent' \in [Loaders -> Governors \cup {NoPid}],
         pendingIO' \in Seq(Requests), timer' \in Timers,
         trapsLeft' \in [Governors -> 0 .. MaxTraps], owed' \in SUBSET Governors
  PROVE  TypeOK'
BY DEF TypeOK, VisitOver, RMs, States, Tables, Requests, Timers

\* The process that runs is READY in its slot, and so it is not parked.
LEMMA RunnerFacts ==
  ASSUME TypeOK, RunSound, NEW p, Running(p)
  PROVE  /\ p \in Pids /\ Present(p) /\ state[p] = "READY" /\ current = p
         /\ slot \in Slots /\ schedule[slot] = p
         /\ ~Parked(p)
         /\ state \in [Pids -> States] /\ schedule \in Tables
         /\ vm \in SUBSET Governors /\ res \in RMs
BY DEF TypeOK, RunSound, Running, Present, InTable, Parked, Tables, States, RMs

-----------------------------------------------------------------------------
\* The steps of the scan

LEMMA InitStep == Init => KernelInv
<1>. SUFFICES ASSUME Init PROVE KernelInv
  OBVIOUS
<1>. USE NJobsAssumption, TickAssumption, BoundsAssumption DEF Init
<1>1. TypeOK
  <2>1. res \in [Resource -> [available : Nat, waitPids : Seq(Pids)]]
    BY DEF InitResources, Units, Resource
  <2>2. schedule \in [Slots -> Pids \cup {NoPid}]
    BY SMTT(30) DEF Slots, SysLow, SysHigh, Pids, SelfPid, LastPid
  <2>3. timer \in [counter : 0 .. TickLimit - 1, active : BOOLEAN, interruptFlag : BOOLEAN]
    OBVIOUS
  <2>4. pendingIO \in Seq([proc : Governors, ticks : 0 .. IOTicks])
    OBVIOUS
  <2>5. slot \in SysLow - 1 .. SysHigh /\ nextPid \in 101 + NJobs .. LastPid
    BY DEF SysLow, SysHigh, LastPid
  <2>6. trapsLeft \in [Governors -> 0 .. MaxTraps]
    OBVIOUS
  <2>7. /\ state \in [Pids -> {"READY", "RUNNING", "BLOCKED", "SUSP_BLOCKED"}]
        /\ loaded \in [Governors -> 0 .. 3]
        /\ parent \in [Loaders -> Governors \cup {NoPid}]
        /\ vm \in SUBSET Governors /\ owed \in SUBSET Governors
        /\ cycle \in 0 .. MaxCycles - 1
    OBVIOUS
  <2>. QED BY <2>1, <2>2, <2>3, <2>4, <2>5, <2>6, <2>7 DEF TypeOK
<1>2. TableSound
  <2>1. {g \in Governors : loaded[g] # 0} = {}
    OBVIOUS
  <2>2. Cardinality({g \in Governors : loaded[g] # 0}) = 0
    BY <2>1, FS_EmptySet
  <2>3. \A s, t \in Slots : schedule[s] = schedule[t] /\ schedule[s] # NoPid => s = t
    BY SMTT(30) DEF Slots, SysLow, SysHigh, SelfPid, NoPid
  <2>4. \A s \in Slots : schedule[s] <= nextPid
    BY SMTT(30) DEF Slots, SysLow, SysHigh, SelfPid, NoPid
  <2>. QED BY <2>2, <2>3, <2>4 DEF TableSound
<1>3. RunSound
  BY DEF RunSound
<1>4. LoadersSound
  <2>1. \A s \in Slots : schedule[s] <= 101 + NJobs
    BY <1>2 DEF TableSound
  <2>2. \A l \in Loaders : l > 101 + NJobs
    BY DEF Loaders, LastPid
  <2>3. \A s \in Slots : schedule[s] \in Int
    BY DEF Slots, SysLow, SysHigh, SelfPid, NoPid
  <2>4. \A l \in Loaders : ~Present(l)
    BY <2>1, <2>2, <2>3 DEF Present, InTable, Loaders, LastPid
  <2>. QED BY <2>4 DEF LoadersSound
<1>5. UnitsReturned
  BY DEF UnitsReturned, InitResources, Units, Resource
<1>6. DeviceSound
  BY DEF DeviceSound, DeviceExclusive, PendingAlive, WaitQueueSound,
         InitResources, Units, Resource
<1>. QED BY <1>1, <1>2, <1>3, <1>4, <1>5, <1>6 DEF KernelInv

\* Steps that leave the processes and the resources alone.
LEMMA LoopStep ==
  ASSUME KernelInv, pc' \in {"scan", "exit"}, pc = "scan",
         slot' \in SysLow - 1 .. SysHigh, cycle' \in 0 .. MaxCycles - 1,
         lastPass' \in BOOLEAN, timer' \in Timers,
         UNCHANGED <<procVars, current, res, pendingIO, jobVars>>
  PROVE  KernelInv'
<1>. USE DEF KernelInv, procVars, jobVars
<1>1. TypeOK'
  BY DEF TypeOK, Timers
<1>2. TableSound'
  BY TableFrame
<1>3. RunSound'
  BY DEF RunSound
<1>4. LoadersSound'
  BY LoadersFrame
<1>5. UnitsReturned'
  BY DEF UnitsReturned
<1>6. DeviceSound'
  BY DeviceFrame DEF Parked, Present
<1>. QED BY <1>1, <1>2, <1>3, <1>4, <1>5, <1>6

LEMMA TickTyped == TypeOK => tickTimer \in Timers
<1>. SUFFICES ASSUME TypeOK PROVE tickTimer \in Timers
  OBVIOUS
<1>1. timer \in Timers
  BY DEF TypeOK, Timers
<1>2. CASE ~timer.active
  BY <1>1, <1>2 DEF tickTimer
<1>3. CASE timer.active /\ timer.counter + 1 >= TickLimit
  <2>1. tickTimer = [counter |-> 0, active |-> timer.active, interruptFlag |-> TRUE]
    BY <1>1, <1>3 DEF tickTimer, Timers
  <2>. QED BY <1>1, <2>1, TickAssumption DEF Timers
<1>4. CASE timer.active /\ ~(timer.counter + 1 >= TickLimit)
  <2>1. tickTimer = [counter |-> timer.counter + 1, active |-> timer.active,
                     interruptFlag |-> timer.interruptFlag]
    BY <1>1, <1>4 DEF tickTimer, Timers
  <2>2. timer.counter + 1 \in 0 .. TickLimit - 1
    BY <1>1, <1>4, TickAssumption DEF Timers
  <2>. QED BY <1>1, <2>1, <2>2 DEF Timers
<1>. QED BY <1>2, <1>3, <1>4

LEMMA DispatchStep == KernelInv /\ Dispatch => KernelInv'
<1>. SUFFICES ASSUME KernelInv, Dispatch PROVE KernelInv'
  OBVIOUS
<1>. DEFINE next == schedule[slot]
<1>. USE DEF KernelInv
<1>1. /\ next \in Pids /\ next # NoPid /\ slot \in Slots /\ state[next] = "READY"
      /\ schedule' = schedule /\ Granted(res, "CPU") /\ pc = "scan"
  BY DEF Dispatch, Runnable, TypeOK, UnitsReturned, Granted
<1>2. /\ pc' = "run" /\ slot' = slot /\ current' = next /\ state' = saveContext(next)
      /\ res' = requestResource(res, "CPU", next)
      /\ UNCHANGED <<cycle, lastPass, schedule, nextPid, loaded, vm, parent,
                     pendingIO, timer, jobVars>>
  BY <1>1 DEF Dispatch
<1>3. /\ state' \in [Pids -> States]
      /\ \A p \in Pids \ {SelfPid} : state'[p] = state[p]
      /\ state'[next] = "READY"
  BY <1>1, <1>2, PidFacts DEF saveContext, RunSound, TypeOK, States
<1>4. /\ res' \in RMs
      /\ \A q \in Resource \ {"CPU"} : res'[q] = res[q]
      /\ res'["CPU"].available = 0 /\ res'["CPU"].waitPids = <<>>
  <2>1. res \in RMs /\ "CPU" \in Resource
    BY DEF TypeOK, RMs, Resource
  <2>. QED BY <1>1, <1>2, <2>1, RequestEffect DEF UnitsReturned
<1>5. TypeOK'
  BY <1>1, <1>2, <1>3, <1>4 DEF TypeOK, RMs, States, jobVars
<1>6. TableSound'
  BY <1>2, TableFrame
<1>7. RunSound'
  BY <1>1, <1>2, <1>3 DEF RunSound
<1>8. LoadersSound'
  BY <1>2, LoadersFrame
<1>9. UnitsReturned'
  BY <1>1, <1>2, <1>4 DEF UnitsReturned, Resource
<1>10. \A g \in Governors : Parked(g) => Parked(g)'
  BY <1>2, <1>3, PidFacts DEF Parked, Present
<1>11. DeviceSound'
  BY <1>2, <1>4, <1>10, DeviceFrame DEF Resource
<1>. QED BY <1>5, <1>6, <1>7, <1>8, <1>9, <1>11

-----------------------------------------------------------------------------
\* The visits

\* A daemon that keeps its place in the table, and the states it changes.
LEMMA QuietVisit ==
  ASSUME KernelInv, NEW p \in Pids \ (Governors \cup Loaders), Running(p),
         NEW st \in [Pids -> States],
         \A g \in Governors : Parked(g) => st[g] = "BLOCKED",
         LeaveCPU(p, 1, st, schedule, vm, res),
         UNCHANGED <<nextPid, loaded, parent, pendingIO, jobVars>>,
         timer' \in Timers
  PROVE  KernelInv'
<1>. USE DEF KernelInv
<1>1. /\ schedule \in Tables /\ vm \in SUBSET Governors /\ res \in RMs /\ p \in Pids
  BY RunnerFacts
<1>2. /\ VisitOver /\ schedule' = schedule /\ vm' = vm /\ res'["IO"] = res["IO"]
      /\ state' = [st EXCEPT ![p] = "READY"]
  BY <1>1, LeaveReady
<1>3. TypeOK'
  <2>1. /\ loaded \in [Governors -> 0 .. 3] /\ nextPid \in 101 + NJobs .. LastPid
        /\ parent \in [Loaders -> Governors \cup {NoPid}]
        /\ pendingIO \in Seq(Requests)
        /\ trapsLeft \in [Governors -> 0 .. MaxTraps] /\ owed \in SUBSET Governors
    BY DEF TypeOK, Requests
  <2>. QED BY <1>2, <2>1, VisitTyped DEF jobVars
<1>4. TableSound'
  BY <1>2, TableFrame
<1>5. LoadersSound'
  BY <1>2, LoadersFrame
<1>6. \A g \in Governors : Parked(g) => Parked(g)'
  BY <1>2 DEF Parked, Present
<1>7. DeviceSound'
  BY <1>2, <1>6, DeviceFrame
<1>. QED BY <1>2, <1>3, <1>4, <1>5, <1>7 DEF VisitOver

LEMMA RunSelfStep == KernelInv /\ RunSelf => KernelInv'
<1>. SUFFICES ASSUME KernelInv, RunSelf PROVE KernelInv'
  OBVIOUS
<1>. USE DEF KernelInv
<1>1. /\ Running(SelfPid) /\ SelfPid \in Pids
  BY PidFacts DEF RunSelf
<1>2. /\ current = SelfPid /\ slot \in Slots /\ res \in RMs
  BY <1>1, RunnerFacts
<1>3. res["CPU"].waitPids = <<>> /\ res["CPU"].available = 0
  BY <1>1 DEF UnitsReturned, Running
<1>4. /\ pc' = "scan" /\ slot' \in SysLow - 1 .. SysHigh /\ state' = state
      /\ res' = releaseResource(res, "CPU")
      /\ UNCHANGED <<cycle, lastPass, schedule, nextPid, current, loaded, vm, parent,
                     pendingIO, timer, jobVars>>
  BY <1>2, <1>3, WakeNobody, SlotFacts DEF RunSelf, Heir
<1>5. /\ res' \in RMs
      /\ \A q \in Resource \ {"CPU"} : res'[q] = res[q]
      /\ res'["CPU"].available = 1 /\ res'["CPU"].waitPids = <<>>
  BY <1>2, <1>3, <1>4, ReleaseEffect DEF Resource
<1>6. TypeOK'
  BY <1>4, <1>5 DEF TypeOK, RMs, jobVars
<1>7. TableSound'
  BY <1>4, TableFrame
<1>8. RunSound'
  BY <1>2, <1>4 DEF RunSound
<1>9. LoadersSound'
  BY <1>4, LoadersFrame
<1>10. UnitsReturned'
  BY <1>4, <1>5 DEF UnitsReturned, Resource
<1>11. DeviceSound'
  BY <1>4, <1>5, DeviceFrame DEF Resource, Parked, Present
<1>. QED BY <1>6, <1>7, <1>8, <1>9, <1>10, <1>11

\* The daemons that change nothing.
LEMMA DaemonStep == KernelInv /\ (RunIdle \/ StayUp \/ IOIdle) => KernelInv'
<1>. SUFFICES ASSUME KernelInv, NEW p \in {Idle, StartStop, IOHandler}, Running(p),
                     LeaveCPU(p, 1, state, schedule, vm, res),
                     UNCHANGED <<nextPid, loaded, parent, pendingIO, timer, jobVars>>
     PROVE  KernelInv'
  BY DEF RunIdle, StayUp, IOIdle
<1>1. /\ state \in [Pids -> States] /\ timer' \in Timers
      /\ p \in Pids \ (Governors \cup Loaders)
  BY PidFacts DEF KernelInv, TypeOK, States, Timers
<1>2. \A g \in Governors : Parked(g) => state[g] = "BLOCKED"
  BY DEF Parked
<1>. QED BY <1>1, <1>2, QuietVisit

\* contextSwitch marks a READY governor only, and a READY one is not parked.
LEMMA SwitchEffect ==
  ASSUME TypeOK
  PROVE  /\ contextSwitch \in [Pids -> States]
         /\ \A g \in Governors : Parked(g) => contextSwitch[g] = "BLOCKED"
<1>1. CASE Switchable = {}
  BY <1>1 DEF contextSwitch, TypeOK, States, Parked
<1>2. CASE Switchable # {}
  <2>. DEFINE s == CHOOSE s \in Switchable : \A t \in Switchable : t <= s
  <2>1. \E x \in Switchable : \A t \in Switchable : t <= x
    <3>1. Switchable \in SUBSET Slots /\ Switchable # {}
      BY <1>2 DEF Switchable
    <3>2. \A S \in SUBSET Slots : S # {} => \E x \in S : \A t \in S : t <= x
      BY SlotMaximum
    <3>. QED BY <3>1, <3>2
  <2>2. s \in Switchable
    BY <2>1
  <2>3. contextSwitch = [state EXCEPT ![schedule[s]] = "RUNNING"]
    BY <1>2 DEF contextSwitch
  <2>4. state[schedule[s]] = "READY"
    BY <2>2 DEF Switchable
  <2>. HIDE DEF s
  <2>5. contextSwitch \in [Pids -> States]
    BY <2>3 DEF TypeOK, States
  <2>6. ASSUME NEW g \in Governors, Parked(g) PROVE contextSwitch[g] = "BLOCKED"
    <3>1. state[g] = "BLOCKED" /\ g \in Pids
      BY <2>6, PidFacts DEF Parked
    <3>. QED BY <2>3, <2>4, <3>1 DEF TypeOK
  <2>. QED BY <2>5, <2>6
<1>. QED BY <1>1, <1>2

LEMMA InterruptStep == KernelInv /\ RunInterruptHandler => KernelInv'
<1>. SUFFICES ASSUME KernelInv, RunInterruptHandler PROVE KernelInv'
  OBVIOUS
<1>. DEFINE st == kernelHandleInterrupts
<1>1. /\ Running(InterruptHandler) /\ InterruptHandler \in Pids \ (Governors \cup Loaders)
      /\ TypeOK /\ RunSound
  BY PidFacts DEF RunInterruptHandler, KernelInv
<1>2. current \in Pids /\ res \in RMs /\ state \in [Pids -> States]
  BY <1>1, RunnerFacts
<1>3. Granted(res, "TMR") /\ res["TMR"].waitPids = <<>> /\ "TMR" \in Resource
  BY DEF KernelInv, UnitsReturned, Granted, Units, Resource
<1>4. /\ releaseResource(requestResource(res, "TMR", current), "TMR") = res
      /\ Heir(requestResource(res, "TMR", current), "TMR") = NoPid
  BY <1>2, <1>3, RequestRelease
<1>5. LeaveCPU(InterruptHandler, 1, st, schedule, vm, res)
  BY <1>3, <1>4, WakeNobody DEF RunInterruptHandler
<1>6. UNCHANGED <<nextPid, loaded, parent, pendingIO, jobVars>>
  BY DEF RunInterruptHandler
<1>7. timer' \in Timers
  BY <1>1 DEF RunInterruptHandler, checkTimerInterrupt, TypeOK, Timers
<1>8. st \in [Pids -> States] /\ \A g \in Governors : Parked(g) => st[g] = "BLOCKED"
  BY <1>1, <1>2, SwitchEffect DEF Parked, kernelHandleInterrupts
<1>. HIDE DEF st
<1>. QED BY <1>1, <1>5, <1>6, <1>7, <1>8, QuietVisit

LEMMA IOTickStep == KernelInv /\ IOTick => KernelInv'
<1>. SUFFICES ASSUME KernelInv, IOTick PROVE KernelInv'
  OBVIOUS
<1>. USE DEF KernelInv
<1>1. Running(IOHandler) /\ IOHandler \in Pids \ (Governors \cup Loaders)
  BY PidFacts DEF IOTick
<1>2. /\ schedule \in Tables /\ vm \in SUBSET Governors /\ res \in RMs
      /\ state \in [Pids -> States]
  BY <1>1, RunnerFacts
<1>3. /\ VisitOver /\ schedule' = schedule /\ vm' = vm /\ res'["IO"] = res["IO"]
      /\ state' = [state EXCEPT ![IOHandler] = "READY"]
  BY <1>1, <1>2, LeaveReady DEF IOTick
<1>4. UNCHANGED <<nextPid, loaded, parent, timer, jobVars>>
  BY DEF IOTick
<1>5. /\ 1 \in DOMAIN pendingIO /\ pendingIO[1] \in Requests /\ pendingIO[1].ticks > 0
      /\ pendingIO' = [pendingIO EXCEPT ![1].ticks = @ - 1]
  <2>1. pendingIO # <<>> /\ pendingIO \in Seq(Requests)
    BY PendingTyped DEF IOTick
  <2>2. 1 \in 1 .. Len(pendingIO)
    BY <2>1, EmptySeq
  <2>. QED BY <2>1, <2>2, PendingTyped, ElementOfSeq DEF IOTick
<1>6. /\ pendingIO' \in Seq(Requests) /\ Len(pendingIO') = Len(pendingIO)
      /\ DOMAIN pendingIO' = DOMAIN pendingIO
      /\ \A i \in DOMAIN pendingIO : pendingIO'[i].proc = pendingIO[i].proc
  <2>. DEFINE e == [pendingIO[1] EXCEPT !.ticks = @ - 1]
  <2>1. e \in Requests /\ e.proc = pendingIO[1].proc
    BY <1>5 DEF Requests, IOTicks
  <2>2. pendingIO' = [pendingIO EXCEPT ![1] = e]
    BY <1>5
  <2>. HIDE DEF e
  <2>3. pendingIO \in Seq(Requests) /\ 1 \in 1 .. Len(pendingIO)
    BY <1>5, PendingTyped
  <2>4. /\ pendingIO' \in Seq(Requests) /\ Len(pendingIO') = Len(pendingIO)
        /\ \A j \in 1 .. Len(pendingIO) :
             pendingIO'[j] = IF j = 1 THEN e ELSE pendingIO[j]
    BY <2>1, <2>2, <2>3, ExceptSeq
  <2>5. DOMAIN pendingIO = 1 .. Len(pendingIO)
    BY PendingTyped
  <2>. QED BY <2>1, <2>2, <2>4, <2>5
<1>7. TypeOK'
  <2>1. /\ loaded \in [Governors -> 0 .. 3] /\ nextPid \in 101 + NJobs .. LastPid
        /\ parent \in [Loaders -> Governors \cup {NoPid}] /\ timer \in Timers
        /\ trapsLeft \in [Governors -> 0 .. MaxTraps] /\ owed \in SUBSET Governors
    BY DEF TypeOK, Timers
  <2>. QED BY <1>3, <1>4, <1>6, <2>1, VisitTyped DEF jobVars
<1>8. TableSound'
  BY <1>3, <1>4, TableFrame
<1>9. LoadersSound'
  BY <1>3, <1>4, LoadersFrame
<1>10. \A g \in Governors : Parked(g) <=> Parked(g)'
  BY <1>1, <1>3, <1>4 DEF Parked, Present
<1>11. DeviceSound'
  <2>1. DeviceExclusive'
    BY <1>3, <1>6 DEF DeviceSound, DeviceExclusive
  <2>2. PendingAlive'
    BY <1>6, <1>10, PendingTyped DEF DeviceSound, PendingAlive
  <2>3. \A g : IsPending(g)' <=> IsPending(g)
    BY <1>6 DEF IsPending
  <2>4. WaitQueueSound'
    BY <1>3, <1>10, <2>3 DEF DeviceSound, WaitQueueSound
  <2>. QED BY <2>1, <2>2, <2>4 DEF DeviceSound
<1>. QED BY <1>3, <1>7, <1>8, <1>9, <1>11 DEF VisitOver

\* The wait queue as a sequence of pids.
LEMMA QueueTyped ==
  ASSUME TypeOK
  PROVE  /\ res["IO"].available \in Nat
         /\ res["IO"].waitPids \in Seq(Pids)
         /\ Len(res["IO"].waitPids) \in Nat
         /\ DOMAIN res["IO"].waitPids = 1 .. Len(res["IO"].waitPids)
<1>1. res["IO"].available \in Nat /\ res["IO"].waitPids \in Seq(Pids)
  BY DEF TypeOK, Resource
<1>. QED BY <1>1, LenProperties

\* The end of a transfer: the unit goes back or is handed to the oldest waiter.
LEMMA IOCompleteEffect ==
  ASSUME KernelInv, IOComplete
  PROVE  LET g == pendingIO[1].proc
             q == res["IO"].waitPids
         IN /\ Running(IOHandler) /\ Len(pendingIO) = 1 /\ DOMAIN pendingIO = {1}
            /\ g \in Governors /\ Parked(g) /\ res["IO"].available = 0
            /\ VisitOver /\ schedule' = schedule /\ vm' = vm
            /\ q = <<>> => res'["IO"].available = 1 /\ res'["IO"].waitPids = <<>>
            /\ q # <<>> => res'["IO"].available = 0 /\ res'["IO"].waitPids = Tail(q)
            /\ pendingIO' = <<>> /\ owed' = owed \ {g}
            /\ state' = [completeIO(state, g) EXCEPT ![IOHandler] = "READY"]
            /\ completeIO(state, g) \in [Pids -> States]
            /\ \A p \in Pids : p # g /\ p # Heir(res, "IO") =>
                                completeIO(state, g)[p] = state[p]
            /\ UNCHANGED <<nextPid, loaded, parent, timer, trapsLeft>>
<1>. USE DEF KernelInv
<1>. DEFINE g == pendingIO[1].proc
            q == res["IO"].waitPids
<1>1. /\ Running(IOHandler) /\ IOHandler \in Pids \ (Governors \cup Loaders)
      /\ "IO" \in Resource
  BY PidFacts DEF IOComplete, Resource
<1>2. /\ schedule \in Tables /\ vm \in SUBSET Governors /\ res \in RMs
      /\ state \in [Pids -> States]
  BY <1>1, RunnerFacts
<1>3. pendingIO \in Seq(Requests) /\ Len(pendingIO) = 1 /\ pendingIO # <<>>
  <2>1. pendingIO # <<>> /\ pendingIO \in Seq(Requests) /\ Len(pendingIO) \in Nat
    BY PendingTyped DEF IOComplete
  <2>2. Len(pendingIO) \in Nat \ {0}
    BY <2>1, EmptySeq
  <2>3. res["IO"].available \in Nat
    BY QueueTyped
  <2>4. res["IO"].available + Len(pendingIO) <= 1
    BY DEF DeviceSound, DeviceExclusive
  <2>5. \A a \in Nat, n \in Nat \ {0} : a + n <= 1 => n = 1
    OBVIOUS
  <2>6. Len(pendingIO) = 1
    BY <2>2, <2>3, <2>4, <2>5
  <2>. QED BY <2>1, <2>6
<1>4. 1 \in DOMAIN pendingIO /\ g \in Governors /\ Parked(g) /\ g \in vm /\ g \in Pids
  <2>1. 1 \in DOMAIN pendingIO
    BY <1>3, PendingTyped
  <2>. QED BY <2>1, PendingTyped, PidFacts DEF DeviceSound, PendingAlive, Parked
<1>5. res["IO"].available = 0
  BY <1>3, QueueTyped DEF DeviceSound, DeviceExclusive
<1>6. /\ releaseResource(res, "IO") \in RMs
      /\ \A r \in {"CPU", "MEM", "TMR"} : releaseResource(res, "IO")[r] = res[r]
      /\ q = <<>> => /\ releaseResource(res, "IO")["IO"].available = 1
                     /\ releaseResource(res, "IO")["IO"].waitPids = <<>>
      /\ q # <<>> => /\ releaseResource(res, "IO")["IO"].available = 0
                     /\ releaseResource(res, "IO")["IO"].waitPids = Tail(q)
  BY <1>1, <1>2, <1>5, ReleaseEffect DEF Resource
<1>7. /\ completeIO(state, g) \in [Pids -> States]
      /\ \A p \in Pids : p # g /\ p # Heir(res, "IO") => completeIO(state, g)[p] = state[p]
  BY <1>2 DEF completeIO, Wake, States
<1>8. /\ pendingIO' = <<>>
      /\ owed' = owed \ {g}
      /\ LeaveCPU(IOHandler, 1, completeIO(state, g), schedule, vm, releaseResource(res, "IO"))
      /\ UNCHANGED <<nextPid, loaded, parent, timer, trapsLeft>>
  <2>1. Tail(pendingIO) = <<>>
    <3>1. Tail(pendingIO) \in Seq(Requests) /\ Len(Tail(pendingIO)) = 0
      BY <1>3, HeadTailProperties
    <3>. QED BY <3>1, EmptySeq
  <2>. QED BY <1>4, <2>1 DEF IOComplete
<1>9. /\ VisitOver /\ schedule' = schedule /\ vm' = vm
      /\ res'["IO"] = releaseResource(res, "IO")["IO"]
      /\ state' = [completeIO(state, g) EXCEPT ![IOHandler] = "READY"]
  BY <1>1, <1>2, <1>6, <1>7, <1>8, LeaveReady
<1>10. DOMAIN pendingIO = {1}
  BY <1>3, PendingTyped
<1>. QED BY <1>1, <1>3, <1>4, <1>5, <1>6, <1>7, <1>8, <1>9, <1>10

\* Nobody who is parked is disturbed but the owner and the waiter that is woken.
LEMMA IOCompleteStep == KernelInv /\ IOComplete => KernelInv'
<1>. SUFFICES ASSUME KernelInv, IOComplete PROVE KernelInv'
  OBVIOUS
<1>. USE DEF KernelInv
<1>. DEFINE g == pendingIO[1].proc
            q == res["IO"].waitPids
<1>1. Running(IOHandler) /\ IOHandler \in Pids \ (Governors \cup Loaders)
  BY IOCompleteEffect, PidFacts
<1>2. 1 \in DOMAIN pendingIO /\ g \in Governors /\ Parked(g) /\ g \in Pids
  BY IOCompleteEffect, PidFacts
<1>3. /\ q = <<>> => res'["IO"].available = 1 /\ res'["IO"].waitPids = <<>>
      /\ q # <<>> => res'["IO"].available = 0 /\ res'["IO"].waitPids = Tail(q)
  BY IOCompleteEffect
<1>4. /\ completeIO(state, g) \in [Pids -> States]
      /\ \A p \in Pids : p # g /\ p # Heir(res, "IO") => completeIO(state, g)[p] = state[p]
  BY IOCompleteEffect
<1>5. /\ pendingIO' = <<>> /\ owed' = owed \ {g}
      /\ UNCHANGED <<nextPid, loaded, parent, timer, trapsLeft>>
  BY IOCompleteEffect
<1>6. /\ VisitOver /\ schedule' = schedule /\ vm' = vm
      /\ state' = [completeIO(state, g) EXCEPT ![IOHandler] = "READY"]
  BY IOCompleteEffect
<1>7. TypeOK'
  <2>1. /\ loaded \in [Governors -> 0 .. 3] /\ nextPid \in 101 + NJobs .. LastPid
        /\ parent \in [Loaders -> Governors \cup {NoPid}] /\ timer \in Timers
        /\ trapsLeft \in [Governors -> 0 .. MaxTraps] /\ owed \in SUBSET Governors
    BY DEF TypeOK, Timers
  <2>2. <<>> \in Seq(Requests)
    OBVIOUS
  <2>. QED BY <1>5, <1>6, <2>1, <2>2, VisitTyped
<1>8. TableSound'
  BY <1>5, <1>6, TableFrame
<1>9. LoadersSound'
  BY <1>5, <1>6, LoadersFrame
<1>10. DeviceSound'
  <2>1. DOMAIN pendingIO' = {} /\ Len(pendingIO') = 0
    BY <1>5
  <2>2. PendingAlive' /\ \A h : ~IsPending(h)'
    BY <2>1 DEF PendingAlive, IsPending
  <2>3. DeviceExclusive'
    BY <1>3, <1>6, <2>1 DEF DeviceExclusive
  <2>4. CASE q = <<>>
    BY <1>3, <1>6, <2>2, <2>3, <2>4 DEF WaitQueueSound, DeviceSound
  <2>5. CASE q # <<>>
    <3>1. /\ q \in Seq(Pids) /\ Len(q) \in Nat /\ DOMAIN q = 1 .. Len(q)
          /\ Tail(q) \in Seq(Pids) /\ Len(Tail(q)) = Len(q) - 1
          /\ DOMAIN Tail(q) = 1 .. Len(q) - 1
          /\ \A i \in 1 .. Len(q) - 1 : Tail(q)[i] = q[i + 1]
      BY <2>5, QueueTyped, HeadTailProperties, LenProperties
    <3>2. Heir(res, "IO") = q[1]
      BY <2>5 DEF Heir
    <3>3. ASSUME NEW i \in 1 .. Len(q) - 1, NEW h, h = q[i + 1]
          PROVE  h \in Governors /\ Parked(h)'
      <4>1. i + 1 \in DOMAIN q /\ 1 \in DOMAIN q /\ i + 1 # 1
        BY <3>1
      <4>2. /\ q[i + 1] \in Governors /\ Parked(q[i + 1]) /\ ~IsPending(q[i + 1])
            /\ q[i + 1] # q[1]
        BY <4>1 DEF DeviceSound, WaitQueueSound
      <4>3. q[i + 1] # g /\ q[i + 1] # IOHandler /\ q[i + 1] \in Pids
        BY <1>1, <1>2, <4>2, PidFacts DEF IsPending
      <4>4. state'[q[i + 1]] = state[q[i + 1]]
        BY <1>1, <1>4, <1>6, <3>2, <4>2, <4>3
      <4>. QED BY <1>5, <1>6, <3>3, <4>2, <4>4 DEF Parked, Present
    <3>4. ASSUME NEW i \in 1 .. Len(q) - 1, NEW j \in 1 .. Len(q) - 1, q[i + 1] = q[j + 1]
          PROVE  i = j
      <4>1. i + 1 \in DOMAIN q /\ j + 1 \in DOMAIN q
        BY <3>1
      <4>2. i + 1 = j + 1
        BY <3>4, <4>1 DEF DeviceSound, WaitQueueSound
      <4>. QED BY <4>2
    <3>5. res'["IO"].waitPids = Tail(q) /\ res'["IO"].available = 0
      BY <1>3, <2>5
    <3>6. /\ DOMAIN res'["IO"].waitPids = 1 .. Len(q) - 1
          /\ \A i \in 1 .. Len(q) - 1 : res'["IO"].waitPids[i] = q[i + 1]
      BY <3>1, <3>5
    <3>7. \A i \in DOMAIN res'["IO"].waitPids : \A h :
            h = res'["IO"].waitPids[i] => h \in Governors /\ Parked(h)' /\ ~IsPending(h)'
      BY <2>2, <3>3, <3>6
    <3>8. \A i, j \in DOMAIN res'["IO"].waitPids :
            res'["IO"].waitPids[i] = res'["IO"].waitPids[j] => i = j
      BY <3>4, <3>6
    <3>9. WaitQueueSound'
      BY <3>5, <3>7, <3>8 DEF WaitQueueSound
    <3>. QED BY <2>2, <2>3, <3>9 DEF DeviceSound
  <2>. QED BY <2>4, <2>5
<1>. QED BY <1>6, <1>7, <1>8, <1>9, <1>10 DEF VisitOver

-----------------------------------------------------------------------------
\* The visits that change the table

LEMMA RemoveEffect ==
  ASSUME NEW sched \in Tables, NEW p \in Pids
  PROVE  /\ removeProcP(sched, p) \in Tables
         /\ \A s \in Slots : removeProcP(sched, p)[s] \in {sched[s], NoPid}
         /\ ~InTable(removeProcP(sched, p), p)
         /\ \A h : h # p => (InTable(removeProcP(sched, p), h) <=> InTable(sched, h))
BY PidFacts DEF removeProcP, Tables, InTable

LEMMA ShutdownStep == KernelInv /\ Shutdown => KernelInv'
<1>. SUFFICES ASSUME KernelInv, Shutdown PROVE KernelInv'
  OBVIOUS
<1>. USE DEF KernelInv
<1>. DEFINE kept == [s \in Slots |-> IF schedule[s] \in {SelfPid, StartStop}
                                     THEN schedule[s] ELSE NoPid]
<1>1. Running(StartStop) /\ StartStop \in Pids
  BY PidFacts DEF Shutdown
<1>2. schedule \in Tables /\ res \in RMs /\ state \in [Pids -> States] /\ kept \in Tables
  <2>1. schedule \in Tables /\ res \in RMs /\ state \in [Pids -> States]
    BY <1>1, RunnerFacts
  <2>. QED BY <2>1 DEF Tables
<1>3. LeaveCPU(StartStop, 0, state, kept, {}, res)
  BY DEF Shutdown
<1>4. UNCHANGED <<nextPid, loaded, parent, pendingIO, jobVars>> /\ timer' \in Timers
  BY DEF Shutdown, TypeOK, Timers
<1>. HIDE DEF kept
<1>5. /\ VisitOver /\ schedule' = removeProcP(kept, StartStop) /\ res'["IO"] = res["IO"]
  BY <1>1, <1>2, <1>3, LeaveRemoved
<1>6. \A s \in Slots : schedule'[s] \in {schedule[s], NoPid}
  <2>1. \A s \in Slots : kept[s] \in {schedule[s], NoPid}
    BY DEF kept
  <2>. QED BY <1>1, <1>2, <1>5, <2>1, RemoveEffect
<1>7. TypeOK'
  <2>1. /\ loaded \in [Governors -> 0 .. 3] /\ nextPid \in 101 + NJobs .. LastPid
        /\ parent \in [Loaders -> Governors \cup {NoPid}]
        /\ pendingIO \in Seq(Requests)
        /\ trapsLeft \in [Governors -> 0 .. MaxTraps] /\ owed \in SUBSET Governors
    BY DEF TypeOK, Requests
  <2>. QED BY <1>4, <1>5, <2>1, VisitTyped DEF jobVars
<1>8. TableSound'
  BY <1>4, <1>6, TableFrame
<1>9. LoadersSound'
  BY <1>4, <1>6, LoadersFrame
<1>10. \A g \in Governors : ~Parked(g)
  BY DEF Shutdown, HasWork, Parked, Present
<1>11. DeviceSound'
  BY <1>4, <1>5, <1>10, DeviceFrame
<1>. QED BY <1>5, <1>7, <1>8, <1>9, <1>11 DEF VisitOver

LEMMA VMFinishStep ==
  ASSUME KernelInv, NEW g \in Governors, VMFinish(g) PROVE KernelInv'
<1>. USE DEF KernelInv
<1>1. Running(g) /\ g \in Pids
  BY PidFacts DEF VMFinish
<1>2. /\ schedule \in Tables /\ res \in RMs /\ state \in [Pids -> States]
      /\ vm \in SUBSET Governors /\ vm \ {g} \in SUBSET Governors /\ ~Parked(g)
  BY <1>1, RunnerFacts
<1>3. /\ LeaveCPU(g, 0, state, schedule, vm \ {g}, res)
      /\ g \in vm => loaded[g] \in {1, 3}
      /\ loaded' = [loaded EXCEPT ![g] = IF g \in vm THEN 3 ELSE @]
      /\ UNCHANGED <<nextPid, parent, pendingIO, timer, jobVars>>
  BY DEF VMFinish
<1>4. /\ VisitOver /\ schedule' = removeProcP(schedule, g)
      /\ vm' = (vm \ {g}) \ {g} /\ res'["IO"] = res["IO"] /\ state' = state
  BY <1>1, <1>2, <1>3, LeaveRemoved
<1>5. /\ \A s \in Slots : schedule'[s] \in {schedule[s], NoPid}
      /\ \A h : h # g /\ Present(h) => Present(h)'
  BY <1>1, <1>2, <1>4, RemoveEffect DEF Present
<1>6. /\ loaded \in [Governors -> 0 .. 3] /\ loaded' \in [Governors -> 0 .. 3]
      /\ \A h \in Governors : h # g => loaded'[h] = loaded[h]
      /\ loaded'[g] # 0 <=> loaded[g] # 0
      /\ loaded[g] = 2 => loaded'[g] = 2
  <2>1. loaded \in [Governors -> 0 .. 3]
    BY DEF TypeOK
  <2>. QED BY <1>3, <2>1
<1>7. TypeOK'
  <2>1. /\ nextPid \in 101 + NJobs .. LastPid
        /\ parent \in [Loaders -> Governors \cup {NoPid}] /\ timer \in Timers
        /\ pendingIO \in Seq(Requests)
        /\ trapsLeft \in [Governors -> 0 .. MaxTraps] /\ owed \in SUBSET Governors
    BY DEF TypeOK, Requests, Timers
  <2>. QED BY <1>3, <1>4, <1>6, <2>1, VisitTyped DEF jobVars
<1>8. TableSound'
  BY <1>3, <1>5, <1>6, TableFrame
<1>9. LoadersSound'
  <2>1. ASSUME NEW l \in Loaders, Present(l)' PROVE loaded'[parent[l]] = loaded[parent[l]]
    <3>1. parent[l] \in Governors /\ loaded[parent[l]] = 2
      BY <1>5, <2>1, PresentFrame DEF LoadersSound
    <3>. QED BY <1>6, <3>1
  <2>. QED BY <1>3, <1>5, <2>1, LoadersFrame
<1>10. \A h \in Governors : Parked(h) => Parked(h)'
  BY <1>2, <1>4, <1>5, <1>6 DEF Parked
<1>11. DeviceSound'
  BY <1>3, <1>4, <1>10, DeviceFrame
<1>. QED BY <1>4, <1>7, <1>8, <1>9, <1>11 DEF VisitOver

\* A loader ends; its parent, which is not parked, may have become READY.
LEMMA RunLoaderStep ==
  ASSUME KernelInv, NEW l \in Loaders, RunLoader(l) PROVE KernelInv'
<1>. USE DEF KernelInv
<1>. DEFINE g == parent[l]
<1>1. Running(l) /\ l \in Pids /\ l \notin Governors
  BY PidFacts DEF RunLoader
<1>2. /\ schedule \in Tables /\ res \in RMs /\ state \in [Pids -> States]
      /\ vm \in SUBSET Governors /\ Present(l)
  BY <1>1, RunnerFacts
<1>3. g \in Governors /\ loaded[g] = 2 /\ g \in Pids
  BY <1>2, PidFacts DEF LoadersSound
<1>4. /\ Granted(res, "MEM") /\ res["MEM"].waitPids = <<>> /\ "MEM" \in Resource
  BY DEF UnitsReturned, Granted, Units, Resource
<1>5. /\ releaseResource(requestResource(res, "MEM", l), "MEM") = res
      /\ Heir(requestResource(res, "MEM", l), "MEM") = NoPid
  BY <1>1, <1>2, <1>4, RequestRelease
<1>6. PICK ok \in BOOLEAN :
        /\ loaded' = IF ok THEN [loaded EXCEPT ![g] = 1] ELSE loaded
        /\ LeaveCPU(l, 0, IF ok THEN [state EXCEPT ![g] = "READY"] ELSE state,
                    schedule, vm, res)
  <2>1. CASE ~InTable(schedule, g) \/ g \notin vm
    BY <2>1 DEF RunLoader
  <2>2. CASE ~(~InTable(schedule, g) \/ g \notin vm)
    BY <1>3, <1>4, <1>5, <2>2, WakeNobody, LoadAssumption DEF RunLoader
  <2>. QED BY <2>1, <2>2
<1>. DEFINE st == IF ok THEN [state EXCEPT ![g] = "READY"] ELSE state
<1>7. UNCHANGED <<nextPid, parent, pendingIO, timer, jobVars>>
  BY DEF RunLoader
<1>8. st \in [Pids -> States] /\ \A p \in Pids : p # g => st[p] = state[p]
  BY <1>2, <1>3 DEF States
<1>. HIDE DEF st
<1>9. /\ VisitOver /\ schedule' = removeProcP(schedule, l)
      /\ vm' = vm \ {l} /\ res'["IO"] = res["IO"] /\ state' = st
  BY <1>1, <1>2, <1>6, <1>8, LeaveRemoved DEF st
<1>10. /\ \A s \in Slots : schedule'[s] \in {schedule[s], NoPid}
       /\ \A h : h # l /\ Present(h) => Present(h)'
       /\ ~Present(l)' /\ vm' = vm
  BY <1>1, <1>2, <1>9, RemoveEffect DEF Present
<1>11. /\ loaded \in [Governors -> 0 .. 3] /\ loaded' \in [Governors -> 0 .. 3]
       /\ \A h \in Governors : h # g => loaded'[h] = loaded[h]
       /\ loaded'[g] # 0
  <2>1. loaded \in [Governors -> 0 .. 3]
    BY DEF TypeOK
  <2>. QED BY <1>3, <1>6, <2>1
<1>12. TypeOK'
  <2>1. /\ nextPid \in 101 + NJobs .. LastPid
        /\ parent \in [Loaders -> Governors \cup {NoPid}] /\ timer \in Timers
        /\ pendingIO \in Seq(Requests)
        /\ trapsLeft \in [Governors -> 0 .. MaxTraps] /\ owed \in SUBSET Governors
    BY DEF TypeOK, Requests, Timers
  <2>. QED BY <1>7, <1>9, <1>11, <2>1, VisitTyped DEF jobVars
<1>13. TableSound'
  BY <1>3, <1>7, <1>10, <1>11, TableFrame
<1>14. LoadersSound'
  <2>1. ASSUME NEW m \in Loaders, Present(m)' PROVE loaded'[parent[m]] = loaded[parent[m]]
    <3>1. Present(m) /\ m # l
      BY <1>10, <2>1, PresentFrame
    <3>2. parent[m] \in Governors /\ parent[m] # g
      BY <1>2, <3>1 DEF LoadersSound
    <3>. QED BY <1>11, <3>2
  <2>. QED BY <1>7, <1>10, <2>1, LoadersFrame
<1>15. \A h \in Governors : Parked(h) => Parked(h)'
  BY <1>1, <1>3, <1>8, <1>9, <1>10, <1>11, PidFacts DEF Parked
<1>16. DeviceSound'
  BY <1>7, <1>9, <1>15, DeviceFrame
<1>. QED BY <1>9, <1>12, <1>13, <1>14, <1>16 DEF VisitOver

\* A new process takes one free slot, or none when the table is full.
LEMMA AddEffect ==
  ASSUME NEW sched \in Tables, NEW p \in Pids, ~InTable(sched, p)
  PROVE  LET sched2 == addProc(sched, p) IN
         /\ sched2 \in Tables
         /\ \A s \in Slots : sched2[s] \in {sched[s], p}
         /\ \A s \in Slots : sched[s] # NoPid => sched2[s] = sched[s]
         /\ \A s, t \in Slots : sched2[s] = p /\ sched2[t] = p => s = t
<1>0. p # NoPid /\ \A s \in Slots : sched[s] # p
  BY PidFacts DEF InTable
<1>1. CASE FreeSlots(sched) = {}
  BY <1>0, <1>1 DEF addProc, Tables
<1>2. CASE FreeSlots(sched) # {}
  <2>. DEFINE F == FreeSlots(sched)
              x == CHOOSE s \in F : \A t \in F : t <= s
  <2>1. F \in SUBSET Slots
    BY DEF FreeSlots
  <2>2. \E s \in F : \A t \in F : t <= s
    BY <1>2, <2>1, SlotMaximum
  <2>3. x \in F
    BY <2>2
  <2>4. x \in Slots /\ sched[x] = NoPid
    BY <2>3 DEF FreeSlots
  <2>5. addProc(sched, p) = [sched EXCEPT ![x] = p]
    BY <1>2 DEF addProc
  <2>. HIDE DEF F, x
  <2>6. addProc(sched, p) \in Tables
    BY <2>4, <2>5 DEF Tables
  <2>7. \A s \in Slots : addProc(sched, p)[s] = IF s = x THEN p ELSE sched[s]
    BY <2>4, <2>5 DEF Tables
  <2>. QED BY <1>0, <2>4, <2>6, <2>7
<1>. QED BY <1>1, <1>2

\* While a governor has not asked for its loader there is a pid left for it,
\* and that pid is in no slot.
LEMMA FreshPid ==
  ASSUME KernelInv, NEW g \in Governors, loaded[g] = 0
  PROVE  /\ (nextPid + 1) % 256 = nextPid + 1
         /\ nextPid + 1 \in Loaders
         /\ nextPid + 1 \in 101 + NJobs .. LastPid
         /\ ~Present(nextPid + 1)
         /\ Cardinality({h \in Governors : loaded[h] # 0} \cup {g})
              = Cardinality({h \in Governors : loaded[h] # 0}) + 1
<1>. USE DEF KernelInv
<1>. DEFINE A == {h \in Governors : loaded[h] # 0}
<1>1. 102 \in Int /\ 101 + NJobs \in Int /\ NJobs \in 1 .. 13
  BY NJobsAssumption
<1>2. IsFiniteSet(Governors) /\ Cardinality(Governors) = NJobs
  <2>1. /\ IsFiniteSet(102 .. 101 + NJobs)
        /\ Cardinality(102 .. 101 + NJobs)
             = IF 102 > 101 + NJobs THEN 0 ELSE (101 + NJobs) - 102 + 1
    BY <1>1, FS_Interval
  <2>. QED BY <1>1, <2>1 DEF Governors
<1>3. A \subseteq Governors /\ g \notin A
  OBVIOUS
<1>4. IsFiniteSet(A)
  BY <1>2, <1>3, FS_Subset
<1>5. IsFiniteSet(A \cup {g}) /\ Cardinality(A \cup {g}) = Cardinality(A) + 1
  BY <1>3, <1>4, FS_AddElement
<1>6. A \cup {g} \subseteq Governors
  BY <1>3
<1>7. Cardinality(A \cup {g}) <= Cardinality(Governors)
  BY <1>2, <1>6, FS_Subset
<1>8. Cardinality(A) \in Nat
  BY <1>4, FS_CardinalityType
<1>9. nextPid = 101 + NJobs + Cardinality(A)
  BY DEF TableSound
<1>. HIDE DEF A
<1>10. nextPid + 1 \in 102 + NJobs .. 101 + 2 * NJobs
  BY <1>1, <1>2, <1>5, <1>7, <1>8, <1>9
<1>11. nextPid + 1 \in 102 .. 127
  BY <1>1, <1>10
<1>12. (nextPid + 1) % 256 = nextPid + 1
  BY <1>11
<1>13. nextPid + 1 \in Loaders /\ nextPid + 1 \in 101 + NJobs .. LastPid
  BY <1>1, <1>10 DEF Loaders, LastPid
<1>14. ~Present(nextPid + 1)
  <2>1. \A s \in Slots : schedule[s] <= nextPid
    BY DEF TableSound
  <2>2. nextPid \in Int
    BY <1>1, <1>8, <1>9
  <2>. QED BY <2>1, <2>2 DEF Present, InTable
<1>. QED BY <1>5, <1>12, <1>13, <1>14 DEF A

\* A governor's first visit: its loader enters the table.
LEMMA CreateLoaderStep ==
  ASSUME KernelInv, NEW g \in Governors, GovernorLoading(g), loaded[g] = 0
  PROVE  KernelInv'
<1>. USE DEF KernelInv
<1>1. Running(g) /\ g \in Pids
  BY PidFacts DEF GovernorLoading
<1>2. /\ schedule \in Tables /\ res \in RMs /\ state \in [Pids -> States]
      /\ vm \in SUBSET Governors /\ ~Parked(g) /\ Present(g)
  BY <1>1, RunnerFacts
<1>. DEFINE l == nextPid + 1
<1>3. /\ (nextPid + 1) % 256 = l /\ l \in Loaders /\ l \in Pids
      /\ l \in 101 + NJobs .. LastPid /\ ~Present(l)
      /\ Cardinality({h \in Governors : loaded[h] # 0} \cup {g})
           = Cardinality({h \in Governors : loaded[h] # 0}) + 1
  BY FreshPid, PidFacts
<1>4. /\ nextPid' = l
      /\ parent' = [parent EXCEPT ![l] = g]
      /\ loaded' = [loaded EXCEPT ![g] = 2]
      /\ LeaveCPU(g, -1, state, addProc(schedule, l), vm, res)
      /\ UNCHANGED <<pendingIO, timer, jobVars>>
  BY <1>3 DEF GovernorLoading
<1>. HIDE DEF l
<1>5. /\ addProc(schedule, l) \in Tables
      /\ \A s \in Slots : addProc(schedule, l)[s] \in {schedule[s], l}
      /\ \A s \in Slots : schedule[s] # NoPid => addProc(schedule, l)[s] = schedule[s]
      /\ \A s, t \in Slots : addProc(schedule, l)[s] = l /\ addProc(schedule, l)[t] = l => s = t
  BY <1>2, <1>3, AddEffect DEF Present
<1>6. /\ VisitOver /\ schedule' = addProc(schedule, l) /\ vm' = vm
      /\ res'["IO"] = res["IO"] /\ state' = [state EXCEPT ![g] = "BLOCKED"]
  BY <1>1, <1>2, <1>4, <1>5, LeaveBlocked
<1>7. /\ loaded \in [Governors -> 0 .. 3] /\ loaded' \in [Governors -> 0 .. 3]
      /\ parent \in [Loaders -> Governors \cup {NoPid}]
      /\ parent' \in [Loaders -> Governors \cup {NoPid}]
  <2>1. loaded \in [Governors -> 0 .. 3] /\ parent \in [Loaders -> Governors \cup {NoPid}]
    BY DEF TypeOK
  <2>. QED BY <1>3, <1>4, <2>1
<1>8. TypeOK'
  <2>1. /\ timer \in Timers /\ pendingIO \in Seq(Requests)
        /\ trapsLeft \in [Governors -> 0 .. MaxTraps] /\ owed \in SUBSET Governors
    BY DEF TypeOK, Requests, Timers
  <2>. QED BY <1>3, <1>4, <1>6, <1>7, <2>1, VisitTyped DEF jobVars
<1>9. TableSound'
  <2>1. \A s, t \in Slots : schedule'[s] = schedule'[t] /\ schedule'[s] # NoPid => s = t
    <3>1. \A s, t \in Slots : schedule[s] = schedule[t] /\ schedule[s] # NoPid => s = t
      BY DEF TableSound
    <3>2. \A s \in Slots : schedule[s] # l
      BY <1>3, PidFacts DEF Present, InTable
    <3>. QED BY <1>5, <1>6, <3>1, <3>2
  <2>2. \A s \in Slots : schedule'[s] <= nextPid'
    <3>1. \A s \in Slots : schedule[s] <= nextPid
      BY DEF TableSound
    <3>2. nextPid \in Int /\ l = nextPid + 1
      BY NJobsAssumption DEF TypeOK, l, LastPid
    <3>3. \A s \in Slots : schedule[s] \in Int
      <4>1. \A s \in Slots : schedule[s] \in Pids \cup {NoPid}
        BY <1>2 DEF Tables
      <4>2. Pids \subseteq Int /\ NoPid \in Int
        BY PidFacts DEF NoPid
      <4>. QED BY <4>1, <4>2
    <3>. QED BY <1>4, <1>5, <1>6, <3>1, <3>2, <3>3
  <2>3. nextPid' = 101 + NJobs + Cardinality({h \in Governors : loaded'[h] # 0})
    <3>1. {h \in Governors : loaded'[h] # 0} = {h \in Governors : loaded[h] # 0} \cup {g}
      BY <1>4, <1>7
    <3>. DEFINE n == Cardinality({h \in Governors : loaded[h] # 0})
    <3>2. nextPid = 101 + NJobs + n /\ nextPid \in Int
      BY NJobsAssumption DEF TypeOK, TableSound, LastPid
    <3>3. IsFiniteSet(Governors)
      BY NJobsAssumption, FS_Interval DEF Governors
    <3>4. n \in Nat
      BY <3>3, FS_Subset, FS_CardinalityType
    <3>5. Cardinality({h \in Governors : loaded'[h] # 0}) = n + 1
      BY <1>3, <3>1
    <3>. HIDE DEF n
    <3>. QED BY <1>4, <3>2, <3>4, <3>5, NJobsAssumption DEF l
  <2>. QED BY <2>1, <2>2, <2>3 DEF TableSound
<1>10. LoadersSound'
  <2>1. \A m \in Loaders : Present(m)' => m = l \/ Present(m)
    BY <1>5, <1>6 DEF Present, InTable
  <2>2. parent'[l] = g /\ \A m \in Loaders : m # l => parent'[m] = parent[m]
    BY <1>3, <1>4, <1>7
  <2>3. \A m \in Loaders : Present(m) =>
          parent[m] \in Governors /\ loaded[parent[m]] = 2 /\ parent[m] # g
    BY DEF LoadersSound
  <2>4. loaded'[g] = 2 /\ \A h \in Governors : h # g => loaded'[h] = loaded[h]
    BY <1>4, <1>7
  <2>5. \A m \in Loaders : Present(m)' => parent'[m] \in Governors /\ loaded'[parent'[m]] = 2
    BY <2>1, <2>2, <2>3, <2>4
  <2>6. \A m, k \in Loaders : Present(m)' /\ Present(k)' /\ parent'[m] = parent'[k] => m = k
    BY <2>1, <2>2, <2>3 DEF LoadersSound
  <2>. QED BY <2>5, <2>6 DEF LoadersSound
<1>11. \A h \in Governors : Parked(h) => Parked(h)'
  <2>1. \A h : Present(h) => Present(h)'
    BY <1>5, <1>6 DEF Present, InTable
  <2>2. \A h \in Governors : h # g => loaded'[h] = loaded[h] /\ state'[h] = state[h]
    BY <1>2, <1>4, <1>6, <1>7, PidFacts
  <2>. QED BY <1>2, <1>6, <2>1, <2>2 DEF Parked
<1>12. DeviceSound'
  BY <1>4, <1>6, <1>11, DeviceFrame
<1>. QED BY <1>6, <1>8, <1>9, <1>10, <1>12 DEF VisitOver

LEMMA GovernorLoadingStep ==
  ASSUME KernelInv, NEW g \in Governors, GovernorLoading(g) PROVE KernelInv'
<1>1. CASE loaded[g] = 0
  BY <1>1, CreateLoaderStep
<1>2. CASE loaded[g] # 0
  <2>. USE DEF KernelInv
  <2>1. Running(g) /\ g \in Pids
    BY PidFacts DEF GovernorLoading
  <2>2. /\ schedule \in Tables /\ res \in RMs /\ state \in [Pids -> States]
        /\ vm \in SUBSET Governors /\ ~Parked(g)
    BY <2>1, RunnerFacts
  <2>3. /\ LeaveCPU(g, -1, state, schedule, vm, res)
        /\ UNCHANGED <<nextPid, parent, loaded, pendingIO, timer, jobVars>>
    BY <1>2 DEF GovernorLoading
  <2>4. /\ VisitOver /\ schedule' = schedule /\ vm' = vm /\ res'["IO"] = res["IO"]
        /\ state' = [state EXCEPT ![g] = "BLOCKED"]
    BY <2>1, <2>2, <2>3, LeaveBlocked
  <2>5. TypeOK'
    <3>1. /\ loaded \in [Governors -> 0 .. 3] /\ nextPid \in 101 + NJobs .. LastPid
          /\ parent \in [Loaders -> Governors \cup {NoPid}] /\ timer \in Timers
          /\ pendingIO \in Seq(Requests)
          /\ trapsLeft \in [Governors -> 0 .. MaxTraps] /\ owed \in SUBSET Governors
      BY DEF TypeOK, Requests, Timers
    <3>. QED BY <2>3, <2>4, <3>1, VisitTyped DEF jobVars
  <2>6. TableSound'
    BY <2>3, <2>4, TableFrame
  <2>7. LoadersSound'
    BY <2>3, <2>4, LoadersFrame
  <2>8. \A h \in Governors : Parked(h) => Parked(h)'
    BY <2>2, <2>3, <2>4, PidFacts DEF Parked, Present
  <2>9. DeviceSound'
    BY <2>3, <2>4, <2>8, DeviceFrame
  <2>. QED BY <2>4, <2>5, <2>6, <2>7, <2>9 DEF VisitOver
<1>. QED BY <1>1, <1>2

-----------------------------------------------------------------------------
\* A transfer is asked for

\* What the governor's visit does apart from the device.
LEMMA TrapVisit ==
  ASSUME KernelInv, NEW g \in Governors, VMTrap(g),
         NEW rm \in RMs, NEW ring \in Seq(Requests),
         enqueueIORequest(g) = <<rm, ring>>,
         \A r \in {"CPU", "MEM", "TMR"} : rm[r] = res[r]
  PROVE  /\ TypeOK' /\ TableSound' /\ RunSound' /\ LoadersSound' /\ UnitsReturned'
         /\ pendingIO' = ring /\ res'["IO"] = rm["IO"]
         /\ \A h \in Governors : Parked(h) => Parked(h)'
         /\ Parked(g)'
<1>. USE DEF KernelInv
<1>1. Running(g) /\ g \in Pids
  BY PidFacts DEF VMTrap
<1>2. /\ schedule \in Tables /\ res \in RMs /\ state \in [Pids -> States]
      /\ vm \in SUBSET Governors /\ ~Parked(g) /\ Present(g)
  BY <1>1, RunnerFacts
<1>3. /\ LeaveCPU(g, -1, state, schedule, vm, rm) /\ pendingIO' = ring
      /\ trapsLeft[g] > 0 /\ trapsLeft' = [trapsLeft EXCEPT ![g] = @ - 1]
      /\ owed' = owed \cup {g}
      /\ UNCHANGED <<nextPid, loaded, parent, timer>>
      /\ g \in vm /\ loaded[g] = 1
  BY DEF VMTrap
<1>4. /\ VisitOver /\ schedule' = schedule /\ vm' = vm /\ res'["IO"] = rm["IO"]
      /\ state' = [state EXCEPT ![g] = "BLOCKED"]
  BY <1>1, <1>2, <1>3, LeaveBlocked
<1>5. TypeOK'
  <2>1. /\ loaded \in [Governors -> 0 .. 3] /\ nextPid \in 101 + NJobs .. LastPid
        /\ parent \in [Loaders -> Governors \cup {NoPid}] /\ timer \in Timers
        /\ trapsLeft \in [Governors -> 0 .. MaxTraps] /\ owed \in SUBSET Governors
    BY DEF TypeOK, Timers
  <2>2. trapsLeft' \in [Governors -> 0 .. MaxTraps]
    BY <1>3, <2>1, BoundsAssumption
  <2>3. owed' \in SUBSET Governors
    BY <1>3, <2>1
  <2>. QED BY <1>3, <1>4, <2>1, <2>2, <2>3, VisitTyped
<1>6. TableSound'
  BY <1>3, <1>4, TableFrame
<1>7. LoadersSound'
  BY <1>3, <1>4, LoadersFrame
<1>8. \A h \in Governors : Parked(h) => Parked(h)'
  BY <1>2, <1>3, <1>4, PidFacts DEF Parked, Present
<1>9. Parked(g)'
  BY <1>1, <1>2, <1>3, <1>4 DEF Parked, Present
<1>. QED BY <1>3, <1>4, <1>5, <1>6, <1>7, <1>8, <1>9 DEF VisitOver

\* The device is free: the ring was empty, and the request is the only one.
LEMMA ClaimGranted ==
  ASSUME KernelInv, NEW g \in Governors, Granted(res, "IO")
  PROVE  /\ pendingIO = <<>>
         /\ \E rm \in RMs, request \in Requests :
              /\ enqueueIORequest(g) = <<rm, <<request>>>> /\ request.proc = g
              /\ \A r \in {"CPU", "MEM", "TMR"} : rm[r] = res[r]
              /\ rm["IO"].available = 0 /\ rm["IO"].waitPids = <<>>
<1>. USE DEF KernelInv
<1>. DEFINE claimed == requestResource(res, "IO", g)
            request == [proc |-> g, ticks |-> IOTicks]
<1>1. g \in Pids /\ "IO" \in Resource /\ res \in RMs
  BY PidFacts DEF Resource, TypeOK, RMs
<1>3. pendingIO \in Seq(Requests) /\ Len(pendingIO) \in Nat /\ res["IO"].available \in Nat
  BY PendingTyped, QueueTyped
<1>4. res["IO"].available = 1 /\ Len(pendingIO) = 0
  <2>1. res["IO"].available > 0
    BY DEF Granted
  <2>2. res["IO"].available + Len(pendingIO) <= 1
    BY DEF DeviceSound, DeviceExclusive
  <2>3. \A a, n \in Nat : a > 0 /\ a + n <= 1 => a = 1 /\ n = 0
    OBVIOUS
  <2>. QED BY <1>3, <2>1, <2>2, <2>3
<1>5. pendingIO = <<>>
  BY <1>3, <1>4, EmptySeq
<1>6. res["IO"].waitPids = <<>>
  BY <1>4 DEF DeviceSound, WaitQueueSound
<1>7. /\ claimed \in RMs
      /\ \A r \in {"CPU", "MEM", "TMR"} : claimed[r] = res[r]
      /\ claimed["IO"].available = 0 /\ claimed["IO"].waitPids = <<>>
  BY <1>1, <1>4, <1>6, RequestEffect, SMTT(30) DEF Resource
<1>8. request \in Requests /\ request.proc = g
  BY DEF Requests, IOTicks
<1>9. enqueueIORequest(g) = <<claimed, <<request>>>>
  <2>1. Len(pendingIO) # IOCapacity
    BY <1>4 DEF IOCapacity
  <2>2. Append(pendingIO, request) = <<request>>
    BY <1>5
  <2>. QED BY <2>1, <2>2 DEF enqueueIORequest
<1>. HIDE DEF claimed, request
<1>. QED BY <1>5, <1>7, <1>8, <1>9

LEMMA TrapGranted ==
  ASSUME KernelInv, NEW g \in Governors, VMTrap(g), Granted(res, "IO")
  PROVE  KernelInv'
<1>. USE DEF KernelInv
<1>7. PICK claimed \in RMs, request \in Requests :
        /\ enqueueIORequest(g) = <<claimed, <<request>>>> /\ request.proc = g
        /\ \A r \in {"CPU", "MEM", "TMR"} : claimed[r] = res[r]
        /\ claimed["IO"].available = 0 /\ claimed["IO"].waitPids = <<>>
  BY ClaimGranted
<1>9. <<request>> \in Seq(Requests) /\ Len(<<request>>) = 1 /\ <<request>>[1].proc = g
  BY <1>7
<1>11. /\ TypeOK' /\ TableSound' /\ RunSound' /\ LoadersSound' /\ UnitsReturned'
       /\ pendingIO' = <<request>> /\ res'["IO"] = claimed["IO"] /\ Parked(g)'
  BY <1>7, <1>9, TrapVisit
<1>12. Len(pendingIO') = 1 /\ DOMAIN pendingIO' = {1} /\ pendingIO'[1].proc = g
  BY <1>9, <1>11
<1>13. DeviceExclusive'
  BY <1>7, <1>11, <1>12 DEF DeviceExclusive
<1>14. PendingAlive'
  BY <1>11, <1>12 DEF PendingAlive
<1>15. WaitQueueSound'
  BY <1>7, <1>11 DEF WaitQueueSound
<1>. QED BY <1>11, <1>13, <1>14, <1>15 DEF DeviceSound

\* The device is taken: the governor joins the queue, where it was not yet, or
\* finds the queue full.
LEMMA ClaimDenied ==
  ASSUME KernelInv, NEW g \in Governors, ~Granted(res, "IO")
  PROVE  /\ res["IO"].available = 0
         /\ \E rm \in RMs :
              /\ enqueueIORequest(g) = <<rm, pendingIO>>
              /\ \A r \in {"CPU", "MEM", "TMR"} : rm[r] = res[r]
              /\ rm["IO"].available = 0
              /\ rm["IO"].waitPids = enqueue(res["IO"].waitPids, g)
<1>. USE DEF KernelInv
<1>. DEFINE claimed == requestResource(res, "IO", g)
<1>1. g \in Pids /\ "IO" \in Resource /\ res \in RMs
  BY PidFacts DEF Resource, TypeOK, RMs
<1>2. res["IO"].available = 0
  BY QueueTyped DEF Granted
<1>3. /\ claimed \in RMs
      /\ \A r \in {"CPU", "MEM", "TMR"} : claimed[r] = res[r]
      /\ claimed["IO"].available = 0
      /\ claimed["IO"].waitPids = enqueue(res["IO"].waitPids, g)
  BY <1>1, <1>2, RequestEffect DEF Resource
<1>4. enqueueIORequest(g) = <<claimed, pendingIO>>
  BY DEF enqueueIORequest
<1>. HIDE DEF claimed
<1>. QED BY <1>2, <1>3, <1>4

LEMMA TrapDenied ==
  ASSUME KernelInv, NEW g \in Governors, VMTrap(g), ~Granted(res, "IO")
  PROVE  KernelInv'
<1>. USE DEF KernelInv
<1>. DEFINE q == res["IO"].waitPids
<1>1. g \in Pids /\ Running(g)
  BY PidFacts DEF VMTrap
<1>2. ~Parked(g)
  BY <1>1, RunnerFacts
<1>3. pendingIO \in Seq(Requests)
  BY PendingTyped
<1>4. PICK claimed \in RMs :
        /\ enqueueIORequest(g) = <<claimed, pendingIO>>
        /\ \A r \in {"CPU", "MEM", "TMR"} : claimed[r] = res[r]
        /\ claimed["IO"].available = 0 /\ claimed["IO"].waitPids = enqueue(q, g)
  BY ClaimDenied
<1>6. res["IO"].available = 0
  BY ClaimDenied
<1>7. /\ TypeOK' /\ TableSound' /\ RunSound' /\ LoadersSound' /\ UnitsReturned'
      /\ pendingIO' = pendingIO /\ res'["IO"] = claimed["IO"]
      /\ \A h \in Governors : Parked(h) => Parked(h)'
      /\ Parked(g)'
  BY <1>3, <1>4, TrapVisit
<1>8. \A h : IsPending(h)' <=> IsPending(h)
  BY <1>7 DEF IsPending
<1>9. DeviceExclusive'
  BY <1>4, <1>6, <1>7 DEF DeviceSound, DeviceExclusive
<1>10. PendingAlive'
  BY <1>7, PendingTyped DEF DeviceSound, PendingAlive
<1>11. ~IsPending(g)
  BY <1>2 DEF IsPending, DeviceSound, PendingAlive
<1>12. WaitQueueSound'
  <2>0. res'["IO"].waitPids = enqueue(q, g) /\ res'["IO"].available = 0
    BY <1>4, <1>7
  <2>1. /\ \A i \in DOMAIN q : q[i] \in Governors /\ Parked(q[i]) /\ ~IsPending(q[i])
        /\ \A i, j \in DOMAIN q : q[i] = q[j] => i = j
    BY DEF DeviceSound, WaitQueueSound
  <2>2. CASE enqueue(q, g) = q
    <3>1. \A i \in DOMAIN q : \A h :
            h = q[i] => h \in Governors /\ Parked(h)' /\ ~IsPending(h)'
      BY <1>7, <1>8, <2>1
    <3>2. res'["IO"].waitPids = q
      BY <2>0, <2>2
    <3>. QED BY <2>0, <2>1, <3>1, <3>2 DEF WaitQueueSound
  <2>3. CASE enqueue(q, g) = Append(q, g)
    <3>1. /\ q \in Seq(Pids) /\ Len(q) \in Nat /\ DOMAIN q = 1 .. Len(q)
      BY QueueTyped
    <3>2. /\ DOMAIN Append(q, g) = 1 .. Len(q) + 1
          /\ \A i \in 1 .. Len(q) : Append(q, g)[i] = q[i]
          /\ Append(q, g)[Len(q) + 1] = g
      BY <1>1, <3>1, AppendProperties, LenProperties
    <3>3. res'["IO"].waitPids = Append(q, g)
      BY <2>0, <2>3
    <3>4. \A i \in 1 .. Len(q) : q[i] # g
      BY <1>2, <2>1, <3>1
    <3>5. \A i \in 1 .. Len(q) + 1 : i \in 1 .. Len(q) \/ i = Len(q) + 1
      BY <3>1
    <3>6. \A i \in 1 .. Len(q) + 1 : \A h :
            h = Append(q, g)[i] => h \in Governors /\ Parked(h)' /\ ~IsPending(h)'
      <4>1. \A i \in 1 .. Len(q) : \A h :
              h = Append(q, g)[i] => h \in Governors /\ Parked(h)' /\ ~IsPending(h)'
        BY <1>7, <1>8, <2>1, <3>1, <3>2
      <4>2. \A h : h = Append(q, g)[Len(q) + 1] =>
              h \in Governors /\ Parked(h)' /\ ~IsPending(h)'
        BY <1>7, <1>8, <1>11, <2>1, <3>2
      <4>. QED BY <4>1, <4>2, <3>5, ZenonT(60)
    <3>7. \A i, j \in 1 .. Len(q) + 1 : Append(q, g)[i] = Append(q, g)[j] => i = j
      BY <2>1, <3>1, <3>2, <3>4, <3>5, ZenonT(60)
    <3>. QED BY <2>0, <3>2, <3>3, <3>6, <3>7 DEF WaitQueueSound
  <2>. QED BY <2>2, <2>3 DEF enqueue
<1>. QED BY <1>7, <1>9, <1>10, <1>12 DEF DeviceSound

-----------------------------------------------------------------------------
\* Every step

LEMMA SkipStep == KernelInv /\ Skip => KernelInv'
<1>. SUFFICES ASSUME KernelInv, Skip PROVE KernelInv'
  OBVIOUS
<1>1. /\ pc = "scan" /\ pc' = pc /\ slot \in Slots /\ slot' = slot - 1
      /\ UNCHANGED <<cycle, lastPass, timer>>
      /\ UNCHANGED <<procVars, current, res, pendingIO, jobVars>>
  BY DEF Skip
<1>2. slot' \in SysLow - 1 .. SysHigh
  BY <1>1, SlotFacts
<1>3. cycle \in 0 .. MaxCycles - 1 /\ lastPass \in BOOLEAN /\ timer \in Timers
  BY DEF KernelInv, TypeOK, Timers
<1>. QED BY <1>1, <1>2, <1>3, LoopStep

LEMMA CycleStep == KernelInv /\ (NextCycle \/ LeaveLoop) => KernelInv'
<1>. SUFFICES ASSUME KernelInv, NextCycle \/ LeaveLoop PROVE KernelInv'
  OBVIOUS
<1>1. /\ pc = "scan" /\ pc' = pc /\ slot' = SysHigh /\ timer' = tickTimer
      /\ UNCHANGED <<procVars, current, res, pendingIO, jobVars>>
  BY DEF NextCycle, LeaveLoop, PassDone
<1>2. cycle \in 0 .. MaxCycles - 1 /\ lastPass \in BOOLEAN /\ timer' \in Timers
  BY <1>1, TickTyped DEF KernelInv, TypeOK
<1>3. cycle' \in 0 .. MaxCycles - 1 /\ lastPass' \in BOOLEAN
  <2>1. CASE NextCycle
    <3>1. cycle + 1 < MaxCycles /\ cycle' = cycle + 1 /\ lastPass' = lastPass
      BY <2>1 DEF NextCycle
    <3>. QED BY <1>2, <3>1, BoundsAssumption
  <2>2. CASE LeaveLoop
    BY <1>2, <2>2 DEF LeaveLoop
  <2>. QED BY <2>1, <2>2
<1>4. slot' \in SysLow - 1 .. SysHigh
  BY <1>1 DEF SysLow, SysHigh
<1>. QED BY <1>1, <1>2, <1>3, <1>4, LoopStep

LEMMA ExitStep == KernelInv /\ Exit => KernelInv'
<1>. SUFFICES ASSUME KernelInv, Exit PROVE KernelInv'
  OBVIOUS
<1>1. /\ pc = "scan" /\ pc' = "exit" /\ UNCHANGED <<slot, cycle, lastPass, timer>>
      /\ UNCHANGED <<procVars, current, res, pendingIO, jobVars>>
  BY DEF Exit, PassDone
<1>2. /\ cycle \in 0 .. MaxCycles - 1 /\ lastPass \in BOOLEAN /\ timer \in Timers
      /\ slot \in SysLow - 1 .. SysHigh
  BY DEF KernelInv, TypeOK, Timers
<1>. QED BY <1>1, <1>2, LoopStep

LEMMA StutterStep == KernelInv /\ UNCHANGED vars => KernelInv'
BY SMTT(30) DEF KernelInv, vars, TypeOK, TableSound, RunSound, LoadersSound, UnitsReturned,
       DeviceSound, DeviceExclusive, PendingAlive, WaitQueueSound, IsPending,
       Parked, Present

LEMMA NextStep == KernelInv /\ [Next]_vars => KernelInv'
<1>. SUFFICES ASSUME KernelInv, [Next]_vars PROVE KernelInv'
  OBVIOUS
<1>1. CASE Skip \/ NextCycle \/ LeaveLoop \/ Exit
  BY <1>1, SkipStep, CycleStep, ExitStep
<1>11. CASE Exited \/ UNCHANGED vars
  BY <1>11, StutterStep DEF Exited
<1>2. CASE Dispatch
  BY <1>2, DispatchStep
<1>3. CASE RunSelf
  BY <1>3, RunSelfStep
<1>4. CASE RunIdle \/ StayUp \/ IOIdle
  BY <1>4, DaemonStep
<1>5. CASE Shutdown
  BY <1>5, ShutdownStep
<1>6. CASE RunInterruptHandler
  BY <1>6, InterruptStep
<1>7. CASE IOTick
  BY <1>7, IOTickStep
<1>8. CASE IOComplete
  BY <1>8, IOCompleteStep
<1>9. ASSUME NEW g \in Governors, GovernorLoading(g) \/ VMFinish(g) \/ VMTrap(g)
      PROVE  KernelInv'
  BY <1>9, GovernorLoadingStep, VMFinishStep, TrapGranted, TrapDenied
<1>10. ASSUME NEW l \in Loaders, RunLoader(l) PROVE KernelInv'
  BY <1>10, RunLoaderStep
<1>. QED BY <1>1, <1>2, <1>3, <1>4, <1>5, <1>6, <1>7, <1>8, <1>9, <1>10, <1>11 DEF Next

-----------------------------------------------------------------------------
\* Theorems

\* In every state main can reach, with any number of jobs, the invariant holds.
THEOREM Invariance == Spec => []KernelInv
<1>1. Init => KernelInv
  BY InitStep
<1>2. KernelInv /\ [Next]_vars => KernelInv'
  BY NextStep
<1>. QED BY <1>1, <1>2, PTL DEF Spec

\* Every variable keeps its type.
THEOREM TypeCorrect == Spec => []TypeOK
<1>1. KernelInv => TypeOK
  BY DEF KernelInv
<1>. QED BY <1>1, Invariance, PTL

\* CPU, MEM and TMR are back in their pools between two visits: no path
\* through an entry function loses a unit or gives one back twice.
THEOREM UnitsAreReturned == Spec => []UnitsReturned
<1>1. KernelInv => UnitsReturned
  BY DEF KernelInv
<1>. QED BY <1>1, Invariance, PTL

\* The I/O unit is never free while a transfer is queued, and at most one
\* transfer ever is.
THEOREM DeviceIsExclusive == Spec => []DeviceExclusive
<1>1. KernelInv => DeviceExclusive
  BY DEF KernelInv, DeviceSound
<1>. QED BY <1>1, Invariance, PTL

\* A pending request never points to a freed process or a destroyed machine.
THEOREM PendingStaysAlive == Spec => []PendingAlive
<1>1. KernelInv => PendingAlive
  BY DEF KernelInv, DeviceSound
<1>. QED BY <1>1, Invariance, PTL

\* The I/O wait queue holds no pid twice, no stale pid and no pid being served.
THEOREM WaitQueueStaysSound == Spec => []WaitQueueSound
<1>1. KernelInv => WaitQueueSound
  BY DEF KernelInv, DeviceSound
<1>. QED BY <1>1, Invariance, PTL
=============================================================================
