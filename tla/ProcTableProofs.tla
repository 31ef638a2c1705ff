-------------------------- MODULE ProcTableProofs --------------------------
(***************************************************************************)
(* For every size of the process table and every range of pids: the scan   *)
(* covers the table, pids repeat only after the counter has gone around,   *)
(* and until then the process that ends is the one that leaves.            *)
(***************************************************************************)
EXTENDS ProcTable, WellFoundedInduction, NaturalsInduction, TLAPS

\* Going around k times, the counter gives n to the b-th process.
Counted(n, b) == \E k \in Nat : n + PidMod * k = SelfPid + b

BornApart ==
  \A s, t \in Occupied : schedule[s].born = schedule[t].born => s = t

\* A pid is the place of its process in the order of creations, modulo PidMod.
PidsCounted ==
  /\ Counted(pid, created)
  /\ \A s \in Occupied :
       /\ schedule[s].born <= created
       /\ Counted(schedule[s].pid, schedule[s].born)

TableInv ==
  /\ TypeOK /\ ScanCoversTable /\ prio.max = SelfSlot
  /\ BornApart /\ PidsCounted

-----------------------------------------------------------------------------
\* Every set of slots has a lowest and a highest one.
LEMMA Least ==
  ASSUME NEW S \in SUBSET Nat, S # {}
  PROVE  \E x \in S : \A y \in S : x <= y
<1> DEFINE R == OpToRel(<, Nat)
<1>1. IsWellFoundedOn(R, Nat)
  BY NatLessThanWellFounded
<1>2. \A x, y \in Nat : x < y => <<x, y>> \in R
  BY DEF OpToRel
<1> HIDE DEF R
<1>3. PICK x \in S : \A y \in S : <<y, x>> \notin R
  BY <1>1, WFMin
<1>4. ASSUME NEW y \in S PROVE x <= y
  <2>1. x \in Nat /\ y \in Nat
    OBVIOUS
  <2>2. ~(y < x)
    BY <1>2, <1>3, <2>1
  <2> QED
    BY <2>1, <2>2
<1> QED
  BY <1>4

LEMMA LowestIn ==
  ASSUME NEW S \in SUBSET Slots, S # {}
  PROVE  Lowest(S) \in S /\ \A x \in S : Lowest(S) <= x
<1>1. S \in SUBSET Nat
  BY SlotsAssumption DEF Slots
<1>2. \E x \in S : \A y \in S : x <= y
  BY <1>1, Least
<1> QED
  BY <1>2 DEF Lowest

LEMMA HighestIn ==
  ASSUME NEW S \in SUBSET Slots, S # {}
  PROVE  Highest(S) \in S
<1> DEFINE T == {MaxSlot - s : s \in S}
<1>1. T \in SUBSET Nat /\ T # {}
  BY SlotsAssumption DEF Slots
<1>2. PICK x \in T : \A y \in T : x <= y
  BY <1>1, Least
<1>3. PICK m \in S : x = MaxSlot - m
  BY <1>2
<1>4. ASSUME NEW t \in S PROVE m >= t
  <2>1. MaxSlot - m <= MaxSlot - t
    BY <1>2, <1>3
  <2>2. m \in Int /\ t \in Int /\ MaxSlot \in Int
    BY SlotsAssumption DEF Slots
  <2> QED
    BY <2>1, <2>2
<1> QED
  BY <1>3, <1>4 DEF Highest

\* A search finds the process with that pid in the lowest slot, if there is one.
LEMMA FoundProcess ==
  ASSUME NEW p, NEW s \in Occupied, schedule[s].pid = p
  PROVE  /\ Found(p) \in Occupied /\ schedule[Found(p)].pid = p
         /\ Found(p) # NoSlot
         /\ Found(p) <= s
<1> DEFINE S == {t \in Occupied : schedule[t].pid = p}
<1>1. S \in SUBSET Slots /\ S # {} /\ s \in S
  BY DEF Occupied
<1>2. Found(p) = Lowest(S)
  BY <1>1 DEF Found
<1>3. Found(p) \in S /\ Found(p) <= s
  BY <1>1, <1>2, LowestIn
<1>4. Found(p) # NoSlot
  BY <1>3, SlotsAssumption DEF Occupied, Slots, NoSlot
<1> QED
  BY <1>3, <1>4

LEMMA InTable ==
  ASSUME TypeOK
  PROVE  \A s \in Slots : s \in Occupied <=> schedule[s] \in Processes
  BY FreeAssumption DEF TypeOK, Occupied

-----------------------------------------------------------------------------
\* Counting

\* The counter goes up by one, or around.
LEMMA NextCounted ==
  ASSUME pid \in Pids, NEW b \in Nat, Counted(pid, b)
  PROVE  NextPid \in Pids /\ Counted(NextPid, b + 1)
<1>1. PidMod \in Nat /\ PidMod > 1 /\ SelfPid \in Nat /\ pid \in 0 .. PidMod - 1
  BY PidAssumption DEF Pids
<1>2. PICK k \in Nat : pid + PidMod * k = SelfPid + b
  BY DEF Counted
<1>3. CASE pid + 1 < PidMod
  <2>1. NextPid = pid + 1
    BY <1>1, <1>3 DEF NextPid
  <2>2. NextPid + PidMod * k = SelfPid + (b + 1)
    <3> DEFINE m == PidMod * k
    <3>1. m \in Int /\ pid + m = SelfPid + b
      BY <1>1, <1>2
    <3> HIDE DEF m
    <3>2. (pid + 1) + m = SelfPid + (b + 1)
      BY <1>1, <3>1
    <3> QED
      BY <2>1, <3>2 DEF m
  <2> QED
    BY <1>1, <1>3, <2>1, <2>2 DEF Counted, Pids
<1>4. CASE pid + 1 = PidMod
  <2>1. NextPid = 0
    BY <1>1, <1>4 DEF NextPid
  <2>2. PidMod * (k + 1) = SelfPid + (b + 1)
    <3> DEFINE m == PidMod * k
    <3>1. m \in Int /\ pid + m = SelfPid + b /\ PidMod * (k + 1) = m + PidMod
      BY <1>1, <1>2
    <3> HIDE DEF m
    <3> QED
      BY <1>1, <1>4, <3>1
  <2>3. 0 + PidMod * (k + 1) = SelfPid + (b + 1) /\ k + 1 \in Nat
    BY <1>1, <2>2
  <2>4. Counted(0, b + 1)
    BY <2>3 DEF Counted
  <2> QED
    BY <1>1, <2>1, <2>4 DEF Pids
<1> QED
  BY <1>1, <1>3, <1>4

\* A multiple of d that is not 0 is at least d away from it.
LEMMA MultipleApart ==
  ASSUME NEW d \in Nat, NEW k \in Nat, NEW j \in Nat, k < j
  PROVE  d * j >= d * k + d
<1>1. \A n \in Nat : d * n \in Nat
  OBVIOUS
<1>2. PICK i \in Nat : j = (k + 1) + i
  <2>1. j - (k + 1) \in Nat /\ j = (k + 1) + (j - (k + 1))
    OBVIOUS
  <2> QED
    BY <2>1
<1>3. d * j = d * k + d + d * i
  BY <1>2
<1> QED
  BY <1>1, <1>3

\* The same pid, given to two processes: whole rounds lie between.
LEMMA RoundsBetween ==
  ASSUME NEW n \in Nat, NEW a \in Nat, NEW b \in Nat, a # b, Counted(n, a), Counted(n, b)
  PROVE  a >= b + PidMod \/ b >= a + PidMod
<1>1. PidMod \in Nat /\ SelfPid \in Nat
  BY PidAssumption
<1>2. PICK k \in Nat : n + PidMod * k = SelfPid + a
  BY DEF Counted
<1>3. PICK j \in Nat : n + PidMod * j = SelfPid + b
  BY DEF Counted
<1> DEFINE x == PidMod * k
           y == PidMod * j
<1>4. x \in Nat /\ y \in Nat /\ n + x = SelfPid + a /\ n + y = SelfPid + b
  BY <1>1, <1>2, <1>3
<1>5. CASE k < j
  <2>1. y >= x + PidMod
    BY <1>1, <1>5, MultipleApart
  <2> HIDE DEF x, y
  <2> QED
    BY <1>1, <1>4, <2>1
<1>6. CASE j < k
  <2>1. x >= y + PidMod
    BY <1>1, <1>6, MultipleApart
  <2> HIDE DEF x, y
  <2> QED
    BY <1>1, <1>4, <2>1
<1>7. CASE j = k
  <2>1. x = y
    BY <1>7
  <2> HIDE DEF x, y
  <2> QED
    BY <1>1, <1>4, <2>1
<1> QED
  BY <1>5, <1>6, <1>7

LEMMA ApartPids ==
  ASSUME TableInv
  PROVE  PidsApart
<1> SUFFICES ASSUME NEW s \in Occupied, NEW t \in Occupied,
                    s # t, schedule[s].pid = schedule[t].pid
             PROVE  Apart(s, t, PidMod)
  BY DEF PidsApart
<1> DEFINE a == schedule[s].born
           b == schedule[t].born
           n == schedule[s].pid
<1>1. a \in Nat /\ b \in Nat /\ n \in Nat
  <2>1. schedule[s] \in Processes /\ schedule[t] \in Processes
    BY InTable DEF TableInv, Occupied
  <2> QED
    BY <2>1, PidAssumption DEF Processes, Pids
<1>2. a # b
  BY DEF TableInv, BornApart
<1>3. Counted(n, a) /\ Counted(n, b)
  BY DEF TableInv, PidsCounted
<1>4. a >= b + PidMod \/ b >= a + PidMod
  <2> HIDE DEF a, b, n
  <2> QED
    BY <1>1, <1>2, <1>3, RoundsBetween
<1> QED
  BY <1>4 DEF Apart

-----------------------------------------------------------------------------

LEMMA TableInit == Init => TableInv
<1> SUFFICES ASSUME Init PROVE TableInv
  OBVIOUS
<1>1. /\ schedule = [s \in Slots |-> IF s = SelfSlot THEN SelfProcess ELSE Free]
      /\ pid = SelfPid /\ prio = [max |-> SelfSlot, min |-> SelfSlot] /\ created = 0
  BY DEF Init
<1>2. SelfSlot \in Slots /\ SelfPid \in Pids /\ SelfProcess \in Processes
  BY SlotsAssumption, PidAssumption DEF Slots, Pids, SelfProcess, Processes
<1>3. Occupied = {SelfSlot} /\ schedule[SelfSlot] = SelfProcess
  BY <1>1, <1>2, FreeAssumption DEF Occupied
<1>4. TypeOK
  BY <1>1, <1>2 DEF TypeOK
<1>5. ScanCoversTable /\ prio.max = SelfSlot
  BY <1>1, <1>2, <1>3 DEF ScanCoversTable, Slots
<1>6. BornApart
  BY <1>3 DEF BornApart
<1>7. Counted(SelfPid, 0)
  <2>1. SelfPid + PidMod * 0 = SelfPid + 0
    BY PidAssumption
  <2> QED
    BY <2>1 DEF Counted
<1>8. PidsCounted
  BY <1>1, <1>3, <1>7 DEF PidsCounted, SelfProcess
<1> QED
  BY <1>4, <1>5, <1>6, <1>8 DEF TableInv

LEMMA AddStep ==
  ASSUME TableInv, NEW sysProc \in BOOLEAN, addProc(sysProc)
  PROVE  TableInv'
<1>1. /\ schedule \in [Slots -> {Free} \cup Processes] /\ pid \in Pids
      /\ prio \in [max : Slots, min : Slots] /\ created \in Nat
  BY DEF TableInv, TypeOK
<1>2. pid' = NextPid /\ pid' \in Pids /\ Counted(pid', created') /\ created' = created + 1
  <2>1. Counted(pid, created)
    BY DEF TableInv, PidsCounted
  <2> QED
    BY <1>1, <2>1, NextCounted DEF addProc
<1>3. CASE FreeFor(sysProc) = {}
  <2>1. UNCHANGED <<schedule, prio>>
    BY <1>3 DEF addProc
  <2>2. Occupied' = Occupied
    BY <2>1 DEF Occupied
  <2>3. TypeOK' /\ ScanCoversTable' /\ prio'.max = SelfSlot /\ BornApart'
    BY <1>1, <1>2, <2>1, <2>2 DEF TableInv, TypeOK, ScanCoversTable, BornApart
  <2>4. \A s \in Occupied : schedule[s].born <= created'
    <3>1. \A s \in Occupied : schedule[s].born \in Nat
      BY InTable DEF TableInv, Occupied, Processes
    <3>2. \A s \in Occupied : schedule[s].born <= created
      BY DEF TableInv, PidsCounted
    <3> QED
      BY <1>1, <1>2, <3>1, <3>2
  <2>5. PidsCounted'
    BY <1>2, <2>1, <2>2, <2>4 DEF TableInv, PidsCounted, Counted
  <2> QED
    BY <2>3, <2>5 DEF TableInv
<1>4. CASE FreeFor(sysProc) # {}
  <2> DEFINE s == Highest(FreeFor(sysProc))
             new == [pid |-> pid', born |-> created']
  <2>1. schedule' = [schedule EXCEPT ![s] = new] /\ prio' = Widened(s)
    BY <1>4 DEF addProc
  <2>2. s \in FreeFor(sysProc)
    <3>1. FreeFor(sysProc) \in SUBSET Slots
      BY DEF FreeFor
    <3> QED
      BY <1>4, <3>1, HighestIn
  <2> HIDE DEF s
  <2>3. s \in Slots \ Occupied /\ (s <= prio.max \/ s < SysLow)
    <3>1. s \in Slots \ Occupied /\ (s \in SysLow .. prio.max \/ s \in 1 .. SysLow - 1)
      BY <2>2 DEF FreeFor
    <3>2. prio.max \in Int /\ SysLow \in Int
      BY <1>1, SlotsAssumption DEF Slots
    <3> QED
      BY <3>1, <3>2
  <2>4. /\ new \in Processes /\ new.pid = pid' /\ new.born = created'
    <3>1. pid' \in Pids /\ created' \in Nat
      BY <1>1, <1>2
    <3> QED
      BY <3>1 DEF Processes
  <2> HIDE DEF new
  <2>5. /\ schedule' \in [Slots -> {Free} \cup Processes]
        /\ schedule'[s] = new /\ \A t \in Slots \ {s} : schedule'[t] = schedule[t]
    BY <1>1, <2>1, <2>3, <2>4
  <2>6. Occupied' = Occupied \cup {s}
    BY <2>3, <2>4, <2>5, FreeAssumption DEF Occupied
  <2>7. \A t \in Occupied : schedule'[t] = schedule[t]
    BY <2>3, <2>5 DEF Occupied
  <2>8. /\ prio' \in [max : Slots, min : Slots]
        /\ prio'.min <= s /\ s <= prio'.max /\ prio'.min <= prio.min /\ prio'.max = SelfSlot
    <3>1. /\ prio.max = SelfSlot /\ prio.max \in Int /\ prio.min \in Slots /\ s \in Slots
          /\ SysLow <= SelfSlot /\ \A x \in Slots : x \in Int
      BY <1>1, <2>3, SlotsAssumption DEF TableInv, Slots
    <3>2. s <= prio.max
      BY <2>3, <3>1, SlotsAssumption
    <3> QED
      BY <1>1, <2>1, <3>1, <3>2 DEF Widened
  <2>9. ScanCoversTable'
    <3>1. \A t \in Occupied : prio.min <= t /\ t <= prio.max
      BY DEF TableInv, ScanCoversTable
    <3>2. /\ \A x \in Slots : x \in Int
          /\ prio.max = prio'.max /\ prio.max \in Int /\ prio.min \in Int /\ prio'.min \in Int
      BY <1>1, <2>8, SlotsAssumption DEF TableInv, Slots
    <3>3. \A t \in Occupied' : t \in Int /\ prio'.min <= t /\ t <= prio'.max
      BY <2>3, <2>6, <2>8, <3>1, <3>2 DEF Occupied
    <3> QED
      BY <3>2, <3>3 DEF ScanCoversTable
  <2>10. TypeOK'
    BY <1>1, <1>2, <2>5, <2>8 DEF TypeOK
  <2>11. \A t \in Occupied : /\ schedule[t].born \in Nat
                             /\ schedule[t].born <= created /\ schedule[t].born < created'
    <3>1. \A t \in Occupied : schedule[t].born \in Nat
      BY InTable DEF TableInv, Occupied, Processes
    <3>2. \A t \in Occupied : schedule[t].born <= created
      BY DEF TableInv, PidsCounted
    <3> QED
      BY <1>1, <1>2, <3>1, <3>2
  <2>12. BornApart'
    <3> SUFFICES ASSUME NEW t \in Occupied', NEW u \in Occupied',
                        schedule'[t].born = schedule'[u].born
                 PROVE  t = u
      BY DEF BornApart
    <3>1. \A x \in Occupied : schedule'[x].born < created' /\ schedule'[x].born \in Nat
      BY <2>7, <2>11
    <3>2. schedule'[s].born = created' /\ created' \in Nat
      BY <1>1, <1>2, <2>4, <2>5
    <3>3. CASE t \in Occupied /\ u \in Occupied
      BY <2>7, <3>3 DEF TableInv, BornApart
    <3>4. CASE t = s \/ u = s
      BY <2>6, <3>1, <3>2, <3>4
    <3> QED
      BY <2>6, <3>3, <3>4
  <2>13. PidsCounted'
    <3> SUFFICES ASSUME NEW t \in Occupied'
                 PROVE  schedule'[t].born <= created' /\ Counted(schedule'[t].pid, schedule'[t].born)
      BY <1>2 DEF PidsCounted, Counted
    <3>1. CASE t \in Occupied
      <4>1. schedule[t].born <= created' /\ Counted(schedule[t].pid, schedule[t].born)
        BY <1>1, <1>2, <2>11, <3>1 DEF TableInv, PidsCounted
      <4> QED
        BY <2>7, <3>1, <4>1
    <3>2. CASE t = s
      BY <1>1, <1>2, <2>4, <2>5, <3>2
    <3> QED
      BY <2>6, <3>1, <3>2
  <2> QED
    BY <2>8, <2>9, <2>10, <2>12, <2>13 DEF TableInv
<1> QED
  BY <1>3, <1>4

\* What an end takes out of the table: the process in the lowest slot with that
\* pid, which is not the scheduler's own.
LEMMA EndEffect ==
  ASSUME TableInv, NEW s \in Slots, End(s)
  PROVE  \/ schedule' = schedule /\ schedule[s].pid = 0
         \/ \E x \in Occupied \ {SelfSlot} :
              schedule' = [schedule EXCEPT ![x] = Free] /\ schedule[x].pid = schedule[s].pid
<1> DEFINE p == schedule[s].pid
<1>1. s \in Occupied /\ s # SelfSlot /\ schedule' = removeProcP(p)
  BY DEF End
<1>2. /\ Found(p) \in Occupied /\ Found(p) # NoSlot /\ Found(p) <= s
      /\ schedule[Found(p)].pid = p
  BY <1>1, FoundProcess
<1>3. s < SelfSlot
  <2>1. prio.min \in Int /\ SelfSlot \in Int /\ prio.max = SelfSlot
    BY SlotsAssumption DEF TableInv, TypeOK, Slots
  <2>2. s \in Int /\ s <= SelfSlot
    BY <1>1, <2>1 DEF TableInv, ScanCoversTable
  <2> QED
    BY <1>1, <2>1, <2>2
<1>4. Found(p) # SelfSlot
  <2>1. s \in Int /\ SelfSlot \in Int
    BY SlotsAssumption DEF Slots
  <2> QED
    BY <1>2, <1>3, <2>1
<1> QED
  BY <1>1, <1>2, <1>4 DEF removeProcP

LEMMA EndStep ==
  ASSUME TableInv, NEW s \in Slots, End(s)
  PROVE  TableInv'
<1>1. UNCHANGED <<pid, prio, created>>
  BY DEF End
<1>2. schedule \in [Slots -> {Free} \cup Processes]
  BY DEF TableInv, TypeOK
<1>3. CASE schedule' = schedule
  BY <1>1, <1>3 DEF TableInv, TypeOK, ScanCoversTable, BornApart, PidsCounted, Counted, Occupied
<1>4. ASSUME NEW x \in Occupied, schedule' = [schedule EXCEPT ![x] = Free]
      PROVE  TableInv'
  <2>1. /\ schedule' \in [Slots -> {Free} \cup Processes]
        /\ schedule'[x] = Free /\ \A t \in Slots \ {x} : schedule'[t] = schedule[t]
    BY <1>2, <1>4 DEF Occupied
  <2>2. Occupied' \subseteq Occupied /\ \A t \in Occupied' : schedule'[t] = schedule[t]
    BY <2>1 DEF Occupied
  <2>3. TypeOK' /\ ScanCoversTable' /\ prio'.max = SelfSlot
    BY <1>1, <2>1, <2>2 DEF TableInv, TypeOK, ScanCoversTable
  <2>4. BornApart'
    BY <2>2 DEF TableInv, BornApart
  <2>5. PidsCounted'
    BY <1>1, <2>2 DEF TableInv, PidsCounted, Counted
  <2> QED
    BY <2>3, <2>4, <2>5 DEF TableInv
<1> QED
  BY <1>3, <1>4, EndEffect

LEMMA TableNext == TableInv /\ [Next]_tableVars => TableInv'
<1> SUFFICES ASSUME TableInv, [Next]_tableVars PROVE TableInv'
  OBVIOUS
<1>1. CASE \E sysProc \in BOOLEAN : addProc(sysProc)
  BY <1>1, AddStep
<1>2. CASE \E s \in Slots : End(s)
  BY <1>2, EndStep
<1>3. CASE UNCHANGED tableVars
  BY <1>3 DEF TableInv, TypeOK, ScanCoversTable, BornApart, PidsCounted, Counted, Occupied, tableVars
<1> QED
  BY <1>1, <1>2, <1>3 DEF Next

-----------------------------------------------------------------------------
\* The inductive invariant: pids follow the order of creations, none of which has
\* two processes, and every process is within the bounds of the scan
\* (scheduler.c:52-132).
THEOREM TableInvariance == Spec => []TableInv
<1> QED
  BY TableInit, TableNext, PTL DEF Spec

\* Slots, pids and bounds keep their types: the counter wraps like an unsigned
\* char (scheduler.c:82-112).
THEOREM TableTyped == Spec => []TypeOK
<1>1. TableInv => TypeOK
  BY DEF TableInv
<1> QED
  BY <1>1, TableInvariance, PTL

\* The scan of contextSwitch leaves no process out (scheduler.c:82-112,
\* context_switcher.c:45).
THEOREM ScanIsComplete == Spec => []ScanCoversTable
<1>1. TableInv => ScanCoversTable
  BY DEF TableInv
<1> QED
  BY <1>1, TableInvariance, PTL

\* A pid is in the table twice only when the counter has gone around between its
\* two processes (scheduler.c:52-79, 85-86).
THEOREM PidsStayApart == Spec => []PidsApart
<1>1. TableInv => PidsApart
  BY ApartPids
<1> QED
  BY <1>1, TableInvariance, PTL

LEMMA EnderLeaves ==
  ASSUME TableInv, NEW s \in Occupied, End(s)
  PROVE  /\ schedule'[SelfSlot] = schedule[SelfSlot]
         /\ (schedule[s].pid # 0 /\ \A t \in Occupied \ {SelfSlot} : ~Apart(s, t, PidMod))
              => schedule' = [schedule EXCEPT ![s] = Free]
<1>1. s \in Slots /\ schedule \in [Slots -> {Free} \cup Processes]
  BY DEF Occupied, TableInv, TypeOK
<1>2. CASE schedule' = schedule /\ schedule[s].pid = 0
  BY <1>2
<1>3. ASSUME NEW x \in Occupied \ {SelfSlot}, schedule' = [schedule EXCEPT ![x] = Free],
             schedule[x].pid = schedule[s].pid
      PROVE  /\ schedule'[SelfSlot] = schedule[SelfSlot]
             /\ (\A t \in Occupied \ {SelfSlot} : ~Apart(s, t, PidMod)) => x = s
  <2>1. schedule'[SelfSlot] = schedule[SelfSlot]
    BY <1>1, <1>3, SlotsAssumption DEF Slots
  <2>2. x # s => Apart(s, x, PidMod)
    BY <1>3, ApartPids DEF PidsApart
  <2> QED
    BY <1>3, <2>1, <2>2
<1> QED
  BY <1>1, <1>2, <1>3, EndEffect

\* The process that ends leaves, and nobody else, until the counter has gone once
\* around between two in the table; the scheduler's own never leaves
\* (scheduler.c:85-132, 265-270).
THEOREM EndersLeave == Spec => EndsItself
<1>1. TableInv => \A s \in Occupied : End(s) =>
        /\ schedule'[SelfSlot] = schedule[SelfSlot]
        /\ (schedule[s].pid # 0 /\ \A t \in Occupied \ {SelfSlot} : ~Apart(s, t, PidMod))
             => schedule' = [schedule EXCEPT ![s] = Free]
  BY EnderLeaves
<1> QED
  BY <1>1, TableInvariance, PTL DEF EndsItself
=============================================================================
