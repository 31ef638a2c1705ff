----------------------------- MODULE ProcTable -----------------------------
(***************************************************************************)
(* The process table of src/kernel/scheduler.c with its system and user    *)
(* slots: who gets which slot and pid, and which process leaves when one   *)
(* ends.  Module Kernel uses the part of the table that a boot needs; here *)
(* processes come and go until pids have wrapped around and repeat.        *)
(*                                                                         *)
(* Nothing of what a process does in between is here: its state, its waits *)
(* and Start-Stop's emptying of the table are module Kernel's.  The caller *)
(* of addProc is anybody, and the one that ends is any that the scheduler  *)
(* runs.                                                                   *)
(***************************************************************************)
EXTENDS Integers, FiniteSets

CONSTANTS
  MaxSlot,     \* SCHEDULER_MAX_PRIORITY - 1, 99 in the source
  SysLow,      \* the lowest slot for system processes, 80
  SelfSlot,    \* the slot of the scheduler's own process, 97
  SelfPid,     \* its pid, 97
  PidMod,      \* the values of an unsigned char, 256
  MaxCreated,  \* bound: how many processes are created in a behaviour
  Free         \* an empty slot

Slots == 0 .. MaxSlot
Pids == 0 .. PidMod - 1
NoSlot == MaxSlot + 1

\* What the table says of a process.  born is history: which call of addProc
\* created it, 0 for the scheduler's own.
Processes == [pid : Pids, born : Nat]

ASSUME SlotsAssumption == MaxSlot \in Nat /\ SysLow \in 1 .. MaxSlot /\ SelfSlot \in SysLow .. MaxSlot
ASSUME PidAssumption == PidMod \in Nat /\ SelfPid \in 1 .. PidMod - 1
ASSUME FreeAssumption == Free \notin Processes

VARIABLES
  schedule,   \* what each slot points to
  pid,        \* Scheduler.pid
  prio,       \* prio_max and prio_min
  created     \* history: the calls of addProc so far

tableVars == <<schedule, pid, prio, created>>

Occupied == {s \in Slots : schedule[s] # Free}

Lowest(S) == CHOOSE s \in S : \A t \in S : s <= t
Highest(S) == CHOOSE s \in S : \A t \in S : s >= t

\* Mutant: only the slots of system processes are searched.
Found_sys(p) ==
  LET S == {s \in Occupied : schedule[s].pid = p /\ s >= SysLow}
  IN IF S = {} THEN NoSlot ELSE Lowest(S)

\* Every search by pid goes from slot 0 up.
Found(p) ==
  LET S == {s \in Occupied : schedule[s].pid = p} IN IF S = {} THEN NoSlot ELSE Lowest(S)

\* initScheduler
SelfProcess == [pid |-> SelfPid, born |-> 0]

Init ==
  /\ schedule = [s \in Slots |-> IF s = SelfSlot THEN SelfProcess ELSE Free]
  /\ pid = SelfPid /\ prio = [max |-> SelfSlot, min |-> SelfSlot]
  /\ created = 0

-----------------------------------------------------------------------------
\* No process is ever put above prio_max, which stays that of the scheduler's
\* own, nor into slot 0.
FreeFor(sysProc) ==
  {s \in Slots \ Occupied :
     IF sysProc THEN s \in SysLow .. prio.max ELSE s \in 1 .. SysLow - 1}

\* Mutant: a user's process leaves the bounds alone.
Widened_sys(s) ==
  [max |-> IF s > prio.max THEN s ELSE prio.max,
   min |-> IF s < prio.min /\ s >= SysLow THEN s ELSE prio.min]

Widened(s) ==
  [max |-> IF s > prio.max THEN s ELSE prio.max,
   min |-> IF s < prio.min THEN s ELSE prio.min]

\* Mutant: the counter is wider than an unsigned char.
NextPid_wide == pid + 1

NextPid == (pid + 1) % PidMod

\* Mutant: the process is given the counter before it is incremented.
addProc_early(sysProc) ==
  /\ pid' = NextPid
  /\ created' = created + 1
  /\ IF FreeFor(sysProc) = {}
     THEN UNCHANGED <<schedule, prio>>
     ELSE LET s == Highest(FreeFor(sysProc))
          IN /\ schedule' = [schedule EXCEPT ![s] = [pid |-> pid, born |-> created']]
             /\ prio' = Widened(s)

\* The pid replaces the one that initProcess was given, and is used up even when
\* there is no slot.
addProc(sysProc) ==
  /\ pid' = NextPid
  /\ created' = created + 1
  /\ IF FreeFor(sysProc) = {}
     THEN UNCHANGED <<schedule, prio>>
     ELSE LET s == Highest(FreeFor(sysProc))
          IN /\ schedule' = [schedule EXCEPT ![s] = [pid |-> pid', born |-> created']]
             /\ prio' = Widened(s)

removeProcP(p) ==
  IF p = 0 \/ Found(p) = NoSlot THEN schedule ELSE [schedule EXCEPT ![Found(p)] = Free]

\* The entry function of the process in slot s has returned 0, or its machine has
\* halted or failed: it is removed by its pid.
End(s) ==
  /\ s \in Occupied \ {SelfSlot}
  /\ schedule' = removeProcP(schedule[s].pid)
  /\ UNCHANGED <<pid, prio, created>>

Next ==
  \/ /\ created < MaxCreated
     /\ \E sysProc \in BOOLEAN : addProc(sysProc)
  \/ \E s \in Slots : End(s)

Spec == Init /\ [][Next]_tableVars

-----------------------------------------------------------------------------
TypeOK ==
  /\ schedule \in [Slots -> {Free} \cup Processes]
  /\ pid \in Pids
  /\ prio \in [max : Slots, min : Slots]
  /\ created \in Nat

\* contextSwitch looks only at the slots from prio_max down to prio_min: no
\* process is outside of them (scheduler.c:82-112, context_switcher.c:45).
ScanCoversTable == Occupied \subseteq prio.min .. prio.max

\* n calls of addProc lie between the two.
Apart(s, t, n) ==
  \/ schedule[s].born >= schedule[t].born + n
  \/ schedule[t].born >= schedule[s].born + n

\* Two processes in the table have the same pid only if all other pids were given
\* out between them, with or without a slot: a pid tells processes apart until
\* one has lived through PidMod creations, the scheduler's own included
\* (scheduler.c:52-79, 85-86).
PidsApart ==
  \A s, t \in Occupied :
    s # t /\ schedule[s].pid = schedule[t].pid => Apart(s, t, PidMod)

\* A process that ends leaves the table, and nobody else does, unless its pid is
\* 0 or the counter has gone once around between it and another process that was
\* added; the scheduler's own process stays even then, as its slot is searched
\* last (scheduler.c:85-101, 114-132, 265-270).
EndsItself ==
  [][ \A s \in Occupied : End(s) =>
        /\ schedule'[SelfSlot] = schedule[SelfSlot]
        /\ (schedule[s].pid # 0 /\ \A t \in Occupied \ {SelfSlot} : ~Apart(s, t, PidMod))
             => schedule' = [schedule EXCEPT ![s] = Free] ]_tableVars
=============================================================================
