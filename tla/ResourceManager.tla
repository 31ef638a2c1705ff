-------------------------- MODULE ResourceManager --------------------------
(***************************************************************************)
(* The kernel's resource manager (src/kernel/resourceManager.c): counted   *)
(* resources, each with a bounded FIFO of the pids that wait for a unit.   *)
(*                                                                         *)
(* The functions of the C file are operators on the table of resources;    *)
(* the process state they set is returned by name (Granted, Heir) and is   *)
(* written by the actions of module Kernel that call them.  The FIFO is a  *)
(* sequence here; the ring buffer behind it is module WaitRing.            *)
(***************************************************************************)
EXTENDS Integers, Sequences

\* MAX_WAIT_PIDS - 1, 31 in the source: one cell of the ring stays empty.
CONSTANT WaitCapacity

ASSUME WaitAssumption == WaitCapacity \in Nat \ {0}

Resource == {"IO", "MEM", "CPU", "TMR"}

\* What initKernelState creates each resource with.
Units == [r \in Resource |-> IF r = "MEM" THEN 2 ELSE 1]

\* Pid 0 belongs to no process.
NoPid == 0

InitResources == [r \in Resource |-> [available |-> Units[r], waitPids |-> <<>>]]

Granted(rm, r) == rm[r].available > 0

enqueue(q, pid) == IF Len(q) < WaitCapacity THEN Append(q, pid) ELSE q

\* Takes a unit when there is one, and otherwise queues the caller.
requestResource(rm, r, pid) ==
  IF Granted(rm, r)
  THEN [rm EXCEPT ![r].available = @ - 1]
  ELSE [rm EXCEPT ![r].waitPids = enqueue(@, pid)]

\* The process a release wakes, if any.
Heir(rm, r) == IF rm[r].waitPids = <<>> THEN NoPid ELSE Head(rm[r].waitPids)

\* Mutant: the waiter that is woken stays at the head of the queue.
releaseResource_not_dequeued(rm, r) ==
  IF rm[r].waitPids = <<>>
  THEN [rm EXCEPT ![r].available = @ + 1]
  ELSE rm

\* With a waiter the unit is not returned to the pool: the waiter leaves the
\* queue and is made READY, but nothing records that it now has the unit.
releaseResource(rm, r) ==
  IF rm[r].waitPids = <<>>
  THEN [rm EXCEPT ![r].available = @ + 1]
  ELSE [rm EXCEPT ![r].waitPids = Tail(@)]
=============================================================================
