-------------------------- MODULE MCCPUIsolation --------------------------
(***************************************************************************)
(* An instance of CPUIsolation for TLC: programs that go round, without    *)
(* arithmetic, which would make them count through every word on the way,  *)
(* beside two contents of the supervisor's memory: HALTs, and jumps.       *)
(***************************************************************************)
EXTENDS CPUIsolation, MCRealCPU

Words == MemoryAccesses \cup Others \cup Loops

LoopingPrograms ==
  {Image(a, b, c, d, last, 1) : a \in Words, b \in Words, c \in Words,
     d \in Pointers, last \in {0, JumpTo(JMP, 0)}}

SupervisorWords == {[i \in Address |-> JumpTo(JMP, 2)]}
=============================================================================
