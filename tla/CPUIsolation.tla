--------------------------- MODULE CPUIsolation ---------------------------
(***************************************************************************)
(* Two processors of module RealCPU in user mode, step by step side by     *)
(* side, on memories that agree in the user's words and may differ in the  *)
(* supervisor's.  What a user's program can learn of the supervisor's      *)
(* memory is what the two come to differ in.                               *)
(***************************************************************************)
EXTENDS RealCPU

\* What the second processor's supervisor memory may hold.
CONSTANT Secrets

ASSUME SecretsAssumption == Secrets \subseteq [Address -> Word]
ASSUME UserAssumption == Modes \subseteq {"user"}

VARIABLES IC2, R2, SF2, MODE2, PI2, SI2, TI2, cells2, ticks2, running2

otherVars == <<IC2, R2, SF2, MODE2, PI2, SI2, TI2, cells2, ticks2, running2>>
bothVars == <<cpuVars, otherVars>>

Other ==
  INSTANCE RealCPU WITH IC <- IC2, R <- R2, SF <- SF2, MODE <- MODE2, PI <- PI2,
    SI <- SI2, TI <- TI2, cells <- cells2, ticks <- ticks2, running <- running2

InitBoth ==
  /\ Init
  /\ IC2 = IC /\ R2 = R /\ SF2 = SF /\ MODE2 = MODE
  /\ PI2 = PI /\ SI2 = SI /\ TI2 = TI
  /\ \E secret \in Secrets :
       cells2 = [a \in Address |-> IF a \in UserAddress THEN cells[a] ELSE secret[a]]
  /\ ticks2 = ticks /\ running2 = running

NextBoth == Next /\ Other!Next

SpecBoth == InitBoth /\ [][NextBoth]_bothVars

\* As in RealCPU.
FairSpecBoth == SpecBoth /\ WF_bothVars(NextBoth)

-----------------------------------------------------------------------------
\* The program can tell nothing apart: not by a register or a flag, not by where
\* it goes on, not by a fault or by when the timer expires, not by its own memory
\* (memory.c:20-49 as cpu.c uses it).
SameView ==
  /\ IC2 = IC /\ R2 = R /\ SF2 = SF /\ MODE2 = MODE
  /\ PI2 = PI /\ SI2 = SI /\ TI2 = TI
  /\ \A a \in UserAddress : cells2[a] = cells[a]
  /\ ticks2 = ticks /\ running2 = running
=============================================================================
