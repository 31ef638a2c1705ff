----------------------------- MODULE MCKernel -----------------------------
(***************************************************************************)
(* Instances of Kernel for TLC.  TICK_LIMIT and the 200 cycles of main are *)
(* the real ones wherever a configuration does not say otherwise.          *)
(***************************************************************************)
EXTENDS KernelProps

\* main's third program is the only one with a READ.
ThirdJob == {104}
EveryJob == Governors

\* Valid images; images of which any may be broken; two that may be.
AllLoad == [g \in Governors |-> {TRUE}]
MayFail == [g \in Governors |-> {TRUE, FALSE}]
SomeFail == [g \in Governors |-> IF g \in {102, 104} THEN {TRUE, FALSE} ELSE {TRUE}]
=============================================================================
