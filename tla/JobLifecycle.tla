--------------------------- MODULE JobLifecycle ---------------------------
(***************************************************************************)
(* What the booted system promises about its jobs, with no table, no slot, *)
(* no resource and no clock: a job is loaded, computes, asks for transfers *)
(* that the single I/O unit serves one at a time, and ends; the system is  *)
(* switched off when every job has ended.  Module KernelProps shows that   *)
(* the kernel implements it.                                               *)
(***************************************************************************)
CONSTANT Jobs

VARIABLES
  phase,   \* where each job is in its life
  up       \* the system has not been shut down

lifecycleVars == <<phase, up>>

Phases == {"new", "loading", "ready", "transfer", "queued", "done"}

TypeOK == phase \in [Jobs -> Phases] /\ up \in BOOLEAN

Init == phase = [j \in Jobs |-> "new"] /\ up = TRUE

At(p) == {j \in Jobs : phase[j] = p}

Move(j, from, to) ==
  /\ up /\ phase[j] = from
  /\ phase' = [phase EXCEPT ![j] = to]
  /\ UNCHANGED up

RequestLoad(j) == Move(j, "new", "loading")

Load(j) == Move(j, "loading", "ready")

Finish(j) == Move(j, "ready", "done")

\* The unit serves one transfer at a time; whoever finds it taken queues.
StartTransfer(j) == At("transfer") = {} /\ Move(j, "ready", "transfer")

Queue(j) == Move(j, "ready", "queued")

\* The end of a transfer also lets one queued job go, if there is one.
EndTransfer(j) ==
  /\ up /\ phase[j] = "transfer"
  /\ \/ /\ At("queued") = {}
        /\ phase' = [phase EXCEPT ![j] = "ready"]
     \/ \E k \in At("queued") :
          phase' = [phase EXCEPT ![j] = "ready", ![k] = "ready"]
  /\ UNCHANGED up

SwitchOff ==
  /\ up /\ At("done") = Jobs
  /\ up' = FALSE
  /\ UNCHANGED phase

Next ==
  \/ \E j \in Jobs :
       \/ RequestLoad(j) \/ Load(j) \/ Finish(j)
       \/ StartTransfer(j) \/ Queue(j) \/ EndTransfer(j)
  \/ SwitchOff

Spec == Init /\ [][Next]_lifecycleVars
=============================================================================
