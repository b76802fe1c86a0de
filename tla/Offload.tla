------------------------------- MODULE Offload -------------------------------
(***************************************************************************)
(* What the accelerator promises to its host: a program that the host      *)
(* starts runs until it ends by itself; then, once every hart sleeps, the  *)
(* host is interrupted exactly once; it acknowledges the interrupt, and    *)
(* may start the next program.  A host that resets START withdraws its     *)
(* program and is promised nothing.  This is what ErosSystem               *)
(* implements, an abstraction of START, END_SW_ROUTINE, the interrupt      *)
(* status and the interrupt line (rtl/safe_wrapper_ctrl.sv).               *)
(***************************************************************************)
VARIABLES
  phase,    \* "free", "running", "ended", "signalled" or "withdrawn"
  resting   \* every hart sleeps

offloadVars == <<phase, resting>>

OInit == phase = "free" /\ resting \in BOOLEAN

\* Harts fall asleep and wake up as long as there is a program, or, for the
\* boot ROM, before there is one.
Rest == resting' \in BOOLEAN

Launch == phase = "free" /\ phase' = "running" /\ Rest
End    == phase = "running" /\ phase' = "ended" /\ Rest

\* The interrupt: everybody sleeps, and keeps sleeping.
Signal == /\ phase = "ended"
          /\ resting
          /\ phase' = "signalled"
          /\ resting' = TRUE

\* The host resets START before the program has ended.
Withdraw == phase \in {"running", "ended"} /\ phase' = "withdrawn" /\ Rest

Acknowledge == phase = "signalled" /\ phase' = "free" /\ UNCHANGED resting
Run         == phase # "signalled" /\ UNCHANGED phase /\ Rest

ONext == Launch \/ End \/ Signal \/ Acknowledge \/ Withdraw \/ Run

\* A program that was started is over at last, and the host knows, unless it
\* has given up on it.
OEnds == phase = "running" ~> phase \in {"signalled", "withdrawn"}

OSafety == OInit /\ [][ONext]_offloadVars
OSpec == OSafety /\ OEnds
=============================================================================
