------------------------------ MODULE ErosSystem ------------------------------
(***************************************************************************)
(* The accelerator with its host.  The host configures the accelerator,    *)
(* starts a program, waits for the completion interrupt, clears it, and    *)
(* starts the next one.  Faults make one hart of a redundant group differ  *)
(* from the others for a while.                                            *)
(*                                                                         *)
(* Every step is one clock edge: the host, or the harts, or nobody uses    *)
(* the buses on it, and the safety machines move.                          *)
(***************************************************************************)
EXTENDS SafetySoftware

CONSTANTS
  Jobs,         \* what the host may run: the configuration and the program,
                \* the places of the code in which faults may occur, and
                \* whether the host may reset START before the end, and
                \* (a bound) after how many programs the host stops
  MaxFaults     \* bound: faults

\* What a program may call, with arguments of the types that the library has.
ProgramCall == ({Work, Checkpoint} \X {0}) \cup ({Activate} \X FSM!Configuration)
               \cup ({Stop} \X FSM!Hart) \cup ({Critical} \X BOOLEAN)
               \cup ({SetMask} \X SUBSET FSM!Hart)

ASSUME JobsAssumption ==
  /\ \A j \in Jobs : /\ j.conf \in FSM!Configuration
                     /\ j.mask \subseteq FSM!Hart
                     /\ j.master \in FSM!Hart
                     /\ j.program \in Seq(ProgramCall)
  /\ MaxFaults \in Nat

VARIABLES
  host,    \* the next register the host writes, or "wait", or "done"
  irq,     \* the interrupt of the accelerator is pending at the host
  job,     \* what it runs
  starts,
  faults

vars == <<wrapperVars, mismatch, softwareVars, host, irq, job, starts, faults>>

Init ==
  /\ WrapperInit
  /\ SoftwareInit
  /\ host = "choose"
  /\ irq = FALSE
  /\ job = [conf |-> 0, mask |-> {}, master |-> 0, program |-> <<>>,
            faulty |-> {}, stopped |-> FALSE, starts |-> 1]
  /\ starts = 0
  /\ faults = 0

(***************************************************************************)
(* The host.                                                               *)
(***************************************************************************)
\* The pulse on the interrupt line stays pending until it is served.
Pending == irq' = (irq \/ interrupt)

HostWrites(r, v) == /\ Clock(Write(r, v))
                    /\ Undisturbed
                    /\ HartsWait
                    /\ UNCHANGED <<safe_copy, faults>>

Choose ==
  /\ host = "choose"
  /\ job' \in {j \in Jobs : /\ starts < j.starts
                            /\ starts > 0 => j.starts = job.starts}
  /\ program' = job'.program
  /\ host' = "mask"
  /\ HostWrites("SAFE_CONFIGURATION", job'.conf)
  /\ Pending
  /\ UNCHANGED starts

Configure ==
  /\ \/ /\ host = "mask" /\ host' = "master"
        /\ HostWrites("DMR_MASK", job.mask)
     \/ /\ host = "master" /\ host' = "enable"
        /\ HostWrites("MASTER_CORE", {job.master})
     \/ /\ host = "enable" /\ host' = "start"
        /\ HostWrites("INTERRUPT_CONTROLER", [enable |-> TRUE, status |-> FALSE])
  /\ Pending
  /\ UNCHANGED <<job, program, starts>>

Start ==
  /\ host = "start"
  /\ host' = "wait"
  /\ starts' = starts + 1
  /\ HostWrites("START", TRUE)
  /\ Pending
  /\ UNCHANGED <<job, program>>

\* Status of Interrupt, write '0' to clear current interrupt.
Serve ==
  /\ host = "wait"
  /\ irq
  /\ irq' = FALSE
  /\ host' = "choose"
  /\ HostWrites("INTERRUPT_CONTROLER", [enable |-> TRUE, status |-> FALSE])
  /\ UNCHANGED <<job, program, starts>>

ExternalStop ==
  /\ job.stopped
  /\ host = "wait"
  /\ start
  /\ host' = "stopped"
  /\ HostWrites("START", FALSE)
  /\ Pending
  /\ UNCHANGED <<job, program, starts>>

HostStep == Choose \/ Configure \/ Start \/ Serve \/ ExternalStop

(***************************************************************************)
(* The harts, faults, and an edge on which only the hardware moves.        *)
(***************************************************************************)
Harts == HartStep /\ Pending /\ UNCHANGED <<host, job, starts, faults>>

Point(G) == LET l == core[CHOOSE h \in G : TRUE].loc
            IN IF l = "main" THEN Call(G)[1] ELSE l

Fault ==
  /\ faults < MaxFaults
  /\ ~mismatch
  /\ \E G \in Steppers : G \subseteq Group /\ Point(G) \in job.faulty
  /\ Clock(NoWrite)
  /\ Disturbed
  /\ HartsWait
  /\ Pending
  /\ faults' = faults + 1
  /\ UNCHANGED <<program, safe_copy, host, job, starts>>

Edge ==
  /\ Clock(NoWrite)
  /\ Undisturbed
  /\ HartsWait
  /\ Pending
  /\ UNCHANGED <<program, safe_copy, host, job, starts, faults>>

Next == HostStep \/ Harts \/ Fault \/ Edge

(***************************************************************************)
(* The clock never stops, every access to a bus is granted at last, and    *)
(* the host goes on.                                                       *)
(***************************************************************************)
HartProgress(h) == Harts /\ core'[h] # core[h]

Fairness == /\ WF_vars(Next)
            /\ \A h \in FSM!Hart : WF_vars(HartProgress(h))
            /\ WF_vars(HostStep)

Spec == Init /\ [][Next]_vars /\ Fairness
=============================================================================
