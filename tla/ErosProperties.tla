---------------------------- MODULE ErosProperties ----------------------------
(***************************************************************************)
(* What the safety mechanisms of the accelerator promise.                  *)
(***************************************************************************)
EXTENDS ErosSystem

(***************************************************************************)
(* Vocabulary.                                                             *)
(***************************************************************************)
Machines == {h \in FSM!Hart : tmr[h] # "TMR_IDLE" \/ dmr[h] # "DMR_IDLE"}

\* Harts that execute the program, the library or a handler.
Executing == {h \in FSM!Hart \ Isolated :
                /\ core[h].mode = "run"
                /\ core[h].loc \in ProgramLoc \cup HandlerLoc \cup {"crt0"}}

\* The mode that the program expects to be in at its call number n: that of
\* its last Safe_Activate not followed by a Safe_Stop, or the host's.
ModeAt(n) ==
  LET mode[i \in 1..(Len(program) + 1)] ==
        IF i = 1 THEN job.conf
        ELSE LET call == program[i - 1]
             IN CASE call[1] = Activate /\ mode[i - 1] = 0 -> call[2]
                  [] call[1] = Stop -> 0
                  [] OTHER -> mode[i - 1]
  IN mode[n]

InSync(machine, states) == \A h \in DOMAIN machine : machine[h] \in states

(***************************************************************************)
(* Types.                                                                  *)
(***************************************************************************)
TypeOK ==
  /\ FSM!FsmTypeOK
  /\ core \in [FSM!Hart -> [mode : {"run", "sleep", "debug"},
                            loc : Loc, op : Nat,
                            ret : ProgramLoc \cup {"none"}, ack : BOOLEAN]]
  /\ safe_configuration \in FSM!Configuration
  /\ dmr_mask \subseteq FSM!Hart
  /\ \E h \in FSM!Hart : master_core = {h}
  /\ \E h \in FSM!Hart : master_core_ff = {h}
  /\ interrupt_controler \in [enable : BOOLEAN, status : BOOLEAN]
  /\ external_debug_req \in 0..3
  /\ {critical_section, initial_sync_master, start, end_sw_routine, dmr_rec,
      Startff, Start_Flag, en_sw_routineff, interrupt, flag_intc,
      mismatch} \subseteq BOOLEAN
  /\ irq \in BOOLEAN
  /\ host \in {"choose", "mask", "master", "enable", "start", "wait", "stopped"}

(***************************************************************************)
(* Safety.                                                                 *)
(***************************************************************************)
\* Two harts never run the program apart from each other: whoever executes
\* besides the master is voted or compared with it.
OneStream == \A g, h \in Executing : g # h => {g, h} \subseteq Group

\* The harts of a voted or compared group that are awake are in the same
\* place, so a difference on their buses is a fault and not a skew.
GroupAgrees == \A g, h \in (Group \cap Awake) \ Followers : core[g] = core[h]

\* A group keeps its bus: writing another master does not move a running
\* group to another port of the system bus.
MasterKeepsBus == [][(Group # {} /\ Group' # {}) =>
                       master_core_ff' = master_core_ff]_vars

\* Ordinary work is done in the mode the program asked for: voted by three
\* harts that are in sync, compared by the two of the mask, or alone.
WorkIsProtected ==
  \A h \in Executing :
    (core[h].loc = "main" /\ Call({h})[1] = Work) =>
      LET m == ModeAt(core[h].op) IN
      CASE m = FSM!SINGLE -> Group = {}
        [] m = FSM!TCLS -> InSync(tmr, {"TMR_SYNC", "TMR_SYNCINTC", "TMR_SWSYNC"})
        [] OTHER -> Group = dmr_mask /\ (m = FSM!LOCKSTEP => FSM!Delayed)

\* A hart is booted into the program only when nobody is in the middle of
\* it, and into the saved state only when a group is being formed by a master
\* that waits for it, or is being recovered.  The debugger is not entered.
BootIsRight ==
  \A h \in FSM!Hart :
    /\ core[h].loc # "debugger"
    /\ core[h].loc = "single_boot" =>
         /\ \A g \in Executing : {g, h} \subseteq Group
         /\ \A g \in FSM!Hart : core[g].loc \notin {"act_wfi", "halt_boot"}
    /\ core[h].loc = "halt_boot" =>
         \/ dmr_rec
         \/ \E m \in master_core : /\ core[m].mode = "sleep"
                                   /\ core[m].loc = "act_wfi"
                                   /\ initial_sync_master

\* What a hart restores was saved by one call: the registers and the program
\* counter, and in a recovery the stack too.  A hart that joins restores what
\* its master has saved when it called Safe_Activate.
RestoresOneState ==
  \A h \in FSM!Hart :
    core[h].loc = "halt_boot" =>
      /\ safe_copy.context = safe_copy.pc
      /\ IF dmr_rec
         THEN safe_copy.stack = safe_copy.pc
         ELSE \A m \in master_core : core[m].op = safe_copy.pc

\* The host is interrupted when the program has ended, at its last wfi, and
\* no hart is awake.
InterruptMeansDone ==
  interrupt => /\ Asleep = FSM!Hart
               /\ ~start
               /\ \A m \in master_core_ff : core[m].loc = "exit_wfi"

\* When the accelerator is idle no machine is in the middle of something
\* and no hart is awake.
IdleIsQuiet ==
  safe = "IDLE" => /\ Machines = {}
                   /\ single = "SINGLE_IDLE"
                   /\ Asleep = FSM!Hart
                   /\ Acked = {}

(***************************************************************************)
(* Refinement: the host's view (Offload).                                  *)
(***************************************************************************)
HostView == INSTANCE Offload WITH
  phase <- IF host = "stopped" THEN "withdrawn"
           ELSE IF irq \/ interrupt THEN "signalled"
           ELSE IF host # "wait" THEN "free"
           ELSE IF end_sw_routine /\ ~start_rises /\ ~Start_Flag THEN "ended"
           ELSE "running",
  resting <- FSM!AllAsleep

\* The accelerator keeps the promises of Offload to its host: one interrupt
\* for each program, after its end, and every program ends.
ImplementsOffload == HostView!OSpec

\* The rules of HostProtocol, from which its theorems derive what the host
\* sees, are kept by the boot ROM, the library, the machines and the host.
Protocol == INSTANCE HostProtocol WITH
  host <- CASE host = "wait" -> "waiting"
            [] host = "stopped" -> "withdrawn"
            [] OTHER -> "free",
  asleep <- FSM!AllAsleep,
  ConfigRegister <- {"SAFE_CONFIGURATION", "DMR_MASK", "MASTER_CORE",
                     "CRITICAL_SECTION", "INITIAL_SYNC_MASTER"},
  ConfigValue <- [SAFE_CONFIGURATION |-> FSM!Configuration,
                  DMR_MASK |-> SUBSET FSM!Hart,
                  MASTER_CORE |-> {{h} : h \in FSM!Hart},
                  CRITICAL_SECTION |-> BOOLEAN,
                  INITIAL_SYNC_MASTER |-> BOOLEAN]

ObeysProtocol == Protocol!Spec

(***************************************************************************)
(* Faults.                                                                 *)
(***************************************************************************)
\* A critical section is not interrupted for a single error.
CriticalIsUndisturbed ==
  (critical_section /\ faults <= 1) =>
    \A h \in FSM!Hart : tmr[h] \notin {"TMR_SYNCINTC", "TMR_SWSYNC"}

\* The repair that a critical section postpones takes place after it.
PostponedRepairHappens ==
  tmr_error_ff.pending ~> InSync(tmr, {"TMR_SWSYNC"})

\* Two compared harts that differ are brought back to agreement.
RecoveryEnds ==
  (mismatch /\ Comparing) ~>
    (~mismatch /\ \A h \in dmr_mask : dmr[h] = "DMR_SYNC")

(***************************************************************************)
(* Liveness.                                                               *)
(***************************************************************************)
\* The host resets START: the accelerator comes to rest.
StopSettles == host = "stopped" ~> (safe = "IDLE" /\ FSM!AllAsleep)

\* Safe_Stop leaves the redundant mode: what the program calls next runs on
\* one hart.
StopLeaves ==
  \A h \in Executing :
    (core[h].loc = "main" /\ core[h].op > 1 /\ core[h].op <= Len(program) + 1
       /\ program[core[h].op - 1][1] = Stop) => Group = {}
=============================================================================
