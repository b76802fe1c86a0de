------------------------------- MODULE SafeFSM -------------------------------
(***************************************************************************)
(* The safety finite state machines of the accelerator (rtl/safe_FSM.sv).  *)
(*                                                                         *)
(* One general machine selects the operating mode; one machine drives the  *)
(* single-core mode; one TMR and one DMR machine per hart bring the harts  *)
(* in and out of the voted (TMR) or compared (DMR) group.  All machines    *)
(* are clocked together: FsmClock is one rising edge, on which every       *)
(* machine moves according to the state and the inputs before the edge.    *)
(*                                                                         *)
(* A vector with one bit per hart is the set of the harts whose bit is 1.  *)
(***************************************************************************)
EXTENDS Integers, FiniteSets

Hart == 0..2

(***************************************************************************)
(* Values of the SAFE_CONFIGURATION register.                              *)
(***************************************************************************)
SINGLE   == 0
TCLS     == 1
DCLS     == 2
LOCKSTEP == 3
Configuration == {SINGLE, TCLS, DCLS, LOCKSTEP}
Dual == {DCLS, LOCKSTEP}

(***************************************************************************)
(* Input ports.                                                            *)
(***************************************************************************)
VARIABLES
  dmr_mask,             \* harts of the DMR group
  critical_section,     \* a first voting error need not be repaired at once
  safe_configuration,   \* requested mode, in Configuration
  initial_sync_master,  \* the master has saved its context
  halt_ack,             \* harts in debug mode
  hart_wfi,             \* harts asleep
  intc_ack,             \* harts whose acknowledge register is set
  master_core,          \* master hart, one-hot
  tmr_error,            \* the enabled voter sees a disagreement
  dmr_error,            \* comparators, by master, that see a disagreement
  start,
  end_sw_routine

inputs == <<dmr_mask, critical_section, safe_configuration,
            initial_sync_master, halt_ack, hart_wfi, intc_ack, master_core,
            tmr_error, dmr_error, start, end_sw_routine>>

(***************************************************************************)
(* State registers.                                                        *)
(***************************************************************************)
VARIABLES
  safe,         \* ctrl_safe_fsm_cs
  single,       \* ctrl_single_fsm_cs
  tmr,          \* ctrl_tmr_fsm_cs, one per hart
  dmr,          \* ctrl_dmr_fsm_cs, one per hart
  delay_ff,     \* lockstep delay latched on
  tmr_error_ff  \* [seen: error in the last cycle, pending: repair postponed]

fsmVars == <<safe, single, tmr, dmr, delay_ff, tmr_error_ff>>

SafeState == {"RESET", "BOOT", "IDLE", "SINGLE_MODE", "TMR_MODE", "DMR_MODE"}

SingleState == {"SINGLE_RESET", "SINGLE_IDLE", "SINGLE_START", "SINGLE_RUN",
                "SINGLE_TO_TMR", "SINGLE_TO_DMR", "SINGLE_SYNC_OFF"}

TmrState == {"TMR_RESET", "TMR_IDLE", "TMR_START", "TMR_BOOT", "TMR_SH_HALT",
             "TMR_WAIT_SH", "TMR_MS_INTRSYNC", "TMR_SYNC", "TMR_END_SYNC",
             "TMR_SYNCINTC", "TMR_SWSYNC"}

DmrState == {"DMR_RESET", "DMR_IDLE", "DMR_START", "DMR_BOOT", "DMR_SH_HALT",
             "DMR_WAIT_SH", "DMR_MS_INTRSYNC", "DMR_SYNC", "DMR_END_SYNC",
             "DMR_STOP", "DMR_INTC_RECOVERY", "DMR_RECOVERY"}

FsmTypeOK ==
  /\ safe \in SafeState
  /\ single \in SingleState
  /\ tmr \in [Hart -> TmrState]
  /\ dmr \in [Hart -> DmrState]
  /\ delay_ff \in BOOLEAN
  /\ tmr_error_ff \in [seen : BOOLEAN, pending : BOOLEAN]

FsmInit ==
  /\ safe = "RESET"
  /\ single = "SINGLE_RESET"
  /\ tmr = [h \in Hart |-> "TMR_RESET"]
  /\ dmr = [h \in Hart |-> "DMR_RESET"]
  /\ delay_ff = FALSE
  /\ tmr_error_ff = [seen |-> FALSE, pending |-> FALSE]

(***************************************************************************)
(* Output ports and signals between the machines: functions of the current *)
(* state, some of them (Mealy) of the master register too.                 *)
(***************************************************************************)
TmrIn(S) == {h \in Hart : tmr[h] \in S}
DmrIn(S) == {h \in Hart : dmr[h] \in S}

AllAsleep == hart_wfi = Hart

\* Enable_Switch_s: the single-core machine is handing over.
Enable_Switch == single \in {"SINGLE_TO_TMR", "SINGLE_TO_DMR"}

Switch_SingletoTMR == TmrIn({"TMR_SH_HALT"})
Switch_SingletoDMR == DmrIn({"DMR_SH_HALT"})
Switch_TMRtoSingle == TmrIn({"TMR_END_SYNC"}) \cap master_core
Switch_DMRtoSingle == DmrIn({"DMR_END_SYNC"}) \cap master_core
SwitchToSingle     == Switch_TMRtoSingle \cup Switch_DMRtoSingle

\* halt_req_s: the master is ready, the other harts may be halted.
halt_req == (Switch_SingletoTMR \cup Switch_SingletoDMR) \cap master_core # {}

TmrVoting == {"TMR_START", "TMR_BOOT", "TMR_SH_HALT", "TMR_WAIT_SH",
              "TMR_MS_INTRSYNC", "TMR_SYNC", "TMR_SYNCINTC", "TMR_SWSYNC"}
DmrComparing == {"DMR_START", "DMR_BOOT", "DMR_MS_INTRSYNC", "DMR_SYNC",
                 "DMR_STOP", "DMR_INTC_RECOVERY", "DMR_RECOVERY"}

Tmr_voter_enable      == TmrIn(TmrVoting) # {} \/ safe = "BOOT"
Dmr_comparator_enable == DmrIn(DmrComparing) # {}
Dmr_config            == Hart \ DmrIn({"DMR_IDLE"})
wfi_dmr               == DmrIn({"DMR_STOP"})

Delaying == /\ safe_configuration = LOCKSTEP
            /\ DmrIn(DmrComparing \ {"DMR_STOP"}) # {}
Delayed  == delay_ff \/ Delaying

Interrupt_Sync == TmrIn({"TMR_MS_INTRSYNC"}) \cup DmrIn({"DMR_MS_INTRSYNC"})
                    \cup SwitchToSingle
Interrupt_swResync == TmrIn({"TMR_SYNCINTC", "TMR_SWSYNC"})
\* Mutant: the harts to be recovered are not halted.
Interrupt_Halt_NoRecovery ==
  TmrIn({"TMR_START"}) \cup DmrIn({"DMR_START"})
    \cup ((Switch_SingletoTMR \cup Switch_SingletoDMR) \ master_core)
    \cup (IF single = "SINGLE_START" THEN master_core ELSE {})
Interrupt_Halt ==
  TmrIn({"TMR_START"}) \cup DmrIn({"DMR_START", "DMR_INTC_RECOVERY"})
    \cup ((Switch_SingletoTMR \cup Switch_SingletoDMR) \ master_core)
    \cup (IF single = "SINGLE_START" THEN master_core ELSE {})

\* Mutant: the ROM is told to boot in all of the voted mode.
Start_Boot_Voted == safe \in {"SINGLE_MODE", "TMR_MODE"}
Start_Boot == \/ safe = "SINGLE_MODE"
              \/ TmrIn({"TMR_START", "TMR_BOOT"}) # {}
              \/ DmrIn({"DMR_START", "DMR_BOOT"}) # {}
en_ext_debug_req == safe = "IDLE"
\* Mutant: a recovery is announced only once its harts are halted.
DMR_Rec_Late == DmrIn({"DMR_RECOVERY"}) # {}
DMR_Rec == DmrIn({"DMR_INTC_RECOVERY", "DMR_RECOVERY"}) # {}

(***************************************************************************)
(* Errors the machines react to.  A first voting error in a critical       *)
(* section is only remembered; a second one, or the end of the section,    *)
(* starts the repair.  Only the comparator of the selected master counts.  *)
(***************************************************************************)
\* Mutants: a critical section is not respected; a postponed error is lost.
tmr_error_s_AtOnce == tmr_error \/ tmr_error_ff.pending
tmr_error_s_Forgets ==
  IF critical_section
  THEN tmr_error /\ ~tmr_error_ff.seen /\ tmr_error_ff.pending
  ELSE tmr_error
tmr_error_s ==
  IF critical_section
  THEN tmr_error /\ ~tmr_error_ff.seen /\ tmr_error_ff.pending
  ELSE tmr_error \/ tmr_error_ff.pending

dmr_error_s == (IF master_core = {0} THEN 0
                ELSE IF master_core = {1} THEN 1 ELSE 2) \in dmr_error

\* The program has ended and everybody sleeps.
\* Mutants: nobody needs to sleep; START is still expected to be set.
Ends_Awake == end_sw_routine
Ends_Started == AllAsleep /\ end_sw_routine /\ start
Ends == AllAsleep /\ end_sw_routine

(***************************************************************************)
(* Next state of the general machine.                                      *)
(***************************************************************************)
SafeNext ==
  CASE safe = "RESET" -> "BOOT"
    [] safe = "BOOT" /\ AllAsleep -> "IDLE"
    [] safe \in {"IDLE", "SINGLE_MODE"} /\ start
         /\ safe_configuration = TCLS -> "TMR_MODE"
    [] safe \in {"IDLE", "SINGLE_MODE"} /\ start
         /\ safe_configuration \in Dual -> "DMR_MODE"
    [] safe = "IDLE" /\ start /\ safe_configuration = SINGLE -> "SINGLE_MODE"
    [] safe = "SINGLE_MODE" /\ ~start /\ single = "SINGLE_IDLE" -> "IDLE"
    [] safe = "TMR_MODE" /\ TmrIn({"TMR_IDLE"}) = Hart /\ ~start -> "IDLE"
    [] safe = "TMR_MODE" /\ Switch_TMRtoSingle # {} -> "SINGLE_MODE"
    [] safe = "DMR_MODE" /\ DmrIn({"DMR_IDLE"}) = Hart /\ ~start -> "IDLE"
    [] safe = "DMR_MODE" /\ Switch_DMRtoSingle # {} -> "SINGLE_MODE"
    [] OTHER -> safe

(***************************************************************************)
(* Next state of the single-core machine.  It boots the master unless a    *)
(* redundant group is handing a running program back to it.                *)
(***************************************************************************)
SingleMayStart == safe = "SINGLE_MODE" /\ start /\ ~end_sw_routine

RunStopped == ~start /\ halt_ack = {} /\ ~end_sw_routine
RunToTmr   == halt_ack = {} /\ safe_configuration = TCLS
RunToDmr   == halt_ack = {} /\ safe_configuration \in Dual

SingleNext ==
  CASE single = "SINGLE_RESET" -> "SINGLE_IDLE"
    [] single = "SINGLE_IDLE" /\ SingleMayStart ->
         IF SwitchToSingle = {} THEN "SINGLE_START" ELSE "SINGLE_RUN"
    [] single = "SINGLE_START" /\ halt_ack = master_core -> "SINGLE_RUN"
    [] single = "SINGLE_RUN" ->
         IF Ends THEN "SINGLE_IDLE"
         ELSE IF RunStopped THEN "SINGLE_SYNC_OFF"
         ELSE IF RunToTmr THEN "SINGLE_TO_TMR"
         ELSE IF RunToDmr THEN "SINGLE_TO_DMR" ELSE single
    [] single = "SINGLE_TO_TMR" /\ Switch_SingletoTMR = Hart -> "SINGLE_IDLE"
    [] single = "SINGLE_TO_DMR" /\ Cardinality(Switch_SingletoDMR) = 2 ->
         "SINGLE_IDLE"
    [] single = "SINGLE_SYNC_OFF" /\ hart_wfi = {} -> "SINGLE_IDLE"
    [] OTHER -> single

(***************************************************************************)
(* Next state of the TMR and DMR machines of hart h.  The two agree on how *)
(* a group is formed from a running master: the master waits asleep with   *)
(* its context saved, then the other harts are halted.                     *)
(***************************************************************************)
\* Mutant: the master may still be awake.
MayShare_Awake(h) == IF h \in master_core THEN initial_sync_master
                                          ELSE halt_req
MayShare(h) == IF h \in master_core THEN h \in hart_wfi /\ initial_sync_master
                                    ELSE halt_req

\* The joining harts have restored the state and sleep beside the master.
\* Mutant: one of them is enough.
Joined_One == hart_wfi \ master_core # {}
Joined == AllAsleep

AllAck == intc_ack = Hart

\* The end of the group: the master acknowledges, the others stay asleep.
Leaves(h) == IF h \in master_core THEN h \in intc_ack ELSE h \in hart_wfi

TmrSlavesHalted == Cardinality(halt_ack) >= 2

TmrNext(h) ==
  CASE tmr[h] = "TMR_RESET" -> "TMR_IDLE"
    [] tmr[h] = "TMR_IDLE" /\ safe = "TMR_MODE" /\ start /\ ~Enable_Switch ->
         "TMR_START"
    [] tmr[h] = "TMR_IDLE" /\ safe = "TMR_MODE" /\ start /\ Enable_Switch
         /\ MayShare(h) -> "TMR_SH_HALT"
    [] tmr[h] = "TMR_START" /\ h \in halt_ack -> "TMR_BOOT"
    [] tmr[h] = "TMR_BOOT" /\ h \notin halt_ack -> "TMR_SYNC"
    [] tmr[h] = "TMR_SH_HALT"
         /\ (IF h \in master_core THEN TmrSlavesHalted ELSE h \in halt_ack) ->
         "TMR_WAIT_SH"
    [] tmr[h] = "TMR_WAIT_SH" /\ Joined -> "TMR_MS_INTRSYNC"
    [] tmr[h] = "TMR_MS_INTRSYNC" /\ AllAck -> "TMR_SYNC"
    [] tmr[h] = "TMR_SYNC" ->
         IF Ends THEN "TMR_IDLE"
         ELSE IF AllAsleep /\ safe_configuration # TCLS THEN "TMR_END_SYNC"
         ELSE IF tmr_error_s THEN "TMR_SYNCINTC" ELSE tmr[h]
    [] tmr[h] = "TMR_END_SYNC" /\ Leaves(h) -> "TMR_IDLE"
    [] tmr[h] = "TMR_SYNCINTC" /\ AllAck -> "TMR_SWSYNC"
    [] tmr[h] = "TMR_SWSYNC" /\ intc_ack = {} -> "TMR_SYNC"
    [] OTHER -> tmr[h]

DmrSlavesHalted ==
  halt_ack = (dmr_mask \ master_core) \cup (master_core \ dmr_mask)

\* The code compares the configuration with each of the two dual modes and
\* joins the results with "or": whatever the configuration, one differs.
NoLongerDual == safe_configuration # DCLS \/ safe_configuration # LOCKSTEP

\* What ends the synchronous state of the compared harts, in this order.
\* Mutant: the end of the program is looked for last.
DmrSyncNext_EndLast ==
  IF AllAsleep /\ NoLongerDual THEN "DMR_END_SYNC"
  ELSE IF Ends THEN "DMR_IDLE"
  ELSE IF dmr_error_s THEN "DMR_STOP" ELSE "DMR_SYNC"
DmrSyncNext ==
  IF Ends THEN "DMR_IDLE"
  ELSE IF AllAsleep /\ NoLongerDual THEN "DMR_END_SYNC"
  ELSE IF dmr_error_s THEN "DMR_STOP" ELSE "DMR_SYNC"

DmrNext(h) ==
  CASE dmr[h] = "DMR_RESET" -> "DMR_IDLE"
    [] dmr[h] = "DMR_IDLE" /\ safe = "DMR_MODE" /\ start /\ h \in dmr_mask
         /\ ~Enable_Switch -> "DMR_START"
    [] dmr[h] = "DMR_IDLE" /\ safe = "DMR_MODE" /\ start /\ h \in dmr_mask
         /\ Enable_Switch /\ MayShare(h) -> "DMR_SH_HALT"
    [] dmr[h] = "DMR_START" /\ h \in halt_ack -> "DMR_BOOT"
    [] dmr[h] = "DMR_BOOT" /\ h \notin halt_ack -> "DMR_SYNC"
    [] dmr[h] = "DMR_SH_HALT"
         /\ (IF h \in master_core THEN DmrSlavesHalted ELSE h \in halt_ack) ->
         "DMR_WAIT_SH"
    [] dmr[h] = "DMR_WAIT_SH" /\ Joined -> "DMR_MS_INTRSYNC"
    [] dmr[h] = "DMR_MS_INTRSYNC" /\ h \in intc_ack -> "DMR_SYNC"
    [] dmr[h] = "DMR_SYNC" -> DmrSyncNext
    [] dmr[h] = "DMR_STOP" /\ AllAsleep -> "DMR_INTC_RECOVERY"
    [] dmr[h] = "DMR_INTC_RECOVERY" /\ h \in halt_ack -> "DMR_RECOVERY"
    [] dmr[h] = "DMR_RECOVERY" /\ h \notin halt_ack -> "DMR_SYNC"
    [] dmr[h] = "DMR_END_SYNC" /\ Leaves(h) -> "DMR_IDLE"
    [] OTHER -> dmr[h]

(***************************************************************************)
(* The lockstep delay is dropped when every hart sleeps in single          *)
(* configuration, and latched while a dual group runs in lockstep.         *)
(***************************************************************************)
DelayNext == /\ ~(AllAsleep /\ safe_configuration = SINGLE)
             /\ delay_ff \/ Delaying

\* Mutant: an error that was postponed stays so after the voted mode.
TmrErrorNext_Sticky ==
  LET rise == tmr_error /\ ~tmr_error_ff.seen IN
  IF TmrIn({"TMR_SYNC"}) # {} /\ rise
  THEN [seen |-> TRUE, pending |-> ~tmr_error_ff.pending]
  ELSE [seen |-> tmr_error, pending |-> tmr_error_ff.pending]
TmrErrorNext ==
  LET rise == tmr_error /\ ~tmr_error_ff.seen IN
  IF TmrIn({"TMR_SYNC"}) # {} /\ rise
  THEN [seen |-> TRUE, pending |-> ~tmr_error_ff.pending]
  ELSE IF TmrIn({"TMR_SYNC"}) # Hart
       THEN [seen |-> FALSE, pending |-> FALSE]
       ELSE [seen |-> tmr_error, pending |-> tmr_error_ff.pending]

(***************************************************************************)
(* One clock edge.                                                         *)
(***************************************************************************)
FsmClock ==
  /\ safe' = SafeNext
  /\ single' = SingleNext
  /\ tmr' = [h \in Hart |-> TmrNext(h)]
  /\ dmr' = [h \in Hart |-> DmrNext(h)]
  /\ delay_ff' = DelayNext
  /\ tmr_error_ff' = TmrErrorNext

\* The machines in an environment that may drive its ports as it likes; the
\* error of the voter is a single wire.
FsmSpec == /\ FsmInit
           /\ [][FsmClock]_<<fsmVars, inputs>>
           /\ [](tmr_error \in BOOLEAN)
=============================================================================
