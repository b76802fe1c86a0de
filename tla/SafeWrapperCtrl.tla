--------------------------- MODULE SafeWrapperCtrl ---------------------------
(***************************************************************************)
(* The control and status registers of the safe wrapper and the logic      *)
(* around them (rtl/safe_wrapper_ctrl.sv and its generated register file): *)
(* the START / END_SW_ROUTINE pair, which reset each other on a rising     *)
(* edge, and the completion interrupt.                                     *)
(*                                                                         *)
(* CtrlClock(wr, ...) is one rising clock edge on which the register bus   *)
(* carries the write wr, or none.  A software write wins over the value    *)
(* the hardware loads on the same edge.                                    *)
(***************************************************************************)
EXTENDS Integers

VARIABLES
  safe_configuration, dmr_mask, master_core, critical_section,
  initial_sync_master,
  start, end_sw_routine,
  interrupt_controler,   \* [enable, status]: INTERRUPT_CONTROLER
  external_debug_req,    \* 2 * Start_Boot + en_ext_debug, one cycle ago
  dmr_rec,               \* DMR_Rec, one cycle ago
  Startff, Start_Flag,   \* edge detector of START
  en_sw_routineff,       \* edge detector of END_SW_ROUTINE
  interrupt,             \* the interrupt line to the host
  flag_intc              \* the current status has been signalled

configVars == <<safe_configuration, dmr_mask, master_core, critical_section,
                initial_sync_master>>
jobVars    == <<start, end_sw_routine, interrupt_controler, Startff,
                Start_Flag, en_sw_routineff, interrupt, flag_intc>>
ctrlVars   == <<configVars, jobVars, external_debug_req, dmr_rec>>

NoWrite == [reg |-> "NONE", val |-> 0]
Write(r, v) == [reg |-> r, val |-> v]

CtrlInit ==
  /\ safe_configuration = 0
  /\ dmr_mask = {}
  /\ master_core = {0}
  /\ critical_section = FALSE
  /\ initial_sync_master = FALSE
  /\ start = FALSE
  /\ end_sw_routine = FALSE
  /\ interrupt_controler = [enable |-> FALSE, status |-> FALSE]
  /\ external_debug_req = 0
  /\ dmr_rec = FALSE
  /\ Startff = FALSE
  /\ Start_Flag = FALSE
  /\ en_sw_routineff = FALSE
  /\ interrupt = FALSE
  /\ flag_intc = FALSE

\* A register after the edge: the bus's value if it is written, else hw.
Loaded(wr, r, hw) == IF wr.reg = r THEN wr.val ELSE hw

\* Rising edges, each seen for one cycle.
start_rises  == start /\ ~Startff
\* Mutant: a level instead of an edge.
enable_endSW_Level == end_sw_routine
enable_endSW == end_sw_routine /\ ~en_sw_routineff

\* Mutants: harts may be awake; the interrupt is repeated.
load_intc_Awake(all_asleep) == /\ interrupt_controler.enable
                               /\ interrupt_controler.status
                               /\ en_sw_routineff
                               /\ ~flag_intc
load_intc_Again(all_asleep) == /\ interrupt_controler.enable
                               /\ interrupt_controler.status
                               /\ all_asleep
                               /\ en_sw_routineff
load_intc(all_asleep) == /\ interrupt_controler.enable
                         /\ interrupt_controler.status
                         /\ all_asleep
                         /\ en_sw_routineff
                         /\ ~flag_intc

\* Registers that only software writes.
\* Mutant: MASTER_CORE is decoded at the address of DMR_MASK.
ConfigClock_Decode(wr) ==
  /\ safe_configuration' =
       Loaded(wr, "SAFE_CONFIGURATION", safe_configuration)
  /\ dmr_mask' = Loaded(wr, "DMR_MASK", dmr_mask)
  /\ master_core' = Loaded(wr, "DMR_MASK", master_core)
  /\ critical_section' = Loaded(wr, "CRITICAL_SECTION", critical_section)
  /\ initial_sync_master' =
       Loaded(wr, "INITIAL_SYNC_MASTER", initial_sync_master)
ConfigClock(wr) ==
  /\ safe_configuration' =
       Loaded(wr, "SAFE_CONFIGURATION", safe_configuration)
  /\ dmr_mask' = Loaded(wr, "DMR_MASK", dmr_mask)
  /\ master_core' = Loaded(wr, "MASTER_CORE", master_core)
  /\ critical_section' = Loaded(wr, "CRITICAL_SECTION", critical_section)
  /\ initial_sync_master' =
       Loaded(wr, "INITIAL_SYNC_MASTER", initial_sync_master)

\* The end of a program resets START and sets the interrupt status; a new
\* start resets END_SW_ROUTINE, one cycle later.
StartEndClock(wr) ==
  /\ start' = Loaded(wr, "START", start /\ ~enable_endSW)
  /\ end_sw_routine' =
       Loaded(wr, "END_SW_ROUTINE", end_sw_routine /\ ~Start_Flag)
  /\ Startff' = start
  /\ Start_Flag' = start_rises
  /\ en_sw_routineff' = end_sw_routine

\* One pulse on the interrupt line for each setting of the status.
InterruptClock(wr, all_asleep) ==
  /\ interrupt_controler' =
       Loaded(wr, "INTERRUPT_CONTROLER",
              [interrupt_controler EXCEPT !.status = @ \/ enable_endSW])
  /\ interrupt' = (interrupt_controler.status /\ load_intc(all_asleep))
  /\ flag_intc' = /\ interrupt_controler.status
                  /\ flag_intc \/ load_intc(all_asleep)

CtrlClock(wr, all_asleep, boot, ext_debug, rec) ==
  /\ ConfigClock(wr)
  /\ StartEndClock(wr)
  /\ InterruptClock(wr, all_asleep)
  /\ external_debug_req' = (IF boot THEN 2 ELSE 0) + (IF ext_debug THEN 1 ELSE 0)
  /\ dmr_rec' = rec
=============================================================================
