---------------------------- MODULE SafeCpuWrapper ----------------------------
(***************************************************************************)
(* The safe wrapper around the three harts (rtl/safe_cpu_wrapper.sv): the  *)
(* control registers, the safety machines, and the multiplexers that tie   *)
(* the buses of several harts together.                                    *)
(*                                                                         *)
(* When a voter or a comparator is enabled the harts it joins fetch the    *)
(* same instructions through the bus of the gated master, so they move as  *)
(* one; a hart outside of a group uses its own bus.  In lockstep the other *)
(* member repeats what the master did one clock edge before (NCYCLES = 1). *)
(*                                                                         *)
(* Clock(wr) is one edge of the whole wrapper; what the harts do on that   *)
(* edge is in SafetySoftware.                                              *)
(***************************************************************************)
EXTENDS SafeWrapperCtrl

VARIABLES
  core,            \* each hart: [mode, loc, op, ret, ack]
  master_core_ff,  \* the gated master register: whose bus the group uses
  mismatch,        \* a member of the group drives a different request
  safe, single, tmr, dmr, delay_ff, tmr_error_ff

\* The signals of the harts: sleep_s, debug_mode_s and Hart_intc_ack_s.
Asleep == {h \in 0..2 : core[h].mode = "sleep"}
Halted == {h \in 0..2 : core[h].mode = "debug"}
Acked  == {h \in 0..2 : core[h].ack}
Awake  == {h \in 0..2 : core[h].mode # "sleep"}

\* The voter and the comparator in use are those of the gated master.
FSM == INSTANCE SafeFSM WITH
  hart_wfi  <- Asleep,
  halt_ack  <- Halted,
  intc_ack  <- Acked,
  tmr_error <- mismatch,
  dmr_error <- IF mismatch THEN master_core_ff ELSE {}

fsmVars     == <<safe, single, tmr, dmr, delay_ff, tmr_error_ff>>
wrapperVars == <<ctrlVars, master_core_ff, fsmVars>>

(***************************************************************************)
(* The bus multiplexers.                                                   *)
(***************************************************************************)
Voting    == FSM!Tmr_voter_enable
Comparing == FSM!Dmr_comparator_enable
Isolated  == FSM!wfi_dmr

\* The harts whose requests are voted or compared.
Group == IF Voting /\ ~Comparing THEN FSM!Hart
         ELSE IF Comparing /\ ~Voting THEN FSM!Dmr_config \ Isolated ELSE {}

\* In lockstep, the members that repeat the master one edge later.
Followers == IF Comparing /\ FSM!Delayed THEN Group \ master_core_ff ELSE {}

\* The comparator lets no request through while the two differ.
Blocked == IF mismatch /\ Comparing THEN Group ELSE {}

(***************************************************************************)
(* The sets of harts that move as one: the members of the group (in        *)
(* lockstep its master alone, whom the others follow), and every hart      *)
(* outside of it.  Those of them in S, or awake and fed by their bus.      *)
(***************************************************************************)
Units     == LET g == Group IN {g \ Followers} \cup {{h} : h \in FSM!Hart \ g}
Within(S) == {u \cap S : u \in Units} \ {{}}
Steppers  == Within(Awake \ Isolated)

\* The new state of the harts, given that of the harts that lead.
Repeating(leading) ==
  LET following == IF Group \cap master_core_ff = {} THEN {} ELSE Followers
      master    == CHOOSE m \in master_core_ff : TRUE
  IN [h \in FSM!Hart |-> IF h \in following THEN core[master] ELSE leading[h]]

(***************************************************************************)
(* One clock edge.  The gated master follows the register only while every *)
(* hart sleeps.  A difference between two compared harts lasts until they  *)
(* are isolated; a voted one is outvoted at once.                          *)
(***************************************************************************)
\* Mutant: the bus follows the register at once.
MasterNext_Ungated == master_core
MasterNext == IF FSM!AllAsleep THEN master_core ELSE master_core_ff

WrapperInit ==
  /\ CtrlInit
  /\ FSM!FsmInit
  /\ master_core_ff = {0}
  /\ mismatch = FALSE

Clock(wr) ==
  /\ FSM!FsmClock
  /\ CtrlClock(wr, FSM!AllAsleep, FSM!Start_Boot, FSM!en_ext_debug_req,
               FSM!DMR_Rec)
  /\ master_core_ff' = MasterNext

Undisturbed == mismatch' = (mismatch /\ Comparing /\ Isolated = {})
Disturbed   == mismatch' = TRUE
=============================================================================
