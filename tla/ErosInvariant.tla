---------------------------- MODULE ErosInvariant -----------------------------
(***************************************************************************)
(* How far the accelerator is with a program that uses the voted mode and  *)
(* the single mode: the inductive invariant behind ErosProofs.             *)
(*                                                                         *)
(* In every state one of the phases below holds.  Each says where all the  *)
(* machines are, where the harts may be meanwhile, and how far the host    *)
(* and the control registers are.  m is the hart in MASTER_CORE.           *)
(***************************************************************************)
EXTENDS ErosProperties

Hart == FSM!Hart

(***************************************************************************)
(* The programs: they activate no mode but the voted one, and the host     *)
(* lets them end.  Faults may hit everywhere but at the two wfi            *)
(* instructions that end the mode or the program.                          *)
(***************************************************************************)
VotedJob(j) ==
  /\ j.conf \in {FSM!SINGLE, FSM!TCLS}
  /\ j.mask \subseteq Hart
  /\ j.master \in Hart
  /\ j.program \in Seq(ProgramCall)
  /\ \A n \in 1..Len(j.program) :
       j.program[n][1] = Activate => j.program[n][2] = FSM!TCLS
  /\ ~j.stopped
  /\ j.faulty \cap {"stop_wfi", "exit_wfi"} = {}

VotedUse == \A j \in Jobs : VotedJob(j)

(***************************************************************************)
(* The machines.                                                           *)
(***************************************************************************)
General(sf, sg) == safe = sf /\ single = sg
AllIn(t) == tmr = [h \in Hart |-> t]
OnlyIn(m, t) == tmr = [h \in Hart |-> IF h = m THEN t ELSE "TMR_IDLE"]

(***************************************************************************)
(* The registers: how far the program is (HostProtocol).  The host has     *)
(* configured what it starts.                                              *)
(***************************************************************************)
Going    == Protocol!Running
Starting == Protocol!Accepted \/ Protocol!Running
Early    == /\ Protocol!Free \/ Protocol!Launched \/ Starting
            /\ host # "choose" => safe_configuration = job.conf
Over     == Protocol!Ending \/ Protocol!Ended
Pulse    == Protocol!Signalled /\ interrupt
Due      == Protocol!Signalled /\ irq

(***************************************************************************)
(* Places in a program.  A hart at call n in a certain mode, or at a call  *)
(* that will lead to that mode.                                            *)
(***************************************************************************)
IsCall(n, f)  == n \in 1..Len(program) /\ program[n][1] = f
Leads(n, md)  == n \in 1..Len(program) /\ ModeAt(n + 1) = md
Within1(p, n, md) ==
  \/ p = "main" /\ n \in 1..(Len(program) + 1) /\ ModeAt(n) = md
  \/ p \in {"ckpt_regs", "ckpt_pc", "call_end"} /\ Leads(n, md)

Fresh(c)   == c.mode \in {"run", "sleep"} /\ c.loc = "wfi_entry" /\ c.op = 0 /\ c.ret = "none" /\ ~c.ack
Resting(c) == /\ c.mode = "sleep" /\ ~c.ack
              /\ c.loc \in {"wfi_entry", "stop_wfi", "exit_wfi"}
Halting(c, L) == c.mode = "debug" /\ c.loc \in L /\ ~c.ack
Doing(c, l) == c.mode = "run" /\ c.loc = l /\ ~c.ack
Dozing(c, l) == c.mode = "sleep" /\ c.loc = l /\ ~c.ack

\* A hart in an interrupt handler: its acknowledge register is set in between.
Handling(c, H) == /\ c.mode = "run" /\ c.loc \in H
                  /\ c.ack = (c.loc \in {"sync_unack", "resync_unack"})

\* The master alone.
Alone(c) ==
  \/ /\ Halting(c, {"debug_entry", "single_boot"})
     /\ external_debug_req = 2 /\ Going /\ safe_configuration = 0 /\ job.conf = 0
  \/ Doing(c, "crt0") /\ c.op = 1 /\ Going /\ safe_configuration = 0 /\ job.conf = 0
  \/ Doing(c, c.loc) /\ Within1(c.loc, c.op, 0) /\ Going /\ safe_configuration = 0
  \/ /\ Doing(c, "act_conf") /\ IsCall(c.op, Activate) /\ ModeAt(c.op) = 0
     /\ Going /\ safe_configuration = 0
  \/ Doing(c, "act_context") /\ Leads(c.op, 1) /\ Going /\ safe_configuration = 1
  \/ /\ Handling(c, {"sync_unack", "mret"}) /\ c.ret = "call_end" /\ Leads(c.op, 0)
     /\ Going /\ safe_configuration = 0
  \/ Doing(c, "exit_wfi") /\ Over /\ safe_configuration = 0
  \/ Dozing(c, "exit_wfi") /\ Protocol!Ended /\ safe_configuration = 0

\* The master while it saves its state for the others.
Saving(c) ==
  /\ c.loc \in {"act_context", "act_sync", "act_pc", "act_wfi"} /\ ~c.ack
  /\ c.mode = "run" \/ (c.mode = "sleep" /\ c.loc = "act_wfi")
  /\ Leads(c.op, 1)
  /\ initial_sync_master = (c.loc \in {"act_pc", "act_wfi"})
  /\ c.loc # "act_context" => safe_copy.context = c.op
  /\ c.loc = "act_wfi" => safe_copy.pc = c.op /\ safe_copy.loc = "act_pc"

Saved(c) == Saving(c) /\ c.mode = "sleep"

\* A hart that restores it, and then does what is left of Safe_Activate.
Joining(c, n) ==
  \/ Halting(c, {"debug_entry"}) /\ external_debug_req = 0
  \/ Halting(c, {"halt_boot"})
  \/ Doing(c, "act_pc") /\ c.op = n
  \/ Doing(c, "act_wfi") /\ c.op = n
  \/ Dozing(c, "act_wfi") /\ c.op = n

\* A place in the program that is executed by all harts together.
Voted(p, n) ==
  \/ /\ Going /\ safe_configuration = 1
     /\ \/ p = "crt0" /\ n = 1 /\ job.conf = 1 /\ ~initial_sync_master
        \/ Within1(p, n, 1) /\ ~initial_sync_master
        \/ p = "act_reset_sync" /\ Leads(n, 1) /\ initial_sync_master
        \/ p = "act_reset_ack" /\ Leads(n, 1) /\ ~initial_sync_master
        \/ p = "stop_critical" /\ IsCall(n, Stop) /\ ~initial_sync_master
        \/ /\ p \in {"stop_master", "stop_conf"} /\ IsCall(n, Stop)
           /\ ~initial_sync_master /\ ~critical_section
  \/ /\ p = "stop_wfi" /\ IsCall(n, Stop) /\ ~initial_sync_master /\ ~critical_section
     /\ Going /\ safe_configuration = 0
  \/ p = "exit_wfi" /\ ~initial_sync_master /\ Over /\ safe_configuration = 1

VotedRun(c) ==
  \/ Doing(c, c.loc) /\ Voted(c.loc, c.op)
  \/ Handling(c, HandlerLoc) /\ c.ret # "crt0" /\ Voted(c.ret, c.op)

VotedSleep(c) ==
  \/ Dozing(c, "stop_wfi") /\ Voted("stop_wfi", c.op)
  \/ Dozing(c, "exit_wfi") /\ Voted("exit_wfi", c.op) /\ Protocol!Ended

Together == \A g, h \in Hart : core[g] = core[h]
OthersRest(m) == \A h \in Hart \ {m} : Resting(core[h])
AllRest == \A h \in Hart : Resting(core[h])
Unsynced == ~initial_sync_master

(***************************************************************************)
(* The phases.                                                             *)
(***************************************************************************)
Reset(m) ==
  /\ General("RESET", "SINGLE_RESET") /\ AllIn("TMR_RESET")
  /\ dmr = [h \in Hart |-> "DMR_RESET"]
  /\ \A h \in Hart : Fresh(core[h])
  /\ Protocol!Free /\ host = "choose" /\ Unsynced

Boot(m) ==
  /\ General("BOOT", "SINGLE_IDLE") /\ AllIn("TMR_IDLE")
  /\ \A h \in Hart : Fresh(core[h])
  /\ Early /\ Unsynced

Idle(m) ==
  /\ General("IDLE", "SINGLE_IDLE") /\ AllIn("TMR_IDLE") /\ AllRest
  /\ host # "enable" => master_core_ff = {m}
  /\ Early \/ Due
  /\ Unsynced

SingleEntry(m) ==
  /\ General("SINGLE_MODE", "SINGLE_IDLE") /\ AllIn("TMR_IDLE") /\ AllRest
  /\ master_core_ff = {m} /\ Starting /\ Unsynced
  /\ safe_configuration = 0 /\ job.conf = 0

SingleStart(m) ==
  /\ General("SINGLE_MODE", "SINGLE_START") /\ AllIn("TMR_IDLE") /\ OthersRest(m)
  /\ Resting(core[m]) \/ Halting(core[m], {"debug_entry"})
  /\ external_debug_req = 2
  /\ master_core_ff = {m} /\ Going /\ Unsynced
  /\ safe_configuration = 0 /\ job.conf = 0

SingleRun(m) ==
  /\ General("SINGLE_MODE", "SINGLE_RUN") /\ AllIn("TMR_IDLE") /\ OthersRest(m)
  /\ Alone(core[m]) /\ master_core_ff = {m} /\ Unsynced

SingleEnd(m) ==
  /\ General("SINGLE_MODE", "SINGLE_IDLE") /\ AllIn("TMR_IDLE") /\ AllRest
  /\ core[m].loc = "exit_wfi"
  /\ master_core_ff = {m} /\ Pulse /\ Unsynced

\* Safe_Activate.
Leaving(m) ==
  /\ General("TMR_MODE", "SINGLE_TO_TMR") /\ AllIn("TMR_IDLE") /\ OthersRest(m)
  /\ Saving(core[m]) /\ master_core_ff = {m} /\ Going /\ safe_configuration = 1

MasterWaits(m) ==
  /\ General("TMR_MODE", "SINGLE_TO_TMR") /\ OnlyIn(m, "TMR_SH_HALT") /\ OthersRest(m)
  /\ Saved(core[m]) /\ master_core_ff = {m} /\ Going /\ safe_configuration = 1
  /\ external_debug_req = 0

Calling(m) ==
  /\ General("TMR_MODE", "SINGLE_TO_TMR") /\ AllIn("TMR_SH_HALT") /\ OthersRest(m)
  /\ Saved(core[m]) /\ master_core_ff = {m} /\ Going /\ safe_configuration = 1
  /\ external_debug_req = 0

OthersAgree(m) == \A g, h \in Hart \ {m} : core[g] = core[h]

HaltOthers(m) ==
  /\ General("TMR_MODE", "SINGLE_IDLE") /\ AllIn("TMR_SH_HALT")
  /\ OthersRest(m) \/ (OthersAgree(m) /\ \A h \in Hart \ {m} : Halting(core[h], {"debug_entry"}))
  /\ Saved(core[m]) /\ master_core_ff = {m} /\ Going /\ safe_configuration = 1
  /\ external_debug_req = 0

Join(m) ==
  /\ General("TMR_MODE", "SINGLE_IDLE") /\ AllIn("TMR_WAIT_SH")
  /\ OthersAgree(m)
  /\ \A h \in Hart \ {m} : Joining(core[h], core[m].op)
  /\ Saved(core[m]) /\ master_core_ff = {m} /\ Going /\ safe_configuration = 1

Joined(m) ==
  /\ General("TMR_MODE", "SINGLE_IDLE") /\ AllIn("TMR_MS_INTRSYNC") /\ Together
  /\ LET c == core[0] IN
       /\ \/ Dozing(c, "act_wfi")
          \/ Handling(c, {"sync_ack", "sync_unack"}) /\ c.ret = "act_reset_sync"
       /\ Leads(c.op, 1)
  /\ master_core_ff = {m} /\ Going /\ safe_configuration = 1 /\ initial_sync_master

\* The voted mode.
Sync(m) ==
  /\ General("TMR_MODE", "SINGLE_IDLE") /\ AllIn("TMR_SYNC") /\ Together
  /\ VotedRun(core[0]) \/ VotedSleep(core[0])
  /\ mismatch => core[0].mode = "run" /\ core[0].loc \notin {"stop_wfi", "exit_wfi"}
  /\ tmr_error_ff.pending /\ ~critical_section =>
       core[0].mode = "run" /\ core[0].loc \in {"main", "stop_master"}

Repair(m) ==
  /\ General("TMR_MODE", "SINGLE_IDLE") /\ AllIn("TMR_SYNCINTC") /\ Together
  /\ VotedRun(core[0])

Repaired(m) ==
  /\ General("TMR_MODE", "SINGLE_IDLE") /\ AllIn("TMR_SWSYNC") /\ Together
  /\ VotedRun(core[0])
  /\ core[0].loc \in {"sync_unack", "resync_unack", "mret"}

\* Safe_Stop.
Parting(m) ==
  /\ General("TMR_MODE", "SINGLE_IDLE") /\ AllIn("TMR_END_SYNC")
  /\ \A h \in Hart : Dozing(core[h], "stop_wfi")
  /\ Leads(core[m].op, 0)
  /\ master_core_ff = {m} /\ Going /\ safe_configuration = 0 /\ Unsynced

HandedOver(m, sg, H) ==
  /\ General("SINGLE_MODE", sg) /\ OnlyIn(m, "TMR_END_SYNC") /\ OthersRest(m)
  /\ \/ Dozing(core[m], "stop_wfi")
     \/ Handling(core[m], H) /\ core[m].ret = "call_end"
  /\ Leads(core[m].op, 0)
  /\ master_core_ff = {m} /\ Going /\ safe_configuration = 0 /\ Unsynced

Handover(m) == \/ HandedOver(m, "SINGLE_IDLE", {"sync_ack"})
               \/ HandedOver(m, "SINGLE_RUN", {"sync_ack", "sync_unack"})

\* A program that the host starts in the voted mode, and its end.
VotedEntry(m) ==
  /\ General("TMR_MODE", "SINGLE_IDLE") /\ AllIn("TMR_IDLE") /\ AllRest
  /\ master_core_ff = {m} /\ Starting /\ Unsynced
  /\ safe_configuration = 1 /\ job.conf = 1

VotedStart(m) ==
  /\ General("TMR_MODE", "SINGLE_IDLE") /\ AllIn("TMR_START")
  /\ \/ AllRest
     \/ Together /\ Halting(core[0], {"debug_entry"}) /\ external_debug_req = 2
  /\ master_core_ff = {m} /\ Going /\ Unsynced
  /\ safe_configuration = 1 /\ job.conf = 1

VotedBoot(m) ==
  /\ General("TMR_MODE", "SINGLE_IDLE") /\ AllIn("TMR_BOOT") /\ Together
  /\ \/ Halting(core[0], {"debug_entry", "single_boot"}) /\ external_debug_req = 2
     \/ Doing(core[0], "crt0") /\ core[0].op = 1
  /\ master_core_ff = {m} /\ Going /\ Unsynced
  /\ safe_configuration = 1 /\ job.conf = 1

VotedEnd(m) ==
  /\ General("TMR_MODE", "SINGLE_IDLE") /\ AllIn("TMR_IDLE")
  /\ \A h \in Hart : Dozing(core[h], "exit_wfi")
  /\ Pulse /\ Unsynced /\ master_core_ff = {m}

Phase(m) ==
  \/ Reset(m) \/ Boot(m) \/ Idle(m)
  \/ SingleEntry(m) \/ SingleStart(m) \/ SingleRun(m) \/ SingleEnd(m)
  \/ Leaving(m) \/ MasterWaits(m) \/ Calling(m) \/ HaltOthers(m)
  \/ Join(m) \/ Joined(m)
  \/ Sync(m) \/ Repair(m) \/ Repaired(m) \/ Parting(m) \/ Handover(m)
  \/ VotedEntry(m) \/ VotedStart(m) \/ VotedBoot(m) \/ VotedEnd(m)

CoreState == [mode : {"run", "sleep", "debug"}, loc : Loc, op : Nat,
              ret : ProgramLoc \cup {"none"}, ack : BOOLEAN]

\* A handler, and nothing else, has a place in the program to return to.
Returnable(c) == IF c.loc \in HandlerLoc THEN c.ret \in ProgramLoc ELSE c.ret = "none"

VotedInv ==
  /\ TypeOK
  /\ safe_copy \in [stack : Nat, context : Nat, pc : Nat, loc : ProgramLoc]
  /\ \A h \in Hart : Returnable(core[h])
  /\ program = job.program /\ VotedJob(job)
  /\ safe_configuration \in {0, 1}
  /\ safe # "RESET" => dmr = [h \in Hart |-> "DMR_IDLE"]
  /\ ~delay_ff /\ ~dmr_rec
  /\ host \in {"start", "wait"} => interrupt_controler.enable
  /\ \E m \in Hart : master_core = {m} /\ Phase(m)

(***************************************************************************)
(* Critical sections.  Faults do not hit the store that enters or leaves   *)
(* one, and a program that leaves a section does something else before it  *)
(* enters the next: in the code some instructions come between two calls   *)
(* of Set_Critical_Section, here there may be none.                        *)
(***************************************************************************)
CriticalJob(j) ==
  /\ Critical \notin j.faulty
  /\ \A n \in 1..Len(j.program) :
       /\ n + 1 \in 1..Len(j.program)
       /\ j.program[n][1] = Critical /\ j.program[n][2] = FALSE
       /\ j.program[n + 1][1] = Critical
       => j.program[n + 1][2] = FALSE

CriticalUse == \A j \in Jobs : CriticalJob(j)

NoRepair == \A h \in Hart : tmr[h] \notin {"TMR_SYNCINTC", "TMR_SWSYNC"}

\* The harts are about to enter a critical section.
Entering == /\ core[0].loc = "main" /\ IsCall(core[0].op, Critical)
            /\ program[core[0].op][2] = TRUE

\* What is inductive beside VotedInv: a section is entered with nothing to
\* repair, and at a first fault in it no error is remembered already.
CriticalInv ==
  /\ CriticalJob(job) /\ faults \in Nat
  /\ faults = 0 => NoRepair /\ ~mismatch /\ ~tmr_error_ff.pending
  /\ critical_section /\ faults <= 1 =>
       NoRepair /\ (mismatch => ~tmr_error_ff.pending)
  /\ AllIn("TMR_SYNC") /\ Together /\ Entering =>
       ~mismatch /\ (tmr_error_ff.pending => critical_section)
=============================================================================
