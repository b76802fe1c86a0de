---------------------------- MODULE SafetySoftware ----------------------------
(***************************************************************************)
(* The software that the harts run: the boot and debug ROM                 *)
(* (ip/CB_boot_rom), the start-up code (crt0.S), the safety library        *)
(* (CB_Safety.c) with its interrupt handlers, and a program, which is a    *)
(* sequence of calls of that library and of ordinary work.                 *)
(*                                                                         *)
(* Every action is one instruction or one run of instructions without      *)
(* other effect than its last one, executed by a set G of harts that move  *)
(* as one (SafeCpuWrapper).  Actions only describe the harts; the bus      *)
(* write they make is passed to the clock edge they happen on.             *)
(*                                                                         *)
(* A hart is [mode, loc, op, ret, ack]: mode is "run", "sleep" or "debug"; *)
(* loc the place in the code; op the index of the call in the program;     *)
(* ret where the interrupt handler returns; ack its acknowledge register.  *)
(***************************************************************************)
EXTENDS SafeCpuWrapper, Sequences

VARIABLES
  program,    \* the calls of main, as <<function, argument>>
  safe_copy   \* the saved state: of which call are its parts?

softwareVars == <<core, program, safe_copy>>

Work       == "work"        \* ordinary instructions
Activate   == "Safe_Activate"
Stop       == "Safe_Stop"
Checkpoint == "Store_Checkpoint"
Critical   == "Set_Critical_Section"
SetMask    == "DMR_MASK"

\* Code of the program and of the library: an interrupt may come in between.
ProgramLoc ==
  {"main", "act_conf", "act_context", "act_sync", "act_pc", "act_wfi",
   "act_reset_sync", "act_reset_ack", "stop_critical", "stop_master",
   "stop_conf", "stop_wfi", "ckpt_regs", "ckpt_pc", "call_end", "exit_wfi",
   "exit_loop"}
HandlerLoc == {"sync_ack", "sync_unack", "resync_ack", "resync_unack", "mret"}
RomLoc     == {"wfi_entry", "debug_entry", "halt_boot", "single_boot",
               "debugger", "crt0"}
Loc        == ProgramLoc \cup HandlerLoc \cup RomLoc

SoftwareInit ==
  /\ core = [h \in FSM!Hart |-> [mode |-> "run", loc |-> "wfi_entry", op |-> 0,
                                 ret |-> "none", ack |-> FALSE]]
  /\ program = <<>>
  /\ safe_copy = [stack |-> 0, context |-> 0, pc |-> 0, loc |-> "main"]

(***************************************************************************)
(* How the harts of G move, the others staying where they are.             *)
(***************************************************************************)
At(G, l) == \A h \in G : core[h].loc = l
InMode(G, m) == \A h \in G : core[h].mode = m

Same(G) == \A g, h \in G : core[g] = core[h]
OpOf(G) == core[CHOOSE h \in G : TRUE].op
Call(G) == IF OpOf(G) \in 1..Len(program) THEN program[OpOf(G)]
                                          ELSE <<"return", 0>>

Move(G, r(_)) ==
  core' = Repeating([h \in FSM!Hart |-> IF h \in G THEN r(core[h]) ELSE core[h]])

Goto(G, l) == LET r(c) == [c EXCEPT !.loc = l] IN Move(G, r)
NextCall(G) == LET r(c) == [c EXCEPT !.loc = "main", !.op = @ + 1] IN Move(G, r)
Acknowledge(G, a, l) ==
  LET r(c) == [c EXCEPT !.ack = a, !.loc = l] IN Move(G, r)

\* The wfi instruction at the end of the code at loc.
Sleep(G) == LET r(c) == [c EXCEPT !.mode = "sleep"] IN Move(G, r)

KeepCopy == UNCHANGED safe_copy
Bus(wr)  == Clock(wr) /\ Undisturbed /\ UNCHANGED program
NoBus    == Bus(NoWrite) /\ KeepCopy
Store(r, v) == Bus(Write(r, v)) /\ KeepCopy

\* Harts that a debug request or an interrupt is about to divert.
Interruptible == {h \in FSM!Hart : core[h].mode # "debug"
                                    /\ core[h].loc \in ProgramLoc}
Diverted ==
  (FSM!Interrupt_Halt \ Halted)
    \cup ((FSM!Interrupt_Sync \cup FSM!Interrupt_swResync) \cap Interruptible)

\* G can execute an instruction at l: it is awake and its bus lets it.
Ready(G, m, l) == /\ InMode(G, m)
                  /\ At(G, l)
                  /\ Same(G)
                  /\ G \cap (Blocked \cup Diverted) = {}
Runs(G, l) == Ready(G, "run", l)

(***************************************************************************)
(* Boot ROM and start-up code.                                             *)
(***************************************************************************)
RomSleep(G) == Runs(G, "wfi_entry") /\ Sleep(G) /\ NoBus

\* A debug request halts a hart, awake or asleep.  The ROM will overwrite
\* dpc and mepc: where the hart was does not matter any more.
EnterDebug(G) ==
  /\ LET r(c) == [c EXCEPT !.mode = "debug", !.loc = "debug_entry", !.op = 0,
                           !.ret = "none"] IN Move(G, r)
  /\ NoBus

\* The ROM reads EXTERNAL_DEBUG_REQ to learn why it was entered.
DebugEntry(G) ==
  /\ Ready(G, "debug", "debug_entry")
  /\ Goto(G, CASE external_debug_req = 0 -> "halt_boot"
               [] external_debug_req = 2 -> "single_boot"
               [] OTHER -> "debugger")
  /\ NoBus

\* Resume where the saved state says.  DMR_REC tells to restore the stack.
HaltBoot(G) ==
  /\ Ready(G, "debug", "halt_boot")
  /\ LET r(c) == [c EXCEPT !.mode = "run", !.loc = safe_copy.loc,
                           !.op = safe_copy.pc] IN Move(G, r)
  /\ NoBus

SingleBoot(G) ==
  /\ Ready(G, "debug", "single_boot")
  /\ LET r(c) == [c EXCEPT !.mode = "run", !.loc = "crt0", !.op = 1] IN Move(G, r)
  /\ NoBus

StartUp(G) == Runs(G, "crt0") /\ Goto(G, "main") /\ NoBus

(***************************************************************************)
(* Safe_Activate: save the state of the hart, tell the wrapper, and sleep  *)
(* until the harts that join have restored it.  It does nothing when a     *)
(* redundant mode is active already.                                       *)
(***************************************************************************)
\* Mutant: the mode asked for is compared with the mode in use.
AlreadySafe_Other(G) == safe_configuration # Call(G)[2]
AlreadySafe(G) == safe_configuration # 0

SafeActivate(G) ==
  \/ /\ Runs(G, "main") /\ Call(G)[1] = Activate
     /\ IF AlreadySafe(G) THEN NextCall(G) ELSE Goto(G, "act_conf")
     /\ NoBus
  \/ /\ Runs(G, "act_conf") /\ Goto(G, "act_context")
     /\ Store("SAFE_CONFIGURATION", Call(G)[2])
  \/ /\ Runs(G, "act_context") /\ Goto(G, "act_sync")
     /\ safe_copy' = [safe_copy EXCEPT !.context = OpOf(G)]
     /\ Bus(NoWrite)
  \/ /\ Runs(G, "act_sync") /\ Goto(G, "act_pc")
     /\ Store("INITIAL_SYNC_MASTER", TRUE)
  \/ /\ Runs(G, "act_pc") /\ Goto(G, "act_wfi")
     /\ safe_copy' = [safe_copy EXCEPT !.pc = OpOf(G), !.loc = "act_pc"]
     /\ Bus(NoWrite)
  \/ Runs(G, "act_wfi") /\ Sleep(G) /\ NoBus
  \/ /\ Runs(G, "act_reset_sync") /\ Goto(G, "act_reset_ack")
     /\ Store("INITIAL_SYNC_MASTER", FALSE)
  \/ /\ Runs(G, "act_reset_ack")
     /\ LET r(c) == [c EXCEPT !.ack = FALSE, !.loc = "main", !.op = @ + 1]
        IN Move(G, r)
     /\ NoBus

(***************************************************************************)
(* Safe_Stop: hand the program over to the given master and sleep.         *)
(***************************************************************************)
SafeStop(G) ==
  \/ /\ Runs(G, "main") /\ Call(G)[1] = Stop
     /\ CASE safe_configuration = 0 -> NextCall(G)
          [] safe_configuration # 0 /\ critical_section ->
               Goto(G, "stop_critical")
          [] OTHER -> Goto(G, "stop_master")
     /\ NoBus
  \/ /\ Runs(G, "stop_critical") /\ Goto(G, "stop_master")
     /\ Store("CRITICAL_SECTION", FALSE)
  \/ /\ Runs(G, "stop_master") /\ Goto(G, "stop_conf")
     /\ Store("MASTER_CORE", {Call(G)[2]})
  \/ /\ Runs(G, "stop_conf") /\ Goto(G, "stop_wfi")
     /\ Store("SAFE_CONFIGURATION", 0)
  \/ Runs(G, "stop_wfi") /\ Sleep(G) /\ NoBus

(***************************************************************************)
(* Store_Checkpoint: the stack, the registers, then the program counter.   *)
(***************************************************************************)
StoreCheckpoint(G) ==
  \/ /\ Runs(G, "main") /\ Call(G)[1] = Checkpoint /\ Goto(G, "ckpt_regs")
     /\ safe_copy' = [safe_copy EXCEPT !.stack = OpOf(G)]
     /\ Bus(NoWrite)
  \/ /\ Runs(G, "ckpt_regs") /\ Goto(G, "ckpt_pc")
     /\ safe_copy' = [safe_copy EXCEPT !.context = OpOf(G)]
     /\ Bus(NoWrite)
  \/ /\ Runs(G, "ckpt_pc") /\ Goto(G, "call_end")
     /\ safe_copy' = [safe_copy EXCEPT !.pc = OpOf(G), !.loc = "call_end"]
     /\ Bus(NoWrite)

(***************************************************************************)
(* The other calls of a program, and its end.                              *)
(***************************************************************************)
CallEnd(G) == Runs(G, "call_end") /\ NextCall(G) /\ NoBus

OtherCall(G) ==
  /\ Runs(G, "main")
  /\ \/ Call(G)[1] = Work /\ NoBus
     \/ Call(G)[1] = Critical /\ Store("CRITICAL_SECTION", Call(G)[2])
     \/ Call(G)[1] = SetMask /\ Store("DMR_MASK", Call(G)[2])
  /\ NextCall(G)

Exit(G) ==
  \/ /\ Runs(G, "main") /\ Call(G)[1] = "return" /\ Goto(G, "exit_wfi")
     /\ Store("END_SW_ROUTINE", TRUE)
  \/ Runs(G, "exit_wfi") /\ Sleep(G) /\ NoBus

(***************************************************************************)
(* Interrupts.  A sleeping hart wakes up behind its wfi instruction.       *)
(***************************************************************************)
Resumption(c) ==
  CASE c.mode = "sleep" /\ c.loc = "act_wfi"  -> "act_reset_sync"
    [] c.mode = "sleep" /\ c.loc = "stop_wfi" -> "call_end"
    [] c.mode = "sleep" /\ c.loc = "exit_wfi" -> "exit_loop"
    [] OTHER -> c.loc

TakeInterrupt(line, handler) ==
  \E G \in Within(line \cap Interruptible) :
    /\ G \cap Blocked = {}
    /\ LET r(c) == [c EXCEPT !.mode = "run", !.ret = Resumption(c),
                             !.loc = handler] IN Move(G, r)
    /\ NoBus

\* handler_safe_fsm and handler_tmr_recoverysync: both set the acknowledge
\* register, and reset it; in between the second one pushes the registers
\* on the stack and reads them back, through the voter.
Handler(G) ==
  \/ Runs(G, "sync_ack")     /\ Acknowledge(G, TRUE, "sync_unack") /\ NoBus
  \/ Runs(G, "sync_unack")   /\ Acknowledge(G, FALSE, "mret") /\ NoBus
  \/ Runs(G, "resync_ack")   /\ Acknowledge(G, TRUE, "resync_unack") /\ NoBus
  \/ Runs(G, "resync_unack") /\ Acknowledge(G, FALSE, "mret") /\ NoBus
  \/ /\ Runs(G, "mret")
     /\ LET r(c) == [c EXCEPT !.loc = c.ret, !.ret = "none"] IN Move(G, r)
     /\ NoBus

\* An isolated hart reads nothing but wfi instructions.
IsolatedSleep(h) == /\ h \in Isolated
                    /\ core[h].mode = "run"
                    /\ Sleep({h})
                    /\ NoBus

\* Everything the harts do.
Instruction(G) ==
  \/ RomSleep(G) \/ DebugEntry(G) \/ HaltBoot(G) \/ SingleBoot(G) \/ StartUp(G)
  \/ SafeActivate(G) \/ SafeStop(G) \/ StoreCheckpoint(G) \/ CallEnd(G)
  \/ OtherCall(G) \/ Exit(G) \/ Handler(G)

HartStep ==
  \/ \E G \in Steppers : Instruction(G)
  \/ \E G \in Within(FSM!Interrupt_Halt \ Halted) : EnterDebug(G)
  \/ TakeInterrupt(FSM!Interrupt_Sync, "sync_ack")
  \/ TakeInterrupt(FSM!Interrupt_swResync, "resync_ack")
  \/ \E h \in FSM!Hart : IsolatedSleep(h)

\* An edge on which no hart completes anything.
HartsWait == core' = Repeating(core)
=============================================================================
