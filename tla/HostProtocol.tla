----------------------------- MODULE HostProtocol -----------------------------
(***************************************************************************)
(* The control registers of the safe wrapper between a host and a program  *)
(* of which only the rules they obey are known:                            *)
(*   - the host starts a program when it has none, and serves every        *)
(*     interrupt by resetting the interrupt status;                        *)
(*   - a program ends once, by setting END_SW_ROUTINE, and not before the  *)
(*     machines have seen START (two edges after it was written);          *)
(*   - the host may withdraw a program by resetting START, and then does   *)
(*     nothing more;                                                       *)
(*   - the harts fall asleep and wake up as they like, but they do not     *)
(*     wake up any more once they sleep and the program has ended.         *)
(* Everything else, the configuration registers and the outputs of the     *)
(* machines, takes any value at any time.  ErosSystem, with the boot ROM,  *)
(* the library and the machines, obeys these rules (ObeysProtocol of       *)
(* ErosProperties).                                                        *)
(***************************************************************************)
EXTENDS SafeWrapperCtrl

CONSTANTS
  ConfigRegister,  \* the registers that only configure
  ConfigValue      \* [ConfigRegister -> sets of values]: what may be written

ASSUME ConfigAssumption ==
  ConfigRegister \cap {"NONE", "START", "END_SW_ROUTINE", "INTERRUPT_CONTROLER"}
    = {}

VARIABLES
  host,     \* "free", "waiting" or "withdrawn"
  irq,      \* an interrupt is pending at the host
  asleep    \* every hart sleeps

protocolVars == <<ctrlVars, host, irq, asleep>>

Init == /\ CtrlInit
        /\ host = "free"
        /\ irq = FALSE
        /\ asleep = FALSE

\* The program the host waits for has written END_SW_ROUTINE.
Over == end_sw_routine /\ ~start_rises /\ ~Start_Flag

Sleep == asleep' \in (IF asleep /\ host = "waiting" /\ Over THEN {TRUE} ELSE BOOLEAN)

Edge(wr) ==
  \E boot, ext, rec \in BOOLEAN : CtrlClock(wr, asleep, boot, ext, rec)

\* The interrupt line is a pulse that stays pending at the host.
Pending == irq' = (irq \/ interrupt)

Quiet == Edge(NoWrite) /\ Sleep /\ Pending /\ UNCHANGED host

WriteConfig == /\ \E r \in ConfigRegister :
                    \E v \in ConfigValue[r] : Edge(Write(r, v))
               /\ Sleep
               /\ Pending
               /\ UNCHANGED host

Start == /\ host = "free"
         /\ host' = "waiting"
         /\ Edge(Write("START", TRUE))
         /\ Sleep
         /\ Pending

\* A program that is withdrawn may still end.
EndRoutine == /\ \/ /\ host = "waiting"
                    /\ start /\ Startff /\ ~Start_Flag /\ ~end_sw_routine
                 \/ host = "withdrawn"
              /\ ~asleep
              /\ Edge(Write("END_SW_ROUTINE", TRUE))
              /\ Sleep
              /\ Pending
              /\ UNCHANGED host

Withdraw == /\ host = "waiting"
            /\ start
            /\ host' = "withdrawn"
            /\ Edge(Write("START", FALSE))
            /\ Sleep
            /\ Pending

Enable == /\ host = "free"
          /\ Edge(Write("INTERRUPT_CONTROLER", [enable |-> TRUE, status |-> FALSE]))
          /\ Sleep
          /\ Pending
          /\ UNCHANGED host

Serve == /\ host = "waiting"
         /\ irq
         /\ irq' = FALSE
         /\ host' = "free"
         /\ Edge(Write("INTERRUPT_CONTROLER", [enable |-> TRUE, status |-> FALSE]))
         /\ asleep' = asleep

Next == \/ Quiet \/ WriteConfig \/ Start \/ EndRoutine \/ Withdraw
        \/ Enable \/ Serve

Spec == Init /\ [][Next]_protocolVars

(***************************************************************************)
(* What the host sees.                                                     *)
(***************************************************************************)
HostView == INSTANCE Offload WITH
  phase <- IF host = "withdrawn" THEN "withdrawn"
           ELSE IF irq \/ interrupt THEN "signalled"
           ELSE IF host = "free" THEN "free"
           ELSE IF Over THEN "ended" ELSE "running",
  resting <- asleep

\* One interrupt for every program, after its end and with all harts asleep.
OneInterruptPerProgram == HostView!OSafety

\* The interrupt line is a pulse of one clock cycle.
InterruptIsAPulse == [][interrupt => ~interrupt']_protocolVars

(***************************************************************************)
(* START and END_SW_ROUTINE reset each other: both are set only while one  *)
(* of the edges that will reset one of them is on its way, and a program   *)
(* that is waited for leaves one of them set.                              *)
(***************************************************************************)
Bistable ==
  /\ (start /\ end_sw_routine) => (start_rises \/ Start_Flag \/ enable_endSW)
  /\ host = "waiting" => start \/ end_sw_routine
  /\ host \in {"free", "withdrawn"} => ~start

(***************************************************************************)
(* The life of a program at the registers, one clause per state of the two *)
(* edge detectors.  In every state of the protocol one of them holds: this *)
(* is the inductive invariant behind the properties above.                 *)
(***************************************************************************)
status == interrupt_controler.status
Silent == ~interrupt /\ ~irq

\* The host has no program; END_SW_ROUTINE may be left over from the last.
Free == /\ host = "free" /\ Silent /\ ~status
        /\ ~start /\ ~Startff /\ ~Start_Flag
        /\ end_sw_routine = en_sw_routineff

\* START is set, its edge is not yet seen; then it is, and END_SW_ROUTINE is
\* about to be reset.
Launched == /\ host = "waiting" /\ Silent /\ ~status
            /\ start /\ ~Startff /\ ~Start_Flag
            /\ end_sw_routine = en_sw_routineff
Accepted == /\ host = "waiting" /\ Silent /\ ~status /\ ~flag_intc
            /\ start /\ Startff /\ Start_Flag
            /\ end_sw_routine = en_sw_routineff

Running == /\ host = "waiting" /\ Silent /\ ~status /\ ~flag_intc
           /\ start /\ Startff /\ ~Start_Flag
           /\ ~end_sw_routine

\* END_SW_ROUTINE is set, its edge not yet seen; then the status is set, and
\* nothing happens until all harts sleep.
Ending == /\ host = "waiting" /\ Silent /\ ~status /\ ~flag_intc
          /\ start /\ Startff /\ ~Start_Flag
          /\ end_sw_routine /\ ~en_sw_routineff
Ended == /\ host = "waiting" /\ Silent /\ status /\ ~flag_intc
         /\ ~start /\ ~Start_Flag
         /\ end_sw_routine /\ en_sw_routineff

\* The pulse, then the interrupt pending at the host.
Signalled == /\ host = "waiting" /\ interrupt = ~irq /\ status /\ flag_intc
             /\ ~start /\ ~Startff /\ ~Start_Flag
             /\ end_sw_routine /\ en_sw_routineff
             /\ asleep

\* Whatever the program does after the host has reset START, it stays reset,
\* and the interrupt line still is a pulse.
Withdrawn == host = "withdrawn" /\ ~start /\ (interrupt => flag_intc)

CtrlTypeOK ==
  /\ start \in BOOLEAN /\ end_sw_routine \in BOOLEAN
  /\ Startff \in BOOLEAN /\ Start_Flag \in BOOLEAN
  /\ en_sw_routineff \in BOOLEAN
  /\ interrupt_controler \in [enable : BOOLEAN, status : BOOLEAN]
  /\ interrupt \in BOOLEAN /\ flag_intc \in BOOLEAN
  /\ irq \in BOOLEAN /\ asleep \in BOOLEAN

\* A program is always in one of the states above, in which the registers agree
\* with what the host knows of it.
Phases == /\ CtrlTypeOK
          /\ \/ Free \/ Launched \/ Accepted \/ Running
             \/ Ending \/ Ended \/ Signalled \/ Withdrawn
=============================================================================
