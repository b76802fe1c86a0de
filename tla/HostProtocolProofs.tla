-------------------------- MODULE HostProtocolProofs --------------------------
(***************************************************************************)
(* Proofs about HostProtocol, for any configuration registers and values:  *)
(* the registers and the host agree on the state of the program (Phases),  *)
(* and therefore the host sees one interrupt for each program it starts.   *)
(*                                                                         *)
(* The argument: on an edge on which the bus does not write START,         *)
(* END_SW_ROUTINE or INTERRUPT_CONTROLER, each phase leads to itself or to *)
(* the next one (HardwareEdge); each write of one of the three is made in  *)
(* one phase and leads to the next (StartEdge, EndEdge, ResetEdge).        *)
(***************************************************************************)
EXTENDS HostProtocol, TLAPS

AnyPhase == \/ Free \/ Launched \/ Accepted \/ Running
            \/ Ending \/ Ended \/ Signalled \/ Withdrawn

ResetStatus == Write("INTERRUPT_CONTROLER", [enable |-> TRUE, status |-> FALSE])

(***************************************************************************)
(* What one edge does to the registers of a program.                       *)
(***************************************************************************)
LEMMA EdgeClocks ==
  ASSUME NEW wr, Edge(wr), CtrlTypeOK
  PROVE  /\ wr.reg # "START" => start' = (start /\ ~enable_endSW)
         /\ wr.reg # "END_SW_ROUTINE" =>
              end_sw_routine' = (end_sw_routine /\ ~Start_Flag)
         /\ Startff' = start
         /\ Start_Flag' = start_rises
         /\ en_sw_routineff' = end_sw_routine
         /\ interrupt' = (status /\ load_intc(asleep))
         /\ flag_intc' = (status /\ (flag_intc \/ load_intc(asleep)))
<1>1. StartEndClock(wr) /\ InterruptClock(wr, asleep)
  BY DEF Edge, CtrlClock
<1>2. QED
  BY <1>1 DEF StartEndClock, InterruptClock, Loaded, status

LEMMA EdgeStatus ==
  ASSUME NEW wr, Edge(wr), CtrlTypeOK, wr.reg # "INTERRUPT_CONTROLER"
  PROVE  /\ interrupt_controler' \in [enable : BOOLEAN, status : BOOLEAN]
         /\ status' = (status \/ enable_endSW)
<1>1. interrupt_controler' =
        [interrupt_controler EXCEPT !.status = @ \/ enable_endSW]
  BY DEF Edge, CtrlClock, InterruptClock, Loaded
<1>2. QED
  BY <1>1 DEF CtrlTypeOK, status, enable_endSW

LEMMA EdgeTypes ==
  ASSUME NEW wr, Edge(wr), CtrlTypeOK,
         wr.reg \in {"START", "END_SW_ROUTINE"} => wr.val \in BOOLEAN,
         wr.reg = "INTERRUPT_CONTROLER" => wr = ResetStatus,
         irq' \in BOOLEAN, asleep' \in BOOLEAN
  PROVE  CtrlTypeOK'
<1>1. start' \in BOOLEAN /\ end_sw_routine' \in BOOLEAN
  BY DEF Edge, CtrlClock, StartEndClock, Loaded
<1>2. interrupt_controler' \in [enable : BOOLEAN, status : BOOLEAN]
  <2>1. CASE wr = ResetStatus
    BY <2>1 DEF Edge, CtrlClock, InterruptClock, Loaded, Write, ResetStatus
  <2>2. CASE wr.reg # "INTERRUPT_CONTROLER"
    BY <2>2, EdgeStatus
  <2>3. QED
    BY <2>1, <2>2
<1>3. QED
  BY <1>1, <1>2, EdgeClocks
     DEF CtrlTypeOK, enable_endSW, start_rises, load_intc, status

\* Nothing but the host brings START back once it has reset it.
LEMMA WithdrawnEdge ==
  ASSUME NEW wr, Edge(wr), wr.reg # "START", Withdrawn, host' = host, CtrlTypeOK
  PROVE  Withdrawn'
<1>1. /\ start' = (start /\ ~enable_endSW)
      /\ interrupt' = (status /\ load_intc(asleep))
      /\ flag_intc' = (status /\ (flag_intc \/ load_intc(asleep)))
  BY EdgeClocks
<1>2. QED
  BY <1>1 DEF Withdrawn

(***************************************************************************)
(* The bus does not write a register of the program: the hardware goes on. *)
(***************************************************************************)
LEMMA HardwareEdge ==
  ASSUME NEW wr,
         wr.reg \notin {"START", "END_SW_ROUTINE", "INTERRUPT_CONTROLER"},
         Edge(wr), Sleep, Pending, host' = host, CtrlTypeOK
  PROVE  /\ CtrlTypeOK'
         /\ Free => Free'
         /\ Launched => Accepted'
         /\ Accepted => Running'
         /\ Running => Running'
         /\ Ending => Ended'
         /\ Ended => Ended' \/ (asleep /\ Signalled')
         /\ Signalled => Signalled'
         /\ Withdrawn => Withdrawn'
<1>1. /\ start' = (start /\ ~enable_endSW)
      /\ end_sw_routine' = (end_sw_routine /\ ~Start_Flag)
      /\ Startff' = start
      /\ Start_Flag' = start_rises
      /\ en_sw_routineff' = end_sw_routine
      /\ interrupt' = (status /\ load_intc(asleep))
      /\ flag_intc' = (status /\ (flag_intc \/ load_intc(asleep)))
  BY EdgeClocks
<1>2. status' = (status \/ enable_endSW)
  BY EdgeStatus
<1>3. irq' = (irq \/ interrupt) /\ asleep' \in BOOLEAN
  BY DEF Pending, Sleep
<1>4. host = "waiting" /\ Over /\ asleep => asleep'
  BY DEF Sleep
<1>5. CtrlTypeOK'
  BY <1>3, EdgeTypes DEF CtrlTypeOK
<1>6. Free => Free'
  BY <1>1, <1>2, <1>3, <1>5
     DEF Free, Silent, CtrlTypeOK, enable_endSW, start_rises
<1>7. Launched \/ Accepted => start' /\ ~flag_intc' /\ ~status'
  <2>1. Launched \/ Accepted => ~enable_endSW
    BY DEF Launched, Accepted, enable_endSW
  <2>2. Launched \/ Accepted => start /\ ~status
    BY DEF Launched, Accepted
  <2>3. QED
    BY <1>1, <1>2, <2>1, <2>2
<1>8. Launched => Accepted'
  BY <1>1, <1>3, <1>5, <1>7
     DEF Launched, Accepted, Silent, CtrlTypeOK, start_rises
<1>9. Accepted => Running'
  BY <1>1, <1>3, <1>5, <1>7
     DEF Accepted, Running, Silent, CtrlTypeOK, start_rises
<1>10. Running => Running'
  BY <1>1, <1>2, <1>3, <1>5
     DEF Running, Silent, CtrlTypeOK, enable_endSW, start_rises
<1>11. Ending => Ended'
  BY <1>1, <1>2, <1>3, <1>5
     DEF Ending, Ended, Silent, CtrlTypeOK, enable_endSW, start_rises
<1>12. Ended => Ended' \/ (asleep /\ Signalled')
  BY <1>1, <1>2, <1>3, <1>4
     DEF Ended, Signalled, Silent, Over, CtrlTypeOK, enable_endSW,
         start_rises, load_intc, status
<1>13. Signalled => Signalled'
  BY <1>1, <1>2, <1>3, <1>4
     DEF Signalled, Over, CtrlTypeOK, enable_endSW, start_rises, load_intc,
         status
<1>14. Withdrawn => Withdrawn'
  BY WithdrawnEdge
<1>15. QED
  BY <1>5, <1>6, <1>8, <1>9, <1>10, <1>11, <1>12, <1>13, <1>14

\* The same for the two actions that leave the registers of the program alone.
LEMMA HardwareStep ==
  ASSUME Quiet \/ WriteConfig, CtrlTypeOK
  PROVE  /\ CtrlTypeOK'
         /\ Free => Free'
         /\ Launched => Accepted'
         /\ Accepted => Running'
         /\ Running => Running'
         /\ Ending => Ended'
         /\ Ended => Ended' \/ (asleep /\ Signalled')
         /\ Signalled => Signalled'
         /\ Withdrawn => Withdrawn'
<1>1. PICK wr : /\ Edge(wr)
                /\ wr.reg \notin {"START", "END_SW_ROUTINE",
                                  "INTERRUPT_CONTROLER"}
  <2>1. CASE Quiet
    BY <2>1 DEF Quiet, NoWrite
  <2>2. CASE WriteConfig
    BY <2>2, ConfigAssumption DEF WriteConfig, Write
  <2>3. QED
    BY <2>1, <2>2
<1>2. Sleep /\ Pending /\ host' = host
  BY DEF Quiet, WriteConfig
<1>3. QED
  BY <1>1, <1>2, HardwareEdge

(***************************************************************************)
(* The writes of the protocol.                                             *)
(***************************************************************************)
LEMMA StartEdge ==
  ASSUME Start, AnyPhase, CtrlTypeOK
  PROVE  CtrlTypeOK' /\ Free /\ Launched'
<1> DEFINE wr == Write("START", TRUE)
<1>1. /\ Edge(wr) /\ wr.reg = "START" /\ wr.val = TRUE
      /\ host = "free" /\ host' = "waiting"
      /\ irq' = (irq \/ interrupt) /\ asleep' \in BOOLEAN
  BY DEF Start, Write, Sleep, Pending
<1>2. Free
  BY <1>1 DEF AnyPhase, Launched, Accepted, Running, Ending, Ended, Signalled,
              Withdrawn
<1>3. CtrlTypeOK'
  BY <1>1, EdgeTypes DEF CtrlTypeOK
<1>4. start' = TRUE
  BY <1>1 DEF Edge, CtrlClock, StartEndClock, Loaded
<1>5. /\ end_sw_routine' = (end_sw_routine /\ ~Start_Flag)
      /\ ~Startff' /\ ~Start_Flag' /\ en_sw_routineff' = end_sw_routine
      /\ ~interrupt'
  BY <1>1, <1>2, EdgeClocks DEF Free, start_rises
<1>6. ~status'
  BY <1>1, <1>2, EdgeStatus DEF Free, enable_endSW
<1>7. QED
  BY <1>1, <1>2, <1>3, <1>4, <1>5, <1>6 DEF Free, Launched, Silent, CtrlTypeOK

LEMMA EndEdge ==
  ASSUME EndRoutine, host = "waiting", AnyPhase, CtrlTypeOK
  PROVE  CtrlTypeOK' /\ Running /\ Ending'
<1> DEFINE wr == Write("END_SW_ROUTINE", TRUE)
<1>1. /\ Edge(wr) /\ wr.reg = "END_SW_ROUTINE" /\ wr.val = TRUE
      /\ host = "waiting" /\ start /\ Startff /\ ~Start_Flag
      /\ ~end_sw_routine /\ host' = host
      /\ irq' = (irq \/ interrupt) /\ asleep' \in BOOLEAN
  BY DEF EndRoutine, Write, Sleep, Pending
<1>2. Running
  BY <1>1 DEF AnyPhase, Free, Launched, Accepted, Ending, Ended, Signalled,
              Withdrawn
<1>3. CtrlTypeOK'
  BY <1>1, EdgeTypes DEF CtrlTypeOK
<1>4. end_sw_routine' = TRUE
  BY <1>1 DEF Edge, CtrlClock, StartEndClock, Loaded
<1>5. ~enable_endSW /\ ~start_rises
  BY <1>1 DEF enable_endSW, start_rises
<1>6. /\ start' /\ Startff' /\ ~Start_Flag' /\ ~en_sw_routineff'
      /\ ~interrupt' /\ ~flag_intc'
  BY <1>1, <1>2, <1>5, EdgeClocks DEF Running
<1>7. ~status'
  BY <1>1, <1>2, <1>5, EdgeStatus DEF Running
<1>8. QED
  BY <1>1, <1>2, <1>3, <1>4, <1>6, <1>7 DEF Running, Ending, Silent

\* A program that is withdrawn ends: its host has given up on it.
LEMMA LateEndEdge ==
  ASSUME EndRoutine, host # "waiting", AnyPhase, CtrlTypeOK
  PROVE  CtrlTypeOK' /\ Withdrawn /\ Withdrawn'
<1> DEFINE wr == Write("END_SW_ROUTINE", TRUE)
<1>1. /\ Edge(wr) /\ wr.reg = "END_SW_ROUTINE" /\ wr.val = TRUE
      /\ host = "withdrawn" /\ host' = host
      /\ irq' = (irq \/ interrupt) /\ asleep' \in BOOLEAN
  BY DEF EndRoutine, Write, Sleep, Pending
<1>2. Withdrawn
  BY <1>1 DEF AnyPhase, Free, Launched, Accepted, Running, Ending, Ended,
              Signalled
<1>3. CtrlTypeOK'
  BY <1>1, EdgeTypes DEF CtrlTypeOK
<1>4. QED
  BY <1>1, <1>2, <1>3, WithdrawnEdge

LEMMA WithdrawEdge ==
  ASSUME Withdraw, AnyPhase, CtrlTypeOK
  PROVE  /\ CtrlTypeOK'
         /\ Launched \/ Accepted \/ Running \/ Ending
         /\ Withdrawn'
<1> DEFINE wr == Write("START", FALSE)
<1>1. /\ Edge(wr) /\ wr.reg = "START" /\ wr.val = FALSE
      /\ host = "waiting" /\ start /\ host' = "withdrawn"
      /\ irq' = (irq \/ interrupt) /\ asleep' \in BOOLEAN
  BY DEF Withdraw, Write, Sleep, Pending
<1>2. Launched \/ Accepted \/ Running \/ Ending
  BY <1>1 DEF AnyPhase, Free, Ended, Signalled, Withdrawn
<1>3. CtrlTypeOK'
  BY <1>1, EdgeTypes DEF CtrlTypeOK
<1>4. start' = FALSE
  BY <1>1 DEF Edge, CtrlClock, StartEndClock, Loaded
<1>5. interrupt' => flag_intc'
  BY <1>1, EdgeClocks
<1>6. QED
  BY <1>1, <1>2, <1>3, <1>4, <1>5 DEF Withdrawn

\* Enable and Serve write the same value: the status is reset, and no pulse
\* is on its way.
LEMMA ResetEdge ==
  ASSUME Enable \/ Serve, AnyPhase, CtrlTypeOK
  PROVE  /\ CtrlTypeOK'
         /\ Free'
         /\ Enable => Free
         /\ Serve => Signalled /\ irq
<1>1. /\ Edge(ResetStatus) /\ ResetStatus.reg = "INTERRUPT_CONTROLER"
      /\ host' = "free" /\ asleep' \in BOOLEAN
  BY DEF Enable, Serve, ResetStatus, Write, Sleep, CtrlTypeOK
<1>2. /\ Enable => Free /\ irq' = (irq \/ interrupt)
      /\ Serve => Signalled /\ irq /\ irq' = FALSE
  BY DEF Enable, Serve, Pending, AnyPhase, Free, Launched, Accepted, Running,
         Ending, Ended, Signalled, Withdrawn, Silent
<1>3. CtrlTypeOK'
  BY <1>1, <1>2, EdgeTypes DEF CtrlTypeOK
<1>4. ~status'
  BY <1>1 DEF Edge, CtrlClock, InterruptClock, Loaded, Write, ResetStatus,
              status
<1>5. ~irq' /\ ~interrupt'
  BY <1>1, <1>2, EdgeClocks DEF Free, Signalled, Silent, load_intc
<1>6. ~enable_endSW /\ ~start_rises /\ ~start /\ ~Start_Flag
  BY <1>2 DEF Free, Signalled, enable_endSW, start_rises
<1>7. /\ ~start' /\ ~Startff' /\ ~Start_Flag'
      /\ end_sw_routine' = (end_sw_routine /\ ~Start_Flag)
      /\ en_sw_routineff' = end_sw_routine
  BY <1>1, <1>6, EdgeClocks
<1>8. QED
  BY <1>1, <1>2, <1>3, <1>4, <1>5, <1>6, <1>7 DEF Free, Silent, CtrlTypeOK

(***************************************************************************)
(* Phases is an inductive invariant.                                       *)
(***************************************************************************)
LEMMA PhasesInit == Init => Phases
<1> SUFFICES ASSUME Init PROVE Phases
  OBVIOUS
<1>1. interrupt_controler = [enable |-> FALSE, status |-> FALSE]
  BY DEF Init, CtrlInit
<1>2. interrupt_controler \in [enable : BOOLEAN, status : BOOLEAN] /\ ~status
  BY <1>1 DEF status
<1>3. QED
  BY <1>2 DEF Init, CtrlInit, Phases, CtrlTypeOK, Free, Silent

LEMMA PhasesNext == Phases /\ [Next]_protocolVars => Phases'
<1> SUFFICES ASSUME Phases, [Next]_protocolVars
             PROVE  Phases'
  OBVIOUS
<1>1. CtrlTypeOK /\ AnyPhase
  BY DEF Phases, AnyPhase
<1>2. CASE Quiet \/ WriteConfig
  BY <1>1, <1>2, HardwareStep DEF Phases, AnyPhase
<1>3. CASE Start
  BY <1>1, <1>3, StartEdge DEF Phases
<1>4. CASE EndRoutine
  BY <1>1, <1>4, EndEdge, LateEndEdge DEF Phases
<1>8. CASE Withdraw
  BY <1>1, <1>8, WithdrawEdge DEF Phases
<1>5. CASE Enable \/ Serve
  BY <1>1, <1>5, ResetEdge DEF Phases
<1>6. CASE UNCHANGED protocolVars
  BY <1>6 DEF protocolVars, ctrlVars, jobVars, Phases, CtrlTypeOK, Free,
              Launched, Accepted, Running, Ending, Ended, Signalled, Withdrawn,
              Silent, status
<1>7. QED
  BY <1>2, <1>3, <1>4, <1>5, <1>6, <1>8 DEF Next

\* The registers and the host always agree on how far the program is.
THEOREM PhasesInvariant == Spec => []Phases
BY PhasesInit, PhasesNext, PTL DEF Spec

(***************************************************************************)
(* What the phases imply.                                                  *)
(***************************************************************************)
\* START and END_SW_ROUTINE are both set only while an edge that resets one
\* of them is on its way, and a program that is waited for leaves one set.
THEOREM BistableInvariant == Spec => []Bistable
<1>1. Phases => Bistable
  BY DEF Phases, CtrlTypeOK, Bistable, Free, Launched, Accepted, Running,
         Ending, Ended, Signalled, Withdrawn, start_rises, enable_endSW
<1>2. QED
  BY <1>1, PhasesInvariant, PTL

\* The interrupt line is never high on two edges in a row.
THEOREM Pulse == Spec => InterruptIsAPulse
<1>1. Phases /\ [Next]_protocolVars => [interrupt => ~interrupt']_protocolVars
  <2> SUFFICES ASSUME Phases, Next, interrupt
               PROVE  ~interrupt'
    OBVIOUS
  <2>1. CtrlTypeOK /\ flag_intc
    BY DEF Phases, Free, Launched, Accepted, Running, Ending, Ended,
           Signalled, Withdrawn, Silent
  <2>2. PICK wr : Edge(wr)
    BY DEF Next, Quiet, WriteConfig, Start, EndRoutine, Withdraw, Enable, Serve
  <2>3. QED
    BY <2>1, <2>2, EdgeClocks DEF load_intc
<1>2. QED
  BY <1>1, PhasesInvariant, PTL DEF Spec, InterruptIsAPulse

(***************************************************************************)
(* The registers implement the safety part of Offload.  What the host sees *)
(* in each phase, and the step of Offload that each step is:               *)
(*   Free -> Launched is Launch, Running -> Ending is End, Ended ->        *)
(*   Signalled is Signal, Signalled -> Free is Acknowledge, a step to      *)
(*   Withdrawn is Withdraw; every other step is Run, or a stutter.         *)
(***************************************************************************)
HostPhase == IF host = "withdrawn" THEN "withdrawn"
             ELSE IF irq \/ interrupt THEN "signalled"
             ELSE IF host = "free" THEN "free"
             ELSE IF Over THEN "ended" ELSE "running"

Seen == /\ Free => HostPhase = "free"
        /\ Launched \/ Accepted \/ Running => HostPhase = "running"
        /\ Ending \/ Ended => HostPhase = "ended"
        /\ Signalled => HostPhase = "signalled" /\ asleep
        /\ Withdrawn => HostPhase = "withdrawn"

LEMMA PhaseSeen == CtrlTypeOK => Seen
BY DEF Seen, HostPhase, CtrlTypeOK, Free, Launched, Accepted, Running, Ending,
       Ended, Signalled, Withdrawn, Silent, Over, start_rises

LEMMA StepSeen ==
  ASSUME Phases, Phases', Next
  PROVE  \/ HostPhase = "free" /\ HostPhase' = "running"
         \/ HostPhase = "running" /\ HostPhase' = "ended"
         \/ /\ HostPhase = "ended" /\ asleep
            /\ HostPhase' = "signalled" /\ asleep' = TRUE
         \/ HostPhase = "signalled" /\ HostPhase' = "free" /\ asleep' = asleep
         \/ HostPhase \in {"running", "ended"} /\ HostPhase' = "withdrawn"
         \/ HostPhase # "signalled" /\ HostPhase' = HostPhase
         \/ HostPhase' = HostPhase /\ asleep' = asleep
<1>1. CtrlTypeOK /\ CtrlTypeOK' /\ AnyPhase
  BY DEF Phases, AnyPhase
<1>2. Seen /\ Seen'
  <2>1. CtrlTypeOK' => Seen'
    BY PhaseSeen, PTL
  <2>2. QED
    BY <1>1, <2>1, PhaseSeen
<1>3. CASE Quiet \/ WriteConfig
  BY <1>1, <1>2, <1>3, HardwareStep DEF AnyPhase, CtrlTypeOK, Seen
<1>4. CASE Start
  BY <1>1, <1>2, <1>4, StartEdge DEF Seen
<1>5. CASE EndRoutine
  BY <1>1, <1>2, <1>5, EndEdge, LateEndEdge DEF Seen
<1>9. CASE Withdraw
  BY <1>1, <1>2, <1>9, WithdrawEdge DEF Seen
<1>6. CASE Enable
  BY <1>1, <1>2, <1>6, ResetEdge DEF Seen
<1>7. CASE Serve
  <2>1. asleep' = asleep
    BY <1>7 DEF Serve
  <2>2. QED
    BY <1>1, <1>2, <1>7, <2>1, ResetEdge DEF Seen
<1>8. QED
  BY <1>3, <1>4, <1>5, <1>6, <1>7, <1>9 DEF Next

\* One interrupt for every program, after its end, while every hart sleeps:
\* the registers implement the safety part of Offload.
THEOREM Implementation == Spec => OneInterruptPerProgram
<1>1. Init => HostView!OInit
  BY DEF Init, CtrlInit, HostView!OInit
<1>2. Phases /\ Phases' /\ [Next]_protocolVars
      => [HostView!ONext]_(HostView!offloadVars)
  <2> SUFFICES ASSUME Phases, Phases', [Next]_protocolVars
               PROVE  [HostView!ONext]_(HostView!offloadVars)
    OBVIOUS
  <2>1. CASE Next
    <3>1. asleep' \in BOOLEAN
      BY DEF Phases, CtrlTypeOK
    <3>2. QED
      BY <2>1, <3>1, StepSeen
         DEF HostPhase, HostView!ONext, HostView!Launch, HostView!End,
             HostView!Signal, HostView!Acknowledge, HostView!Withdraw,
             HostView!Run,
             HostView!Rest, HostView!offloadVars
  <2>2. CASE UNCHANGED protocolVars
    BY <2>2 DEF protocolVars, ctrlVars, jobVars, Over, start_rises,
                HostView!offloadVars
  <2>3. QED
    BY <2>1, <2>2
<1>3. QED
  BY <1>1, <1>2, PhasesInvariant, PTL
     DEF Spec, OneInterruptPerProgram, HostView!OSafety
=============================================================================
