# A verification project for EROS

EROS (*Extensible Reliable Offloading Solution*) is a memory-mapped accelerator
with three RISC-V harts.  A host loads a program, starts it, and is interrupted
when it has ended.  While it runs, the program itself chooses how its work is
protected: by one hart alone, by three voted harts (TMR, `TCLS`), by two compared
harts (DMR, `DCLS`), or by two compared harts one cycle apart (`LOCKSTEP`).

This directory holds TLA+ models of that mechanism, TLC configurations that check
them, and proofs that TLAPS checks.  The models follow the RTL and the software of
the repository, not its documentation.

## 1. The system

| part | source | state | operations |
|---|---|---|---|
| safety machines | `rtl/safe_FSM.sv` | general, single-core machine; a TMR and a DMR machine per hart; delay latch; postponed-error flip-flops | one transition of all of them per clock edge |
| control registers | `rtl/safe_wrapper_ctrl.sv`, `..._reg_top.sv` | configuration registers, START, END_SW_ROUTINE, interrupt enable and status, edge detectors | a write per edge from the host or a hart, loads by the hardware |
| private register | `rtl/cpu_private_reg.sv` | acknowledge bit per hart | set and reset by handlers |
| safe wrapper | `rtl/safe_cpu_wrapper.sv`, `tmr_voter.sv`, `dmr_comparator.sv`, `lockstep_reg.sv` | gated master register, isolation and delay registers | ties, isolates, holds and delays the buses of the harts |
| boot/debug ROM | `ip/CB_boot_rom/CB_boot_rom.S` | – | sleep after reset; on a debug request: boot a program, or restore saved state |
| safety library | `sw/CB_device/lib/safety` | saved state in memory | `Safe_Activate`, `Safe_Stop`, `Store_Checkpoint`, critical sections, `_exit`, handlers |
| start-up, vectors | `sw/CB_device/lib/crt` | – | to `main`; interrupt line to handler |
| lockstep pipeline | `rtl/lockstep_reg.sv`, `obi_sngreg.sv`, `obi_pipelined_delay.sv` | requests on their way, delayed answers and debug requests, answers owed | takes, passes, delays, clears on isolation |
| bus | `rtl/xbar_system.sv`, `bus_system.sv`, and the vendored crossbar | arbiters, one-outstanding-request gates | decode, arbitrate, answer |
| register port | `rtl/bus_system.sv`, `eros_xbar_varlat_n_to_one.sv`, `..._one_to_n.sv` | demultiplexers, neck, converter, multiplexer with the host | one register access at a time |
| address map | `rtl/include/eros_pkg.sv` | – | rules of each decoder |
| system calls | `sw/CB_device/lib/runtime/syscalls.c`, `handler.c` | break of the heap, errno (static variables) | heap, stubs, standard output, default handlers |
| AES library | `sw/CB_device/lib/AES` | a context of round keys and vector | key schedule; a block; chaining and counter mode |
| applications | `sw/applications` | registers and stack | tests of AES, `hello_world`, the two templates |
| register headers | `sw/CB_device/lib/cb_register`, `base_address` | – | names for addresses and bits |
| host | outside of the repository | – | configure, start, serve the interrupt, reset START |

How they interact:

* the machines read registers, sleep, debug and acknowledge signals, and drive
  halt requests and interrupts to the harts, and the enables of voter and
  comparators in the wrapper;
* the wrapper decides which harts execute the same instructions, on whose bus;
* the software reads and writes the registers, sleeps, and acknowledges; so the
  order of its stores decides what the machines see on which edge;
* the host shares the registers with the software;
* an error in a dual mode takes a program's registers and stack back to its last
  checkpoint, at any time; static variables, heap, and what was written stay.

What makes it hard: seven or more machines are clocked together and hand over to
each other by pulses of one edge; a program changes its own harts' mode while it
runs, so its code has to be correct for one, two and three executing harts; two
registers reset each other through edge detectors; a fault can hit any of the
steps; host and software write the same registers.  The list is in `PROJECT.json`
under "hazards", each entry at its line.

What makes each part correct:

* machines: the modes exclude each other; a hart is booted or restored only when
  it should be; each group that is formed is left again;
* wrapper: harts that execute together are in the same place, harts outside of the
  group do not execute the program; the bus of a group does not move;
* library: work is protected as asked; saved state is consistent;
* registers: START and END_SW_ROUTINE, one interrupt for each program, after its end;
* lockstep pipeline: no false alarm however slow the bus; the bus sees the program's
  requests once and in order; each hart is answered, also across a stop;
* bus and register port: every answer reaches who asked, nobody starves;
* address map and headers: an address means the same to the host, to fetches and to data
  accesses, and a name means the bits that the hardware has for it;
* system calls and applications: a program gives the right answer and the heap stays
  whole, however often it is taken back;
* AES: each round is that of the standard; what one device codes another one reads;
* all together: every program ends, a disagreement is repaired, the accelerator
  comes to rest.

## 2. Modules

```
SafeWrapperCtrl ---- HostProtocol ------ HostProtocolProofs
       |                  |  \                    .
       |            MCHostProtocol  Offload        .
       |                           (abstract)      .
SafeCpuWrapper == INSTANCE SafeFSM                 .
       |                                           .
SafetySoftware                                     .
       |                                           .
ErosSystem                                         .
       |                                           .
ErosProperties == INSTANCE Offload,                .
       |     \    INSTANCE HostProtocol            .
    MCEros   ErosInvariant -- ErosProofs == INSTANCE HostProtocolProofs

RrArbTree -- CommonProofs --+-- BusProofs (SystemBus, RegisterPort, AddressMap)
                            +-- BlockModesProofs (BlockModes)
RrArbTree ----- SystemBus, RegisterPort
LockstepReg --- LockstepProofs
RegisterFile -- AddressMap     SavedState --+-- MCSavedState
                                            +-- SavedStateProofs

Aes ------+-- Applications == INSTANCE AesReference
Syscalls -+        |      \
             MCApplications  ApplicationsProofs
BlockModes --- MCBlockModes
```

Applications and BlockModes take a checkpoint and a recovery as one step each: that the one
saves and the other brings back registers and stack is what SavedState shows
(`RecoveryRestores`).
SavedState looks inside of the library calls and the restoring boot that SafetySoftware
takes as a few steps: the one says when the harts restore, the other what they restore.
The other lower modules look at one wire-level edge of parts that the upper ones take as one
bus operation.  They meet at the assumptions of the upper ones: that an access is granted
at last (`NobodyStarves`, `RegistersAreShared`), that a follower is its master one edge
later and that only a fault makes them differ (`NoFalseAlarm`, `BusRunsProgram`), and that
the group stopped by the comparator sleeps and is started again (`StoppedHartsRestart`).

* **SafeFSM**: the machines.  Each `..Next` operator is the case statement of one
  machine, `FsmClock` one rising edge of all of them, the operators before them the
  outputs.  Vectors of one bit per hart are sets of harts.  The unreachable default
  branches of the case statements are left out.
* **SafeWrapperCtrl**: the registers and the logic around them.  `CtrlClock(wr, ..)`
  is an edge on which the bus writes `wr`, or nothing; `Loaded` states that a write
  wins over a load by the hardware.
* **SafeCpuWrapper**: the harts' signals, `Group` (the harts that are tied together),
  `Followers` (in lockstep), `Isolated`, `Blocked` (held by a comparator), `Steppers`
  (the sets of harts that can execute an instruction as one), and `Clock`, an edge
  of the whole wrapper.
* **SafetySoftware**: what the harts execute.  A hart is its mode, its place in the
  code, the call of the program it is in, its return place and its acknowledge bit.
  One action is one instruction that others can observe, with the computation before
  it.  A program is a sequence of library calls and of `work`.
* **ErosSystem**: the above with a host and with faults.  `Next` is one edge: the host
  writes a register, or some harts execute, or a fault begins, or only the hardware
  moves.
* **ErosProperties**: what is promised; **MCEros**: what the host runs in each run.
* **Offload**: what the host may rely on: a program it starts runs, ends, and is
  signalled once, at rest.
* **HostProtocol**: the registers of SafeWrapperCtrl between a host and a program of
  which only the rules they obey are known.  It lies between ErosSystem and Offload
  and is small enough to be proved about.
* **LockstepReg**: two harts in lockstep, the pipeline of NCYCLES stages between them and a
  bus.  `Request`, `Takes`, `Answer`, `Granted` and `BusRequest` are the wires between two
  edges, the `..Next` operators the registers, `Clock` an edge on which the bus grants or
  answers or not.  A request is the number of a step of a cyclic program; a hart asks next
  what follows from the answers it has had, after a pause that is free.
* **RrArbTree**: the round-robin arbiter of n inputs.  The tree that grants and the
  leading-zero counters that move the priority are separate operators, as they are separate
  circuits.  `Node(i)[l]` is the node of level l that input i is below; `Winners` are the
  inputs that win at every node above them.
* **SystemBus**: masters with decoders, slaves with arbiters.  `Edge` is one clock edge on
  which masters ask for anything, slaves answer and grant.  `me`, `asked` and `waited`
  follow one master to see how long it waits.
* **RegisterPort**: the data ports' demultiplexers, the neck with its state machine, and the
  multiplexer in front of the register file.
* **RegisterFile**: what the headers call each register and field, and what the register
  files have there.
* **AddressMap**: the rules of each decoder as sets of ranges, in 32 bits, and the addresses
  that software and processors have built in; its variables are an address and who asks.
* **Aes**: the tables and steps of the block cipher, a function of the code each; `Cipher` is
  cut into its rounds (`CipherRound`), because an error may come between two of them.
  **AesReference** is the standard as algebra over polynomials, without a table: what the
  rounds are compared with.
* **Syscalls**: the break of the heap, the stubs, `_write`.
* **Applications**: the programs over both, one action per step that a recovery may come
  between; printf of the C library with its stream, which is external; and a program that
  makes any system calls, takes any exception and checkpoints at will.  `frame` is what a
  recovery brings back; `stream`, `brk`, `errno`, `written` and `outside` are not.
* **BlockModes**: a device that encrypts a message and one that decrypts what the first has
  written, in chunks, with any permutation as cipher.  `Pass` is a pass through the loop of a
  library function, `Through` its effect on buffer and vectors.
* **SavedState**: the routines of the library and of the ROM that save, restore and repair
  registers and stack, as sequences of instructions with the offsets of the source, and one
  action per kind of instruction.  The harts of a group execute as one; what they store, and
  where, and to where they jump is voted or compared (`Wire`).  A value is named by where it
  comes from, so that a word that is swapped, left out or stale is seen.  `Call` and
  `Compute` are the program, `Wfi`, `Repair` and `Recover` what the wrapper makes of a
  group, at the places where SafetySoftware does.
* **ErosInvariant**: where machines, harts, registers and host are in each phase of a program
  in the voted and the single mode; the inductive invariant of **ErosProofs**.
* **HostProtocolProofs**, **ErosProofs**, **BusProofs** (bus, register port,
  address map), **LockstepProofs**, **SavedStateProofs**, **ApplicationsProofs**,
  **BlockModesProofs**: theorems.  **CommonProofs**: what they share, which is induction and recursion over natural
  numbers, and the arbiter.

Definitions whose comment says *Mutant* are plausible bugs next to the definition
they change.  Nothing uses them; substituted for it, they make the properties fail.

### Abstractions

* *One bus operation per edge.*  An edge carries at most one instruction of one unit
  of harts, or one write of the host.  The RTL allows a host write and a hart's access
  on the same edge, on different slaves; they commute, except in their effect on the
  same register, where the bus serialises them.  How long an access takes is free:
  any number of hardware edges may come in between.
* *Data.*  Outside of SavedState and of the modules about applications, program results,
  addresses, register contents are left out.  The saved
  state records which call each of its parts was saved by.
* *Group.*  Harts in a group fetch through one bus, hence are one unit.  That they
  really are in the same place is a property (`GroupAgrees`), and units whose
  members differ do not step.
* *Lockstep.*  A follower takes the state of its master one edge later (NCYCLES = 1).
* *Faults.*  A fault makes one member of the group drive a different request.  A voter
  outvotes it on that edge; a comparator holds the group until it is isolated.
* *Registers* are in SavedState only, and there it is not modelled when the machines move.
  Only the registers and words that the assembly touches matter; instructions on values that
  nothing restores (addresses of devices, delays) are one step.
* *Interrupts* are taken between instructions of the program and the library, where
  they are enabled, not in handlers nor in the ROM.

## 3. Runs

Bounds are constants of the modules, such as `MaxFaults` faults and programs of up to fourteen
calls.  There are always three harts.  A job is what the host configures and runs, how often it
starts it (`starts`), with the places where faults may hit it (`faulty`), and whether the
host may reset START before its end (`stopped`).

| run | asks | bounds |
|---|---|---|
| Eros | one stream, agreement and protection of every step; boot and restore at the right time; the group's bus; one interrupt for each program, at rest, and rest after a reset of START; critical sections, postponed repairs, recoveries that end; Offload is implemented and HostProtocol obeyed | every pair of redundant modes, each left to core 0 or 1; the two template applications; stops in three modes with two masters; two programs in succession in each starting mode; two faults, in the voted mode and in the dual modes after the first checkpoint, but for the places named below |
| HostProtocol | the control registers give one interrupt for each program | one configuration register for all of them |
| Lockstep | no false alarm, right requests to the bus, right answers, no standstill | one stage, two granted requests without an answer, programs of three steps with any pauses of 0 or 1 edge, a fault for each start |
| SystemBus | answers to who asked, one winner, no starvation | three masters, a quick slave, a remote one, the error slave |
| RegisterPort | the same for the control registers, with the host | three harts and the host |
| AddressMap | one meaning for each address and each name | the 16 bytes before, at and after each limit of a rule, and 16 KiB after it; every address built in |
| SavedState | what a restore, a repair and a call leave in registers, stack and record | a voted and a dual group; one fault in one hart, in one of five registers of different kinds; one repair; a program with a frame of two words, three checkpoints, one of them with an empty stack, and a record of its registers |
| Applications | right answers, a heap that stays whole, rounds as in the standard | two recoveries, two calls of `_write` that seem to have written less than all; the texts of the program; a heap of three units, addresses of five bits, seven increments |
| BlockModes | the message is read, its code is the one code | messages of four and five pieces with two equal blocks and a short piece, chunks of one to three, two recoveries, blocks of two bytes from 0 to 3 |
| FaultAtStop, LockstepOwed, AxiMap | a property that the code does not have, each | as the passing run of the same module |

Two programs in succession are enough for leftovers of one to meet the next: the
registers and latches that survive a program are reached with all their values after
one.  Two mode changes are enough for the same reason inside of a program.  Two
faults are the least with which the toggling flip-flop of a critical section, a fault
in a repair, and a fault after a recovery occur.  Steps numbered modulo three tell the
two outstanding requests of a hart from each other and from the next.  Three inputs are
the least with which the tree of an arbiter has two levels and an unused leaf.

In BlockModes two recoveries are enough for each device to be taken back once while the other
reads or writes, and one device twice to the same place; bytes from 0 to 3 let the counter
carry into its first byte within the message.  In Applications the largest increments lead
around the end of the address space, and three units are two for buffers that survive a
recovery and one for a program that asks again.  RoundsAreAes compares the steps with the
algebra at every state of the programs, not for every block and key: the tables are met at
the bytes that forty words of keys and six blocks lead to.  In AddressMap the rules are the
real ones: only the addresses are samples, of which a limit that is off by one is one.

In SavedState a fault may come at each instruction of the program, and in the voted mode of
`Store_Checkpoint` and of the repair itself; a repair interrupts any instruction of the
program and of the library.  The five registers are the stack pointer, one that the routines
work with (t6), one that a handler works with (a5), one that is only saved (s5) and a control
register (mepc).  In the dual mode faults come after the first checkpoint and show before the
next one is begun (`ErrorsShow`); without that assumption RecoveryRestores does not hold, see
below.  One fault at a time is what a voter and a comparator are for; a repair is over before
another fault comes, or the fault hits in its course.

Deadlock is checked in every run, but `Edge` (nothing but the
hardware moves) is always enabled, so a system that stops shows as a liveness failure.

### What the failing runs show

1. **FaultAtStop**: `Safe_Stop` ends in a wfi without a loop; the repair interrupt of a
   voting error at that place wakes the harts behind it, still voted.
2. **LockstepOwed**: `instr_expected_rvalid` holds one bit for each hart, but the prefetch
   buffer may have two granted requests without an answer.  A hart isolated in that
   state is given one answer, never sleeps, and the recovery waits for all harts to sleep.
3. **AxiMap**: GLOBAL_END_ADDRESS adds GLOBAL_BASE_ADDRESS to an address that already
   contains it.  In 32 bits the sum lies below the start of the range, so the one rule of
   the AXI wrapper matches nothing.

### What else the model shows, and the runs avoid

Each of these can be seen with another job in MCEros, or in SavedState.

* A reset of START while a single core runs takes the single-core machine to
  SINGLE_SYNC_OFF (`safe_FSM.sv:302`), which waits for all harts to be awake; two of them
  sleep in the ROM, and the accelerator never comes to rest (job
  `Job(0, {0, 1}, 0, <<Wrk, Wrk>>)` with `stopped`, StopSettles).
* A program that ends in lockstep leaves SAFE_CONFIGURATION at 11 and the delay latch set;
  if the host then writes 10, the next program runs in dual-core mode with the delay
  (jobs `Job(3, {0, 1}, 0, <<Wrk>>)` and `Job(2, {0, 1}, 0, <<Wrk>>)`, two starts,
  seen at `safe_FSM.sv:763`).  In the runs, programs in lockstep leave it by `Safe_Stop`.
* `Safe_Stop` writes MASTER_CORE while the group still runs on the old master;
  `dmr_error_s` selects by the new one and does not see the difference that the old
  one's comparator holds the group for (`DualJobs` with a fault at `stop_conf`,
  RecoveryEnds).
* `Store_Checkpoint` overwrites the only saved state, stack, registers and program
  counter in turn; an error in between restores a mixture (`DualJobs` with a fault at
  `ckpt_regs`, RestoresOneState).  SavedState shows the same without a fault in its course,
  when `Store_Checkpoint` is the first to store the register that is wrong: the comparator
  stops it with the new stack written and the old registers still there (without
  `ErrorsShow`, RecoveryRestores).
* While `Store_Checkpoint` copies the stack its temporaries lie below the stack pointer, and
  the frame of a repair that comes then is pushed over them: t2 to t6 are lost.  The calling
  convention lets them be, so CallsKeep is about the registers that a caller keeps.
* `Safe_Activate` does not bring t5 back: line 142 stores the address of the saved state over
  the word that lines 144 and 184 call the true value of t5.  The harts that join need that
  address there; t5, too, is the compiler's to lose.
* A voting error at the wfi of `_exit` wakes the harts into the loop behind it; the host
  is told that the program has ended, and the next one never runs (`VotedJobs` with a
  fault at `exit_wfi`, two starts, ProgramsEnd).

* A program that gives back to the system memory that it held at its last checkpoint, and is
  then recovered, holds a block above the break (Applications without `MayKeep`, BlocksApart).
* `Check_RF` writes sp where tp comes next, and has a4 and a5 in use when it records them: its
  record is that of the other registers (RecordIsTheFile for sp, a4, a5).

The run Eros also leaves out what comes before the first checkpoint in a dual mode, and
the very store that enters a critical section, for which "a first fault in the section"
has no clear meaning.

## 4. Fairness

`Spec` of ErosSystem assumes that
* the clock never stops (`WF(Next)`);
* each hart that can go on does so at last (`WF(HartProgress(h))`): the harts'
  accesses are granted at last, which `NobodyStarves` and `RegistersAreShared` check of
  the bus and of the register port, and every slave answers;
* the host goes on at last (`WF(HostStep)`): it configures, starts, and serves its
  interrupts.  In jobs that may be stopped, the reset of START is one of its steps and
  comes at any edge of the program, or after it has ended.

`FairSpec` of LockstepReg assumes that the clock runs, that the bus neither ignores a
request for ever nor leaves one without an answer, and that a hart which is fed with wfi
instructions executes one (a strong fairness for each hart: it is fed one on infinitely
many edges).  Without the last, a hart could fetch for ever what it never executes.

Nothing is assumed about faults and recoveries.  The other modules have no
fairness: their properties are about safety.  That nobody starves is stated as a bound
on the grants to others, which is stronger than a liveness property.

## 5. Proofs

`HostProtocolProofs` proves, for every set of configuration registers and every set of
values written to them:

* `PhasesInvariant`: a program is always in one of seven phases (`Free`, `Launched`,
  `Accepted`, `Running`, `Ending`, `Ended`, `Signalled`), or has been given up by the host
  (`Withdrawn`), each of which fixes START,
  END_SW_ROUTINE, their edge detectors, the interrupt status and what the host
  waits for;
* `Pulse` (`InterruptIsAPulse`, for which no run is spent), `BistableInvariant`: the interrupt
  line is high for one cycle; START and
  END_SW_ROUTINE are both set only while an edge that resets one is on its way;
* `Implementation`: the registers implement the safety part of Offload.

*Why the phases are needed.*  That there is one interrupt for each program is not
inductive: with `flag_intc` cleared and the status set, or with START set and its edge
already seen while END_SW_ROUTINE is left over, a second interrupt could follow.
Phases says which combinations of the edge detectors, the flag and the status occur.

*The argument.*  The register writes are of two kinds.  A write of a configuration
register, and no write, let the hardware go on: each phase leads to itself or to the
next (`HardwareEdge`).  Writes of START, END_SW_ROUTINE and INTERRUPT_CONTROLER are made
in one phase and lead to the next (`StartEdge`, `EndEdge`, `ResetEdge`).  The refinement
maps the phases to those of Offload (`PhaseSeen`), and each step to one of its actions
or a stutter (`StepSeen`).

*What it rests on.*  `ConfigAssumption`: a configuration register is not one of the three
above.  And the rules of HostProtocol, that ErosSystem obeys them (`ObeysProtocol`, a
refinement too): ErosProofs proves it for programs in the voted and the single mode, TLC checks
it for the others.  Together:

    ErosSystem  ==>  HostProtocol  =(TLAPS)=>  safety of Offload.

### The accelerator in the voted mode

`ErosProofs` proves of ErosSystem, under the hypothesis `VotedUse` of ErosInvariant:

* `VotedInvariant`: one of 22 phases holds in every reachable state;
* `OneStreamHolds`, `GroupAgreesHolds`, `WorkIsProtectedHolds`, `StopLeavesHolds`,
  `BootIsRightHolds`, `RestoresOneStateHolds`, `InterruptMeansDoneHolds`, `IdleIsQuietHolds`,
  `TypesHold`: the invariants of the run Eros of the same names;
* `MasterKeepsBusHolds`: its action property;
* `Obedience` (ObeysProtocol), and by it, and by the theorems of HostProtocolProofs
  instantiated in the system, `OneInterrupt` (the safety part of Offload) and `OnePulse`;
* `CriticalHolds` (CriticalIsUndisturbed), under a second hypothesis, `CriticalUse`;

and without that hypothesis, for every job, mode and fault:

* `Typing`, `Encodings`: no machine ever leaves its encoding, of any environment whose voter
  is a wire, and in the system.

*What VotedUse says.*  Of each job: it starts in the single or the voted mode, any hart being
the master; its program is any sequence, of any length, of the calls of the library, with any
arguments, but that Safe_Activate asks for the voted mode; the host lets it end; no fault hits
the wfi of `Safe_Stop` or the one of `_exit`.  How many faults there are, where else they
hit, how often and in what order the host starts which job, is free.  The jobs `VotedJobs`
of the run Eros, and those of `StartJobs` in these modes, are of this kind.  The last
condition is needed: FaultAtStop is the counterexample to StopLeaves without it, and section 3
has that of `_exit`.

*Why the phases are needed.*  None of the properties is inductive.  That the machine forms a
group only of sleeping harts depends on what the master has saved before it slept, that
on the acknowledge bits and on INITIAL_SYNC_MASTER, and that on which call of the program
was last; that the program goes on alone behind `Safe_Stop` depends on which of
two machines sees the sleeping harts first, and on no repair being due.  A phase (`Reset`,
`Boot`, `Idle`, four of the single mode, six of `Safe_Activate`, `Sync`, `Repair`, `Repaired`,
`Parting` and `Handover` of `Safe_Stop`, four of a program that starts and ends in the voted
mode) fixes the state of all machines, and for each hart its mode and the
places where it may be, with the call of the program that brings it there
(`Leads`), the saved state, the register SAFE_CONFIGURATION and the phase of HostProtocol.

*The argument.*  What executes is one group that moves as one, with at most one write on the
register bus, whatever the instruction is (`Turn`): the harts of the voted group, by
`Together`, or the master alone.  So a step is a turn, an edge at which nobody writes, a
write of the host, or a fault, with the same edge of registers and machines behind it.  Base and Common0
are what holds in every phase.  Each phase has a lemma `From...` that says where its steps
lead: by instruction, by what the machines see on that edge.  Handlers are the same in
each phase in which they occur, with what a repair and a synchronisation may interrupt.  The
properties follow from the phases one by one (`VotedHolds`).

*Critical sections.*  The phases do not know when an error is remembered.  `CriticalInv` adds
that harts enter a section with nothing to repair, and that at the first fault in one nothing
is remembered yet: so the flip-flop that toggles is set by it, and not cleared.  What a store
of CRITICAL_SECTION does to the flip-flop depends on what the machines see on the same edge.
CriticalUse says of each job that no fault hits that store, as in the run, and that the call
right after the one that leaves a section does not enter the next: in the model these two
stores may be one edge apart, and a fault between them would be postponed by the first and
repaired in the second section; programs have more instructions in between.

Before they were proved, TLC checked VotedInv and CriticalInv as invariants of the jobs
of the run Eros that the hypotheses admit.

*What it rests on.*  `JobsAssumption`: jobs have registers and programs of the types that
the code has.

`BusProofs` proves, for any number of masters, of quick and of remote slaves:

* `Typing`: arbiters, decoders and slaves hold no index outside of their ranges;
* `AnswersAreRight`: a slave that answers is heard by the master whose request it has
  taken, and by no other, although nothing on the wires says whose answer it is.

* `OneIsGranted`: among any requests an arbiter grants exactly one;
* `NoStarvation`: a master that keeps asking is granted before its slave has granted every
  other master once.

AnswersReachTheirMaster is inductive together with the types.  The argument follows the
ways in which an edge changes who waits for whom: a slave takes the request of a master
only when that master waits for nobody else or is answered on this edge (`Passes`), and
only when it has answered, or answers, the last (`Answers` for quick slaves, `Serial`, an
assumption, for remote ones).

The other two rest on `CommonProofs`, about the tree and the counters of any number of
inputs.  `OneWins`: one input wins.  It goes down from the root: on every level the inputs that
have won so far are below one node, and on the level of the inputs that is one input.
`NextIsCloser`: the counters move the priority to a request nearer to any input that is
passed over, and never past it.  NobodyStarves is not inductive: `WaitIsBounded` adds that
the grants a master has waited for, and the way (`Distance`) from the priority to it, are
together less than a round.  An edge that grants another takes at least one from the way.

Of the address map, which has no parameters, the module proves for every address what the run
checks around the limits of the ranges:

* `EverywhereOnePlace`, and `OnePlace` (OneAddressOnePlace): an address of the memory or of
  the ROM leads fetches, data accesses and the host to the same place;
* `NowhereAlias`, and `Apart` (NoAlias): two addresses that lead to one bank are different
  words there.

The rules of each decoder are intervals; two of them are compared where they overlap.
`NamesAgree` (RegistersAgree) goes through the registers and fields that headers and register
files both name.

Of the register port it proves, for any number of harts:

* `AnswersAreHeard`: an answer of the registers is heard by the hart that had them, and
  by no other, also when the host comes in between;
* `NobodyIsKeptOut`: the bounds on the time for which a hart, or the host, waits.

The invariant adds that the neck is closed for one edge only (`NeverClosed`), that the host is
kept waiting only while the multiplexer points at it next (`HostWaits`), and, for a hart, that
what it has waited, twice its way from the priority of the neck, and one if the multiplexer
points at the host, are less than two rounds (`HartWaits`): two arbiters in a row, of which
each must move on.

`LockstepProofs` proves, for the one stage that eros_pkg.sv asks for (NCYCLES = 1), programs of
any length with any pauses, one or two requests without an answer, and faults:

* `NoErrorWithoutFault` (NoFalseAlarm), `BusSeesProgram` (BusRunsProgram),
  `HartsHearRight` (RightAnswers).

*Why more is needed.*  That the comparator agrees says nothing of the next edge: the follower
must ask then what leaves the pipeline then.  The invariant therefore says of each hart how far
it is in the program, relative to the last request on the bus, and how many answers it is
owed (`FollowerRight`, `LeaderRight`), and that the follower has waited since its
answers as long as the leader had one edge ago (`Together`).  A fault spoils one of the three; as
long as the comparator agrees, or for the one edge until it stops the harts, the others
carry BusRunsProgram (`Syncs`, `Stops`).  When both harts sleep, nothing is on its way
(`NoneRuns`), which needs `SlavesAreQuick`; then one edge apart they are woken (`LeadRuns`).

`SavedStateProofs` proves, for any set of registers that a fault may hit, wherever in the code
it may hit them, and any number of repairs:

* `GroupsAgree` (MembersAgree), `RepairsHeal` (RepairHeals), `RecoveriesRestore`
  (RecoveryRestores), `CallsKeepTheCallers` (CallsKeep), `RecordsAreTheFile` (RecordIsTheFile);
* `RoutinesHold`: the invariant `Holds` that they follow from.

*What they rest on.*  `SavedStateAssumption`, that registers, routines and modes are those of
the code; and the hypothesis that no fault comes while the dual mode is inside
`Store_Checkpoint`, without which an error restores a mixture (section 3).  Like the run,
they rest on `ErrorsShow`: that an error is seen before the next checkpoint is begun.  A fault
in the course of the repair of the voted mode, which the run has too, is covered.

*Why more is needed.*  What a routine leaves behind is the work of some sixty instructions
of which each relies on those before it: that the word it loads is still the one that was
stored, that its stack lies where no other store goes, that the temporary it counts with is
the one that the loop began with.  `Holds` is an assertion before each instruction of each
routine, as in a proof of a sequential program: `Activates`, `Checkpoints`, `Records`,
`Wakes`, `Heals`, `Boots`, `Recovers`.  Around them stands what makes one program out of several harts:
the group is alone, boots, joins, works, is repaired or recovers (`Alone`, `Booting`,
`Joining`, `Working`, `Repairing`, `Recovering`), and in each of these a hart that is
neither struck nor healing leads the others, so that what they put on the voted wires is
what it puts there (`Leads`, `DrivenIs`).  A repair comes between any two instructions and uses the
stack below sp.  Assertions about a routine that it may interrupt therefore never speak of words
there, and the copy of the stack that `Store_Checkpoint` makes is asserted in the dual mode only,
where no repair comes and where a recovery needs it (`Backed`).  The instructions, some 350, are
spelled out once (`SaText` and its like), each step is a lemma about one hart with registers R and
memory M, and the harts are put together after that.  TLC has checked `Holds`
as an invariant of the run's instance, in its 900,781 states.

`BlockModesProofs` proves, for every size of blocks, every cipher that its inverse undoes,
every message, every cut into chunks and any number of recoveries:

* `Reading` (MessageIsRead): whatever the decrypting device writes is the message;
* `Coding` (CodeIsRight): whatever stands outside is the one code of the message.

*What they rest on.*  `BlockModesAssumption` and `CipherAssumption`, of which the second
asks no more than that decryption undoes encryption and exclusive or undoes itself; and the
hypothesis `IsCode`, which says what a code is: the blocks of the message chained, or its
pieces under the key stream of a vector that is incremented from piece to piece (`Chain`).
It is a hypothesis about constants, since the code of a message is a recursion over it;
`CodeExists` proves that every message has one.

*The argument.*  Neither property is inductive: what a device writes next is right only if
its vector is the one that goes with its place in the message, in its context as well as in
the checkpoint that an error may bring back.  `IInv` adds, for both devices and both
checkpoints, that the vector is `Chain` at the piece reached, that the pieces of the chunk
behind the loop are what they are to become, and that those before it are still what was
read; in chaining mode the vector is the one behind the pointer while a chunk is encrypted.
What is read is what the other device has written, so that CodeIsRight is part of what the
reader needs (`Take`); nothing depends on when a checkpoint is taken, for `IInv` says the same
of a checkpoint as of a device (`Recover`).

`ApplicationsProofs` proves, for every size of the heap that is not 0, number of addresses,
set of increments and number of recoveries:

* `HeapInvariant`, and by it `BlocksStayApart` (BlocksApart): the blocks that a program holds do
  not overlap and lie below the break.

BlocksApart is not inductive, because a recovery brings back the blocks that the frame held at
the last checkpoint.  `HeapInv` says of the saved frame what it says of the running one, together
with the buffer of the stream, which no recovery takes back; and who may hold blocks at all
(`Kept`).  It rests on `SyscallsAssumption` and `ApplicationsAssumption`: the heap ends before
the address space does, and increments are signed numbers as wide as addresses.  With an empty
heap `_sbrk(0)` and a request that fails are alike; the linker script gives the heap 2048 bytes.
* `AnswersAreRight` (AnswerIsRight): a program of the tests that ends tells the right answer,
  whatever it or a recovery has written before, however often it is taken back.

The second has a hypothesis about the cipher, `CipherAnswers(words, e, d)`: that the passes of
key expansion, of encryption and of decryption lead from the key and the block of the tests
over `words`, `e` and `d` to the code that the tests expect, and back.  What 40 words of key
schedule and 2 x 11 passes over the tables come to is a computation and not an argument: the run
Applications goes through those very passes, and RoundsAreAes compares each of them with the
standard.  The proof needs them as values, because a recovery may take the program back
to any of them.  `AnswerInv` says for each place of a program, and for the checkpoint as for
the running frame, which of these values context, buffer and counters hold there; and of
what is written, that the last whole line is the answer once the program has printed it, since
what comes later (of a line that a recovery cut short) is not whole.

*Induction.*  The induction theorems of the library take an operator, which no prover here
can instantiate.  `CommonProofs` proves from the well-foundedness of the natural numbers that a set
of them has a least element (`Least`) and that a function defined by recursion exists
(`Recursion`); the proofs about trees and chains argue with the least number that lacks a
property.

*Only model-checked*:

* ErosProperties in the dual modes and lockstep, and when the host withdraws a program:
  there the invariant would have to follow two harts that are not in the same place, and
  recoveries that take the program back;
* RoundsAreAes (the tables of AES, over every byte of a few blocks);
* SavedState with a fault while `Store_Checkpoint` of the dual mode writes, where
  RecoveryRestores does not hold (section 3);
* liveness, which is out of reach of the proof system (fairness, ENABLED): StopSettles,
  PostponedRepairHappens, RecoveryEnds, and the liveness part of ImplementsOffload.

No module has a RECURSIVE operator.

## 6. Not modelled

* Lockstep: the data port as a twin of the instruction port, byte enables between
  requests (the comparator looks at them), branches in the prefetch buffer.  The model
  assumes that the bus has answered before isolated harts are asleep (`SlavesAreQuick`).
* Bus: the contents of memories; remote slaves are assumed to serve one request after
  the other (`Serial`).
* Which signal of a hart differs, and double faults in different harts at once.
* Library functions on interrupt lines that are tied to 0
  (`handler_tmr_dmcontext_copy`, `handler_tmr_dmshsync`; `safe_cpu_wrapper.sv:238`), and the default handlers of such interrupts in `handler.c`.
* In SavedState: faults in the memory and in two harts, a fault that a handler of the dual
  mode sees, and what a fault does to the instruction that is fetched (harts that are to
  execute different instructions do not go on).
* AES: keys of 192 and 256 bits (`aes.h` compiles neither); what `printf` writes, byte for
  byte; the C library, but for its stream and the buffer it takes for it.
* Where the linker script puts data, heap and stack: sums of the sizes of a program (see the
  hazard about the saved state in the same memory).
* CB_HEEP_STATUS and address registers, debugger code, byte enables and errors of the
  register files, `init.c` (returns 0), headers of CSR names and status codes that nothing
  here uses (`csr_registers.h`, `absl_status.h`, `encoding.h`), protocol adapters but for the
  range of the AXI one, memories, simulation and FPGA models, generators, vendored code that
  is not on the way of a request.

## 7. How it was ordered, and what would come next

The machines, the library and the host came first, because every promise of the accelerator
is theirs; then the wires below them whose behaviour they take for granted (lockstep
pipeline, bus, register port, address map); then what a recovery brings back, instruction by
instruction; last the programs, which rely on all of it.  What is worth adding, in this order:

1. **Faults** before the first checkpoint, and in the stores and handlers that form and
   leave a group; masks and masters outside of the documented combinations; a host that
   writes the interrupt status as 1.
2. **Prefetch**: branches in lockstep, the data port beside the instruction port, and
   slow slaves across a stop.
3. **Theorems**: the phases of the dual modes, of recoveries and of a withdrawal beside those of
   ErosInvariant; the pipeline of LockstepReg for more than the one stage that is built.
