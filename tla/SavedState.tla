------------------------------ MODULE SavedState ------------------------------
(***************************************************************************)
(* Registers and stack through the assembly of the safety library          *)
(* (CB_Safety.c) and of the ROM (CB_boot_rom.S): the state that            *)
(* Safe_Activate saves for the harts that join, that Store_Checkpoint      *)
(* saves for a recovery, that halt_boot restores, and that the repair of   *)
(* the voted mode writes to the stack and reads back.                      *)
(*                                                                         *)
(* The routines are sequences of instructions, executed one by one by the  *)
(* harts in active: what they store and where is voted when they are       *)
(* three, and compared when they are two.  When the harts form and leave a *)
(* group is the matter of SafetySoftware; here a group once formed is      *)
(* kept.                                                                   *)
(*                                                                         *)
(* A value is <<origin, number>>: <<"s0", 2>> is what the program has left *)
(* in s0 the second time, <<"stack", a>> and <<"copy", k>> are the         *)
(* addresses of the a-th word of the stack (0 is the word the program      *)
(* found its stack pointer at, others are below) and of the k-th word of   *)
(* the saved state, <<"check", k>> of the area that Check_RF writes;       *)
(* <<c, n>> is the n-th instruction of routine c, and <<c, 0>> the one at  *)
(* which saved state resumes.                                              *)
(***************************************************************************)
EXTENDS Integers, Sequences, FiniteSets

CONSTANTS
  Modes,       \* the modes in which programs are run
  Fragile,     \* the registers that faults hit
  FaultyCode,  \* the routines in whose course faults hit, for each mode
  MaxRepairs   \* bound: repairs of the voted mode

ASSUME SavedStateAssumption == Modes \subseteq {"TCLS", "DCLS"} /\ MaxRepairs \in Nat

Hart   == 0..2
Master == 0
Victim == 1      \* the hart that faults hit; members of a group are alike

Group(m) == IF m = "TCLS" THEN Hart ELSE {0, 1}

(***************************************************************************)
(* Instructions, and the registers in the order in which they are saved.   *)
(***************************************************************************)
Csr  == <<"mstatus", "mie", "mtvec", "mepc", "mtval">>
Low  == <<"ra", "sp", "gp", "tp", "t0", "t1", "t2">>
Args == <<"s0", "s1", "a0", "a1", "a2", "a3", "a4", "a5", "a6", "a7", "s2",
          "s3", "s4", "s5", "s6", "s7", "s8", "s9", "s10", "s11">>
File == Low \o Args \o <<"t3", "t4", "t5", "t6">>

Elements(s) == {s[i] : i \in DOMAIN s}
Reg         == Elements(Csr) \cup Elements(File) \cup {"dpc"}

sw(r, k, base)  == <<"sw", r, base, k>>
lw(r, k, base)  == <<"lw", r, base, k>>
addi(r, s, k)   == <<"addi", r, s, k>>
mv(r, s)        == <<"mv", r, s>>
la(r, v)        == <<"la", r, v>>
beq(r, s, l)    == <<"beq", r, s, l>>
bnez(l)         == <<"bnez", l>>    \* the register that is tested is DMR_REC
label(l)        == <<"label", l>>
j(l)            == <<"j", l>>
call(f)         == <<"call", f>>
ret             == <<"ret">>
compute         == <<"compute">>    \* ordinary instructions
wfi             == <<"wfi">>
mret            == <<"mret">>
dret            == <<"dret">>

\* Stores of the registers s from word k of base on, or below it; and loads.
Stores(s, k, base) == [i \in DOMAIN s |-> sw(s[i], k + i - 1, base)]
Loads(s, k, base)  == [i \in DOMAIN s |-> lw(s[i], k + i - 1, base)]
Push(s, k) == [i \in DOMAIN s |-> sw(s[i], k - i, "sp")]
Pop(s, k)  == [i \in DOMAIN s |-> lw(s[i], k - i, "sp")]

\* Control and status registers go through t6.
Odd(i) == i % 2 = 1
Twice(n) == 1 .. 2 * n
CsrStores == [i \in Twice(5) |-> IF Odd(i) THEN mv("t6", Csr[(i + 1) \div 2])
                                 ELSE sw("t6", i \div 2 - 1, "t5")]
CsrLoads  == [i \in Twice(5) |-> IF Odd(i) THEN lw("t6", (i - 1) \div 2, "t5")
                                 ELSE mv(Csr[i \div 2], "t6")]
CsrPush   == [i \in Twice(5) |-> IF Odd(i) THEN mv("t6", Csr[(i + 1) \div 2])
                                 ELSE sw("t6", -31 - i \div 2, "sp")]
CsrPop    == [i \in Twice(5) |-> IF Odd(i) THEN lw("t6", -31 - (i + 1) \div 2, "sp")
                                 ELSE mv(Csr[i \div 2], "t6")]

Base       == <<"copy", 0>>     \* SAFE_COPY_ADDRESS
StackStart == <<"stack", 0>>    \* INITIAL_STACK_ADDR
Device     == <<"device", 0>>   \* the base address of control registers
PcWord     == 36
StackWord  == 37
Check      == <<"check", 0>>    \* CHECK_RAM_ADDRESS

(***************************************************************************)
(* The routines.                                                           *)
(***************************************************************************)
\* Mutant: the registers of the calling convention only.
SaveContext_NoThread == Stores(<<"ra", "sp", "gp">>, 5, "t5") \o Stores(<<"t0", "t1", "t2">>, 9, "t5")
                        \o Stores(Args \o <<"t3", "t4">>, 12, "t5")
SaveContext == Stores(Low \o Args \o <<"t3", "t4">>, 5, "t5")

\* The harts that join come in at the label.  They need the address of the
\* saved state in t5 there, so it is saved in the place of t5.
SafeActivateCode ==
  <<addi("sp", "sp", -4), sw("t5", 3, "sp"), sw("t6", 2, "sp"), la("t5", Base)>>
  \o CsrStores \o SaveContext
  \o <<sw("t5", 3, "sp"), lw("t6", 3, "sp"), sw("t5", 34, "t5"),
       lw("t6", 2, "sp"), sw("t6", 35, "t5"),
       la("t5", Device), la("t6", Device), la("t5", Base),
       label("resume"), la("t6", <<"Safe_Activate", 0>>), sw("t6", PcWord, "t5"),
       wfi,
       la("t5", Device), lw("t6", 2, "sp"), lw("t5", 3, "sp"), addi("sp", "sp", 4),
       ret>>

\* Mutant: the stack pointer stays below the temporaries.
CheckpointStack_Low ==
  <<mv("t2", "sp"), beq("t2", "t4", "registers"), addi("t3", "t5", StackWord),
    label("stack"), lw("t6", 0, "t2"), sw("t6", 0, "t3"), beq("t2", "t4", "registers"),
    addi("t3", "t3", 1), addi("t2", "t2", 1), j("stack"),
    label("registers")>>
\* The words from the stack pointer to the start of the stack, unless it is empty.
CheckpointStack ==
  <<addi("sp", "sp", 7), mv("t2", "sp"), beq("t2", "t4", "registers"),
    addi("t3", "t5", StackWord),
    label("stack"), lw("t6", 0, "t2"), sw("t6", 0, "t3"), beq("t2", "t4", "registers"),
    addi("t3", "t3", 1), addi("t2", "t2", 1), j("stack"),
    label("registers")>>

\* While the stack is copied the stack pointer is above the temporaries.
StoreCheckpointCode ==
  <<addi("sp", "sp", -7), sw("t2", 6, "sp"), sw("t3", 5, "sp"), sw("t4", 4, "sp"),
    sw("t5", 3, "sp"), sw("t6", 2, "sp"), la("t4", StackStart), la("t5", Base)>>
  \o CheckpointStack \o CsrStores
  \o <<sw("ra", 5, "t5"), sw("sp", 6, "t5"), addi("sp", "sp", -7)>>
  \o Stores(<<"gp", "tp", "t0", "t1">>, 7, "t5")
  \o <<lw("t2", 6, "sp"), sw("t2", 11, "t5")>> \o Stores(Args, 12, "t5")
  \o <<lw("t3", 5, "sp"), sw("t3", 32, "t5"), lw("t4", 4, "sp"), sw("t4", 33, "t5"),
       la("t6", <<"Store_Checkpoint", 0>>), sw("t6", PcWord, "t5"),
       lw("t6", 3, "sp"), sw("t6", 34, "t5"), lw("t6", 2, "sp"), sw("t6", 35, "t5"),
       lw("t2", 6, "sp"), lw("t3", 5, "sp"), lw("t4", 4, "sp"), lw("t5", 3, "sp"),
       lw("t6", 2, "sp"), addi("sp", "sp", 7),
       label("resume"), ret>>

\* Mutant: the stack pointer is not loaded again.
RestoreStack_Top ==
  <<label("store_stack"), la("t1", StackStart), beq("sp", "t1", "load_register"),
    addi("t2", "t5", StackWord),
    label("load_stack"), lw("t4", 0, "t2"), sw("t4", 0, "sp"), beq("sp", "t1", "load_register"),
    addi("t2", "t2", 1), addi("sp", "sp", 1), j("load_stack")>>
RestoreStack ==
  <<label("store_stack"), la("t1", StackStart), beq("sp", "t1", "load_register"),
    addi("t2", "t5", StackWord),
    label("load_stack"), lw("t4", 0, "t2"), sw("t4", 0, "sp"), beq("sp", "t1", "restore_sp"),
    addi("t2", "t2", 1), addi("sp", "sp", 1), j("load_stack"),
    label("restore_sp"), lw("sp", 6, "t5"), j("load_register")>>

RestoreLow == Loads(<<"ra", "sp", "gp", "tp">>, 5, "t5")

HaltBootCode ==
  <<la("t5", Base)>> \o CsrLoads \o RestoreLow
  \o <<la("t0", Device), bnez("store_stack"), label("load_register")>>
  \o Loads(<<"t0", "t1", "t2">> \o Args \o <<"t3", "t4">>, 9, "t5")
  \o <<lw("t6", PcWord, "t5"), mv("dpc", "t6"), lw("t6", 35, "t5"), lw("t5", 34, "t5"),
       dret>>
  \o RestoreStack

\* Every register is stored through the voter, and read back.  Mutant: t6 is
\* read back before the registers that go through it.
RepairBody_FileFirst == Push(File, 0) \o CsrPush \o Pop(File, 0) \o CsrPop
RepairBody == Push(File, 0) \o CsrPush \o CsrPop \o Pop(File, 0)

RecoverySyncCode ==
  <<addi("sp", "sp", -4), sw("a4", 3, "sp"), sw("a5", 2, "sp"),
    la("a4", Device), la("a5", Device), lw("a4", 3, "sp"), lw("a5", 2, "sp")>>
  \o RepairBody
  \o <<la("a5", Device), lw("a5", 2, "sp"), addi("sp", "sp", 4), mret>>

SafeFsmCode ==
  <<addi("sp", "sp", -4), sw("t5", 3, "sp"), sw("t6", 2, "sp"),
    la("t5", Device), la("t6", Device), lw("t5", 3, "sp"), lw("t6", 2, "sp"),
    addi("sp", "sp", 4), mret>>

\* The word of each register in the record: that of sp is written first where tp
\* comes, and a4 and a5 have t5 and t6 by then.
Recorded(r) == (CHOOSE i \in DOMAIN File : File[i] = r) - 1
\* Mutant: t5 is stored while it is still the stack pointer.
CheckFile_Late == Stores(Args \o <<"t3", "t4", "t5">>, 7, "t6")
CheckFile == Stores(Args \o <<"t3", "t4">>, 7, "t6") \o <<lw("t5", 3, "sp"), sw("t5", 29, "t6")>>
CheckRfCode ==
  <<addi("sp", "sp", -5), sw("t4", 4, "sp"), sw("t5", 3, "sp"), sw("t6", 2, "sp"),
    lw("a4", 3, "sp"), lw("a5", 2, "sp"), la("t6", Check), sw("ra", 0, "t6"),
    addi("t5", "sp", 5), sw("t5", 3, "t6")>>
  \o Stores(<<"gp", "tp", "t0", "t1", "t2">>, 2, "t6") \o CheckFile
  \o <<lw("t6", 2, "sp"), la("t5", Check), sw("t6", 30, "t5"),
       lw("t5", 3, "sp"), addi("sp", "sp", 5), ret>>

\* A program with a frame of two words, which it leaves before its last work.
MainCode ==
  <<addi("sp", "sp", -2), sw("ra", 1, "sp"), sw("s0", 0, "sp"), compute,
    call("Safe_Activate"), compute, call("Store_Checkpoint"),
    compute, sw("s0", 0, "sp"), compute, call("Store_Checkpoint"), compute,
    sw("s1", 0, "sp"), lw("s0", 0, "sp"), lw("ra", 1, "sp"), addi("sp", "sp", 2),
    call("Store_Checkpoint"), addi("sp", "sp", -2), sw("s0", 0, "sp"), compute,
    call("Check_RF"), compute,
    sw("s1", 1, "sp"), addi("sp", "sp", 2), label("resume")>>

Code == [Safe_Activate |-> SafeActivateCode, Store_Checkpoint |-> StoreCheckpointCode,
         Check_RF |-> CheckRfCode, halt_boot |-> HaltBootCode, handler_tmr_recoverysync |-> RecoverySyncCode,
         handler_safe_fsm |-> SafeFsmCode, main |-> MainCode]

\* The instruction at a label, and the place that a value stands for.
Find(c, l) == CHOOSE i \in DOMAIN Code[c] : Code[c][i] = label(l)
Place(v)   == IF v[2] = 0 THEN <<v[1], Find(v[1], "resume")>> ELSE v

Handlers == {"handler_tmr_recoverysync", "handler_safe_fsm"}

(***************************************************************************)
(* The harts that execute, and what the wrapper makes of them.             *)
(***************************************************************************)
VARIABLES
  mode,        \* of the group that the program will form
  active,      \* the harts that execute, as one
  pc,          \* their place in the code
  reg,         \* the registers of each hart
  mem,         \* the stack and the saved state
  recovering,  \* DMR_REC
  struck,      \* the harts that a fault has hit since the last repair began
  healing,     \* those that it had hit before
  repairs,     \* repairs begun
  entry,       \* registers and stack when a library routine was called,
  before,      \* when a repair began,
  snap         \* and when a checkpoint was complete, or None

vars == <<mode, active, pc, reg, mem, recovering, struck, healing, repairs,
          entry, before, snap>>

None  == [reg |-> <<>>, stack |-> <<>>]
Formed == active = Group(mode)
Instr == Code[pc[1]][pc[2]]
Op(o) == Instr[1] = o
After == <<pc[1], pc[2] + 1>>

\* What a set of harts drives: what most of them drive, and nothing when two
\* differ, which stops them.
Wire(f) == {v \in {f[h] : h \in DOMAIN f} :
              2 * Cardinality({h \in DOMAIN f : f[h] = v}) > Cardinality(DOMAIN f)}
Driven(f(_)) == Wire([h \in active |-> f(h)])

Set(r, v(_)) ==
  reg' = [h \in Hart |-> IF h \in active THEN [reg[h] EXCEPT ![r] = v(h)] ELSE reg[h]]

\* What a program can see of a hart: its registers and the stack in use.
Visible(R) == [r \in Reg \ {"dpc"} |-> R[r]]
Live(R, M) == [a \in R["sp"][2] .. 0 |-> M[<<"stack", a>>]]
State(R, M) == [reg |-> Visible(R), stack |-> Live(R, M)]

Differ == \E g, h \in active : Visible(reg[g]) # Visible(reg[h])

Steady == UNCHANGED <<mode, active, recovering, struck, healing, repairs, before>>

(***************************************************************************)
(* Instructions.                                                           *)
(***************************************************************************)
Offset(v, k) == <<v[1], v[2] + k>>
Address(h)   == Offset(reg[h][Instr[3]], Instr[4])
Data(h)      == reg[h][Instr[2]]

Arithmetic ==
  /\ pc' = After
  /\ \/ Op("addi") /\ Set(Instr[2], Address)
     \/ Op("la") /\ LET v(h) == Instr[3] IN Set(Instr[2], v)
     \/ Op("mv") /\ LET v(h) == reg[h][Instr[3]] IN Set(Instr[2], v)
  /\ Steady /\ UNCHANGED <<mem, entry, snap>>

Load ==
  /\ Op("lw")
  /\ \E a \in Driven(Address) : LET v(h) == mem[a] IN Set(Instr[2], v)
  /\ pc' = After
  /\ Steady /\ UNCHANGED <<mem, entry, snap>>

Store ==
  /\ Op("sw")
  /\ \E a \in Driven(Address), d \in Driven(Data) : mem' = [mem EXCEPT ![a] = d]
  /\ pc' = After
  /\ Steady /\ UNCHANGED <<reg, entry, snap>>

Jump ==
  /\ \/ /\ Op("beq")
        /\ LET next(h) == IF reg[h][Instr[2]] = reg[h][Instr[3]]
                          THEN <<pc[1], Find(pc[1], Instr[4])>> ELSE After
           IN pc' \in Driven(next)
     \/ Op("j") /\ pc' = <<pc[1], Find(pc[1], Instr[2])>>
     \/ Op("bnez") /\ pc' = IF recovering THEN <<pc[1], Find(pc[1], Instr[2])>> ELSE After
     \/ Op("ret") /\ LET next(h) == reg[h]["ra"] IN pc' \in Driven(next)
     \/ Op("label") /\ pc # Place(<<"Store_Checkpoint", 0>>) /\ pc # Place(<<"main", 0>>)
                    /\ pc' = After
  /\ Steady /\ UNCHANGED <<reg, mem, entry, snap>>

(***************************************************************************)
(* The program.                                                            *)
(***************************************************************************)
Plain == Elements(File) \ {"ra", "sp", "gp", "tp"}

Compute ==
  /\ Op("compute")
  /\ reg' = [h \in Hart |->
       IF h \in active THEN [r \in Reg |-> IF r \in Plain THEN <<r, reg[h][r][2] + 1>>
                                           ELSE reg[h][r]]
       ELSE reg[h]]
  /\ pc' = After
  /\ Steady /\ UNCHANGED <<mem, entry, snap>>

\* An error of a dual group shows before the next checkpoint: the checkpoint is
\* not the first to store the register that is wrong (ErrorsShow).
ErrorsShow == mode = "DCLS" /\ Instr[2] = "Store_Checkpoint" => ~Differ

Call ==
  /\ Op("call")
  /\ ErrorsShow
  /\ LET v(h) == After IN Set("ra", v)
  /\ pc' = <<Instr[2], 1>>
  /\ entry' = State(reg'[Master], mem)
  /\ Steady /\ UNCHANGED <<mem, snap>>

\* The end of a checkpoint, reached for the first time or by a recovery.
Checkpointed ==
  /\ pc = Place(<<"Store_Checkpoint", 0>>)
  /\ pc' = After
  /\ snap' = IF recovering THEN snap ELSE State(reg[Master], mem)
  /\ recovering' = FALSE
  /\ struck' = IF recovering THEN {} ELSE struck
  /\ entry' = IF recovering THEN snap ELSE entry
  /\ UNCHANGED <<mode, active, reg, mem, healing, repairs, before>>

\* What follows the end of the program is in SafetySoftware.
Ended == pc = Place(<<"main", 0>>) /\ UNCHANGED vars

(***************************************************************************)
(* The wrapper: harts join, a group is interrupted, repaired, recovered.   *)
(***************************************************************************)
Interrupted(handler, H) ==
  /\ reg' = [h \in Hart |-> IF h \in H THEN [reg[h] EXCEPT !["mepc"] = After]
                                          ELSE reg[h]]
  /\ pc' = <<handler, 1>>

\* The master sleeps and the others are halted; they sleep too and all of them
\* are interrupted.
Wfi ==
  /\ Op("wfi")
  /\ \/ /\ active = {Master}
        /\ active' = Group(mode) \ {Master}
        /\ pc' = <<"halt_boot", 1>>
        /\ UNCHANGED reg
     \/ /\ active # {Master}
        /\ active' = Group(mode)
        /\ Interrupted("handler_safe_fsm", Group(mode))
  /\ UNCHANGED <<mode, mem, recovering, struck, healing, repairs, entry, before, snap>>

\* A voting error interrupts the program or the library.
Repair ==
  /\ mode = "TCLS" /\ Formed
  /\ repairs < MaxRepairs
  /\ pc[1] \notin Handlers \cup {"halt_boot"}
  /\ LET v(h) == pc IN Set("mepc", v)
  /\ pc' = <<"handler_tmr_recoverysync", 1>>
  /\ repairs' = repairs + 1
  /\ before' = State(reg'[Master], mem)
  /\ healing' = struck
  /\ struck' = {}
  /\ UNCHANGED <<mode, active, mem, recovering, entry, snap>>

Return ==
  /\ \/ /\ Op("mret")
        /\ LET next(h) == reg[h]["mepc"] IN pc' \in Driven(next)
        /\ healing' = {}
     \/ /\ Op("dret")
        /\ LET next(h) == Place(reg[h]["dpc"]) IN pc' \in Driven(next)
        /\ UNCHANGED healing
  /\ UNCHANGED <<mode, active, reg, mem, recovering, struck, repairs, entry, before, snap>>

\* A difference between two harts stops them: they are isolated, put to sleep,
\* and halted with DMR_REC set.
Recover ==
  /\ mode = "DCLS" /\ Formed
  /\ ~recovering
  /\ Differ
  /\ recovering' = TRUE
  /\ pc' = <<"halt_boot", 1>>
  /\ UNCHANGED <<mode, active, reg, mem, struck, healing, repairs, entry, before, snap>>

\* One fault in one register of one hart.  In a dual group it comes after the
\* first checkpoint.
Fault ==
  /\ Formed /\ struck = {} /\ healing = {} /\ ~recovering
  /\ pc[1] \in FaultyCode[mode]
  /\ mode = "DCLS" => snap # None
  /\ repairs = 0 \/ pc[1] \in Handlers
  /\ \E r \in Fragile : reg' = [reg EXCEPT ![Victim][r] = Offset(@, 50)]
  /\ struck' = {Victim}
  /\ UNCHANGED <<mode, active, pc, mem, recovering, healing, repairs, entry, before, snap>>

(***************************************************************************)
(* The specification.                                                      *)
(***************************************************************************)
Depth == 60     \* words below the start of the stack that the routines may use

Init ==
  /\ mode \in Modes
  /\ active = {Master}
  /\ pc = <<"main", 1>>
  /\ reg = [h \in Hart |-> [r \in Reg |-> IF r = "sp" THEN <<"stack", -10 * h>>
                                         ELSE <<r, 10 * h>>]]
  /\ mem = [a \in ({"stack"} \X (-Depth .. 0)) \cup ({"copy", "check"} \X (0 .. Depth)) |->
              <<"word", a[2]>>]
  /\ recovering = FALSE
  /\ struck = {} /\ healing = {}
  /\ repairs = 0
  /\ entry = None /\ before = None /\ snap = None

Instruction == \/ Arithmetic \/ Load \/ Store \/ Jump \/ Compute \/ Call
               \/ Checkpointed \/ Wfi \/ Return
Next == Instruction \/ Ended \/ Repair \/ Recover \/ Fault
Spec == Init /\ [][Next]_vars

(***************************************************************************)
(* Properties.                                                             *)
(***************************************************************************)
\* The members of a group are alike in every register, from the instruction on
\* at which they join, and again when a repair or a recovery is complete.
MembersAgree ==
  pc[1] # "halt_boot" => \A g, h \in active \ (struck \cup healing) :
                            Visible(reg[g]) = Visible(reg[h])

\* A repair leaves every hart with the registers, and the stack with the words,
\* that the harts without a fault had when it began, whichever register the
\* fault has hit; a fault in its own course leaves only the hart it hits.
RepairHeals ==
  Op("mret") /\ pc[1] = "handler_tmr_recoverysync" =>
    \A h \in active \ struck : State(reg[h], mem) = before

\* What a hart recovers is what it had when the last checkpoint was complete:
\* every register, and every word of the stack in use.
RecoveryRestores ==
  recovering /\ pc = Place(<<"Store_Checkpoint", 0>>) =>
    \A h \in active : State(reg[h], mem) = snap

\* A call of the library keeps the registers that belong to its caller and the
\* caller's stack, also on the harts that have joined in the course of it, and
\* when a repair interrupts it.
CallsKeep ==
  Op("ret") => \A h \in active \ (struck \cup healing) :
    /\ \A r \in {"ra", "sp", "gp", "tp"} \cup Elements(SubSeq(File, 8, 9))
               \cup Elements(SubSeq(File, 18, 27)) : reg[h][r] = entry.reg[r]
    /\ Live(reg[h], mem) = entry.stack

\* Check_RF leaves a record of the registers as its caller had them, of the harts
\* without a fault, also when a repair interrupts it: of all but sp, which the
\* code overwrites, and a4 and a5, which it has used before.
RecordIsTheFile ==
  Op("ret") /\ pc[1] = "Check_RF" =>
    \A r \in Elements(File) \ {"sp", "a4", "a5"} :
      mem[<<"check", Recorded(r)>>] = entry.reg[r]
=============================================================================
