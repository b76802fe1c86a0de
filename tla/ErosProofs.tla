------------------------------ MODULE ErosProofs ------------------------------
(***************************************************************************)
(* The safety of the accelerator with its boot ROM, its library and its    *)
(* host: proofs of the properties of ErosProperties for programs that use  *)
(* the voted mode and the single mode (VotedUse).  VotedInv, which says    *)
(* where machines, harts, registers and host are in each phase of such a   *)
(* program, is inductive; the properties and the refinements of            *)
(* HostProtocol and of Offload follow from it.                             *)
(*                                                                         *)
(* The proof goes from the bottom to the top:                              *)
(*   - what a step does to the harts: one group of them moves as one, with *)
(*     one write on the register bus (Turn), whatever the instruction is;  *)
(*   - what an edge does to the registers, and to the machines;            *)
(*   - types, and what does not depend on the phase (Base, Common0);       *)
(*   - one lemma for each phase: where a step leads from there (From...);  *)
(*   - the invariant, what it says of each property, and the theorems.     *)
(***************************************************************************)
EXTENDS ErosInvariant, FiniteSetTheorems, TLAPS

\* The registers of the wrapper are those of HostProtocol; its theorems.

Registers == INSTANCE HostProtocolProofs WITH
  host <- CASE host = "wait" -> "waiting"
            [] host = "stopped" -> "withdrawn"
            [] OTHER -> "free",
  asleep <- FSM!AllAsleep,
  ConfigRegister <- {"SAFE_CONFIGURATION", "DMR_MASK", "MASTER_CORE",
                     "CRITICAL_SECTION", "INITIAL_SYNC_MASTER"},
  ConfigValue <- [SAFE_CONFIGURATION |-> FSM!Configuration,
                  DMR_MASK |-> SUBSET FSM!Hart,
                  MASTER_CORE |-> {{h} : h \in FSM!Hart},
                  CRITICAL_SECTION |-> BOOLEAN,
                  INITIAL_SYNC_MASTER |-> BOOLEAN]

Common == INSTANCE CommonProofs

LEMMA HartIs == Hart = {0, 1, 2} /\ FSM!Hart = Hart
BY DEF Hart, FSM!Hart

DualOff == /\ \/ dmr = [h \in Hart |-> "DMR_IDLE"]
              \/ dmr = [h \in Hart |-> "DMR_RESET"]
           /\ ~delay_ff

LEMMA NoDual ==
  ASSUME DualOff
  PROVE  /\ \A S : "DMR_IDLE" \notin S /\ "DMR_RESET" \notin S => FSM!DmrIn(S) = {}
         /\ ~Comparing /\ Isolated = {} /\ Followers = {} /\ Blocked = {}
         /\ Voting => Group = Hart
         /\ ~Voting => Group = {}
<1>1. \A h \in Hart : dmr[h] = "DMR_IDLE" \/ dmr[h] = "DMR_RESET"
  BY DEF DualOff
<1>2. ASSUME NEW S, "DMR_IDLE" \notin S, "DMR_RESET" \notin S PROVE FSM!DmrIn(S) = {}
  BY <1>1, <1>2 DEF FSM!DmrIn, Hart
<1>3. /\ FSM!DmrIn({"DMR_START", "DMR_BOOT", "DMR_MS_INTRSYNC", "DMR_SYNC",
                 "DMR_STOP", "DMR_INTC_RECOVERY", "DMR_RECOVERY"}) = {}
      /\ FSM!DmrIn({"DMR_STOP"}) = {}
  BY <1>2
<1>4. ~Comparing /\ Isolated = {}
  BY <1>3 DEF Comparing, Isolated, FSM!Dmr_comparator_enable, FSM!wfi_dmr, FSM!DmrComparing
<1>5. Followers = {} /\ Blocked = {}
  BY <1>4 DEF Followers, Blocked
<1>6. (Voting => Group = Hart) /\ (~Voting => Group = {})
  BY <1>4 DEF Group, Hart
<1> QED BY <1>2, <1>4, <1>5, <1>6

LEMMA NobodyRepeats ==
  ASSUME DualOff
  PROVE  \A f : Repeating(f) = [h \in Hart |-> f[h]]
<1>1. Followers = {}
  BY NoDual
<1> QED BY <1>1 DEF Repeating, Hart

LEMMA DualSignals ==
  ASSUME DualOff
  PROVE  /\ FSM!SwitchToSingle = FSM!Switch_TMRtoSingle
         /\ FSM!Interrupt_Sync = FSM!TmrIn({"TMR_MS_INTRSYNC"}) \cup FSM!Switch_TMRtoSingle
         /\ FSM!Interrupt_Halt = FSM!TmrIn({"TMR_START"})
              \cup (FSM!Switch_SingletoTMR \ master_core)
              \cup (IF single = "SINGLE_START" THEN master_core ELSE {})
         /\ ~FSM!DMR_Rec
         /\ FSM!Start_Boot <=> safe = "SINGLE_MODE" \/ FSM!TmrIn({"TMR_START", "TMR_BOOT"}) # {}
         /\ ~FSM!Delaying
         /\ FSM!Switch_DMRtoSingle = {}
         /\ FSM!halt_req <=> FSM!Switch_SingletoTMR \cap master_core # {}
<1>1. \A S : "DMR_IDLE" \notin S /\ "DMR_RESET" \notin S => FSM!DmrIn(S) = {}
  BY NoDual
<1>2. /\ FSM!DmrIn({"DMR_END_SYNC"}) = {} /\ FSM!DmrIn({"DMR_MS_INTRSYNC"}) = {}
      /\ FSM!DmrIn({"DMR_SH_HALT"}) = {}
      /\ FSM!DmrIn({"DMR_START", "DMR_INTC_RECOVERY"}) = {}
      /\ FSM!DmrIn({"DMR_INTC_RECOVERY", "DMR_RECOVERY"}) = {}
      /\ FSM!DmrIn({"DMR_START", "DMR_BOOT"}) = {}
      /\ FSM!DmrIn(FSM!DmrComparing \ {"DMR_STOP"}) = {}
  BY <1>1 DEF FSM!DmrComparing
<1>3. /\ FSM!Switch_DMRtoSingle = {} /\ FSM!Switch_SingletoDMR = {}
  BY <1>2 DEF FSM!Switch_DMRtoSingle, FSM!Switch_SingletoDMR
<1> QED BY <1>2, <1>3 DEF FSM!SwitchToSingle, FSM!Interrupt_Sync, FSM!Interrupt_Halt, FSM!DMR_Rec, FSM!Start_Boot, FSM!Delaying, FSM!halt_req

LEMMA DualStaysOff ==
  ASSUME DualOff, FSM!FsmClock, safe # "DMR_MODE"
  PROVE  dmr' = [h \in Hart |-> "DMR_IDLE"] /\ ~delay_ff'
<1>1. ASSUME NEW h \in Hart PROVE FSM!DmrNext(h) = "DMR_IDLE"
  <2>1. dmr[h] = "DMR_IDLE" \/ dmr[h] = "DMR_RESET"
    BY DEF DualOff
  <2> QED BY <2>1 DEF FSM!DmrNext
<1>2. dmr' = [h \in Hart |-> FSM!DmrNext(h)]
  BY DEF FSM!FsmClock, Hart
<1>3. ~delay_ff'
  BY DualSignals DEF FSM!FsmClock, FSM!DelayNext, DualOff
<1> QED BY <1>1, <1>2, <1>3

\* Who moves as one.
LEMMA UnitsVoted ==
  ASSUME DualOff, Voting, NEW S, NEW G \in Within(S)
  PROVE  G = Hart \cap S /\ G # {}
<1>1. Group = Hart /\ Followers = {}
  BY NoDual
<1>2. Units = {Hart}
  BY <1>1 DEF Units, Hart
<1> QED BY <1>2 DEF Within

LEMMA UnitsAlone ==
  ASSUME DualOff, ~Voting, NEW S, NEW G \in Within(S)
  PROVE  \E h \in Hart \cap S : G = {h}
<1>1. Group = {} /\ Followers = {}
  BY NoDual
<1>2. Units = {{}} \cup {{h} : h \in Hart}
  BY <1>1 DEF Units, Hart
<1>3. PICK u \in Units : G = u \cap S /\ G # {}
  BY DEF Within
<1>4. PICK h \in Hart : u = {h}
  BY <1>2, <1>3
<1> QED BY <1>3, <1>4

(***************************************************************************)
(* One hart for all that move as one.                                      *)
(***************************************************************************)
Rec(m, l, n, r, a) == [mode |-> m, loc |-> l, op |-> n, ret |-> r, ack |-> a]
Becomes(G, d) == core' = [h \in Hart |-> IF h \in G THEN d ELSE core[h]]
AllAre(G, c) == c \in CoreState /\ G \subseteq Hart /\ \A h \in G : core[h] = c

Goes(c, l) == Rec(c.mode, l, c.op, c.ret, c.ack)
Returns(c) == Rec(c.mode, "main", c.op + 1, c.ret, c.ack)
Acks(c, a, l) == Rec(c.mode, l, c.op, c.ret, a)
Dozes(c) == Rec("sleep", c.loc, c.op, c.ret, c.ack)
Sets(c, l) == Acks(c, TRUE, l)
Clears(c, l) == Acks(c, FALSE, l)
Resets(c) == Rec(c.mode, "main", c.op + 1, c.ret, FALSE)

LEMMA RecordLoc ==
  ASSUME NEW c \in CoreState, NEW l
  PROVE  [c EXCEPT !.loc = l] = Goes(c, l)
BY DEF CoreState, Rec, Goes

LEMMA RecordNext ==
  ASSUME NEW c \in CoreState
  PROVE  [c EXCEPT !.loc = "main", !.op = @ + 1] = Returns(c)
<1>1. c = Rec(c.mode, c.loc, c.op, c.ret, c.ack)
  BY DEF CoreState, Rec
<1>2. [c EXCEPT !.loc = "main", !.op = @ + 1]
        = [[c EXCEPT !.loc = "main"] EXCEPT !.op = c.op + 1]
  OBVIOUS
<1>3. [Rec(c.mode, c.loc, c.op, c.ret, c.ack) EXCEPT !.loc = "main"]
        = Rec(c.mode, "main", c.op, c.ret, c.ack)
  BY DEF Rec
<1>4. [Rec(c.mode, "main", c.op, c.ret, c.ack) EXCEPT !.op = c.op + 1]
        = Rec(c.mode, "main", c.op + 1, c.ret, c.ack)
  BY DEF Rec
<1> QED BY <1>1, <1>2, <1>3, <1>4, Zenon DEF Returns

LEMMA RecordAck ==
  ASSUME NEW c \in CoreState, NEW a, NEW l
  PROVE  [c EXCEPT !.ack = a, !.loc = l] = Acks(c, a, l)
<1>1. c = Rec(c.mode, c.loc, c.op, c.ret, c.ack)
  BY DEF CoreState, Rec
<1>2. [c EXCEPT !.ack = a, !.loc = l]
        = [[c EXCEPT !.ack = a] EXCEPT !.loc = l]
  OBVIOUS
<1>3. [Rec(c.mode, c.loc, c.op, c.ret, c.ack) EXCEPT !.ack = a]
        = Rec(c.mode, c.loc, c.op, c.ret, a)
  BY DEF Rec
<1>4. [Rec(c.mode, c.loc, c.op, c.ret, a) EXCEPT !.loc = l]
        = Rec(c.mode, l, c.op, c.ret, a)
  BY DEF Rec
<1> QED BY <1>1, <1>2, <1>3, <1>4, Zenon DEF Acks

LEMMA RecordSleep ==
  ASSUME NEW c \in CoreState
  PROVE  [c EXCEPT !.mode = "sleep"] = Dozes(c)
BY DEF CoreState, Rec, Dozes

LEMMA RecordBoot ==
  ASSUME NEW c \in CoreState, NEW m, NEW l, NEW n
  PROVE  [c EXCEPT !.mode = m, !.loc = l, !.op = n] = Rec(m, l, n, c.ret, c.ack)
<1>1. c = Rec(c.mode, c.loc, c.op, c.ret, c.ack)
  BY DEF CoreState, Rec
<1>2. [c EXCEPT !.mode = m, !.loc = l, !.op = n]
        = [[[c EXCEPT !.mode = m] EXCEPT !.loc = l] EXCEPT !.op = n]
  OBVIOUS
<1>3. [Rec(c.mode, c.loc, c.op, c.ret, c.ack) EXCEPT !.mode = m]
        = Rec(m, c.loc, c.op, c.ret, c.ack)
  BY DEF Rec
<1>4. [Rec(m, c.loc, c.op, c.ret, c.ack) EXCEPT !.loc = l]
        = Rec(m, l, c.op, c.ret, c.ack)
  BY DEF Rec
<1>5. [Rec(m, l, c.op, c.ret, c.ack) EXCEPT !.op = n]
        = Rec(m, l, n, c.ret, c.ack)
  BY DEF Rec
<1> QED BY <1>1, <1>2, <1>3, <1>4, <1>5, Zenon

LEMMA RecordEnter ==
  ASSUME NEW c \in CoreState, NEW m, NEW l, NEW n, NEW r
  PROVE  [c EXCEPT !.mode = m, !.loc = l, !.op = n, !.ret = r] = Rec(m, l, n, r, c.ack)
<1>1. c = Rec(c.mode, c.loc, c.op, c.ret, c.ack)
  BY DEF CoreState, Rec
<1>2. [c EXCEPT !.mode = m, !.loc = l, !.op = n, !.ret = r]
        = [[[[c EXCEPT !.mode = m] EXCEPT !.loc = l] EXCEPT !.op = n] EXCEPT !.ret = r]
  OBVIOUS
<1>3. [Rec(c.mode, c.loc, c.op, c.ret, c.ack) EXCEPT !.mode = m]
        = Rec(m, c.loc, c.op, c.ret, c.ack)
  BY DEF Rec
<1>4. [Rec(m, c.loc, c.op, c.ret, c.ack) EXCEPT !.loc = l]
        = Rec(m, l, c.op, c.ret, c.ack)
  BY DEF Rec
<1>5. [Rec(m, l, c.op, c.ret, c.ack) EXCEPT !.op = n]
        = Rec(m, l, n, c.ret, c.ack)
  BY DEF Rec
<1>6. [Rec(m, l, n, c.ret, c.ack) EXCEPT !.ret = r]
        = Rec(m, l, n, r, c.ack)
  BY DEF Rec
<1> QED BY <1>1, <1>2, <1>3, <1>4, <1>5, <1>6, Zenon

LEMMA RecordInterrupt ==
  ASSUME NEW c \in CoreState, NEW m, NEW l, NEW r
  PROVE  [c EXCEPT !.mode = m, !.ret = r, !.loc = l] = Rec(m, l, c.op, r, c.ack)
<1>1. c = Rec(c.mode, c.loc, c.op, c.ret, c.ack)
  BY DEF CoreState, Rec
<1>2. [c EXCEPT !.mode = m, !.ret = r, !.loc = l]
        = [[[c EXCEPT !.mode = m] EXCEPT !.ret = r] EXCEPT !.loc = l]
  OBVIOUS
<1>3. [Rec(c.mode, c.loc, c.op, c.ret, c.ack) EXCEPT !.mode = m]
        = Rec(m, c.loc, c.op, c.ret, c.ack)
  BY DEF Rec
<1>4. [Rec(m, c.loc, c.op, c.ret, c.ack) EXCEPT !.ret = r]
        = Rec(m, c.loc, c.op, r, c.ack)
  BY DEF Rec
<1>5. [Rec(m, c.loc, c.op, r, c.ack) EXCEPT !.loc = l]
        = Rec(m, l, c.op, r, c.ack)
  BY DEF Rec
<1> QED BY <1>1, <1>2, <1>3, <1>4, <1>5, Zenon

LEMMA RecordReset ==
  ASSUME NEW c \in CoreState, NEW a
  PROVE  [c EXCEPT !.ack = a, !.loc = "main", !.op = @ + 1] = Rec(c.mode, "main", c.op + 1, c.ret, a)
<1>1. c = Rec(c.mode, c.loc, c.op, c.ret, c.ack)
  BY DEF CoreState, Rec
<1>2. [c EXCEPT !.ack = a, !.loc = "main", !.op = @ + 1]
        = [[[c EXCEPT !.ack = a] EXCEPT !.loc = "main"] EXCEPT !.op = c.op + 1]
  OBVIOUS
<1>3. [Rec(c.mode, c.loc, c.op, c.ret, c.ack) EXCEPT !.ack = a]
        = Rec(c.mode, c.loc, c.op, c.ret, a)
  BY DEF Rec
<1>4. [Rec(c.mode, c.loc, c.op, c.ret, a) EXCEPT !.loc = "main"]
        = Rec(c.mode, "main", c.op, c.ret, a)
  BY DEF Rec
<1>5. [Rec(c.mode, "main", c.op, c.ret, a) EXCEPT !.op = c.op + 1]
        = Rec(c.mode, "main", c.op + 1, c.ret, a)
  BY DEF Rec
<1> QED BY <1>1, <1>2, <1>3, <1>4, <1>5, Zenon

LEMMA RecordReturn ==
  ASSUME NEW c \in CoreState, NEW l
  PROVE  [c EXCEPT !.loc = l, !.ret = "none"] = Rec(c.mode, l, c.op, "none", c.ack)
<1>1. c = Rec(c.mode, c.loc, c.op, c.ret, c.ack)
  BY DEF CoreState, Rec
<1>2. [c EXCEPT !.loc = l, !.ret = "none"]
        = [[c EXCEPT !.loc = l] EXCEPT !.ret = "none"]
  OBVIOUS
<1>3. [Rec(c.mode, c.loc, c.op, c.ret, c.ack) EXCEPT !.loc = l]
        = Rec(c.mode, l, c.op, c.ret, c.ack)
  BY DEF Rec
<1>4. [Rec(c.mode, l, c.op, c.ret, c.ack) EXCEPT !.ret = "none"]
        = Rec(c.mode, l, c.op, "none", c.ack)
  BY DEF Rec
<1> QED BY <1>1, <1>2, <1>3, <1>4, Zenon


LEMMA MovesAck ==
  ASSUME DualOff, NEW G, NEW c, AllAre(G, c), NEW a, NEW l,
         core' = Repeating([h \in FSM!Hart |->
                    IF h \in G THEN [core[h] EXCEPT !.ack = a, !.loc = l] ELSE core[h]])
  PROVE  Becomes(G, Acks(c, a, l))
<1> DEFINE f == [h \in FSM!Hart |->
                    IF h \in G THEN [core[h] EXCEPT !.ack = a, !.loc = l] ELSE core[h]]
           d == Acks(c, a, l)
<1>1. [c EXCEPT !.ack = a, !.loc = l] = d
  BY RecordAck DEF AllAre
<1>2. \A h \in Hart : f[h] = IF h \in G THEN d ELSE core[h]
  BY <1>1, Zenon DEF AllAre, Hart
<1>3. core' = Repeating(f)
  BY Zenon
<1> HIDE DEF f, d
<1>4. core' = [h \in Hart |-> f[h]]
  BY <1>3, NobodyRepeats, Zenon
<1> QED BY <1>2, <1>4, Zenon DEF Becomes, d

LEMMA MovesBoot ==
  ASSUME DualOff, NEW G, NEW c, AllAre(G, c), NEW m, NEW l, NEW n,
         core' = Repeating([h \in FSM!Hart |->
                    IF h \in G THEN [core[h] EXCEPT !.mode = m, !.loc = l, !.op = n] ELSE core[h]])
  PROVE  Becomes(G, Rec(m, l, n, c.ret, c.ack))
<1> DEFINE f == [h \in FSM!Hart |->
                    IF h \in G THEN [core[h] EXCEPT !.mode = m, !.loc = l, !.op = n] ELSE core[h]]
           d == Rec(m, l, n, c.ret, c.ack)
<1>1. [c EXCEPT !.mode = m, !.loc = l, !.op = n] = d
  BY RecordBoot DEF AllAre
<1>2. \A h \in Hart : f[h] = IF h \in G THEN d ELSE core[h]
  BY <1>1, Zenon DEF AllAre, Hart
<1>3. core' = Repeating(f)
  BY Zenon
<1> HIDE DEF f, d
<1>4. core' = [h \in Hart |-> f[h]]
  BY <1>3, NobodyRepeats, Zenon
<1> QED BY <1>2, <1>4, Zenon DEF Becomes, d

LEMMA MovesReset ==
  ASSUME DualOff, NEW G, NEW c, AllAre(G, c), NEW a,
         core' = Repeating([h \in FSM!Hart |->
                    IF h \in G THEN [core[h] EXCEPT !.ack = a, !.loc = "main", !.op = @ + 1] ELSE core[h]])
  PROVE  Becomes(G, Rec(c.mode, "main", c.op + 1, c.ret, a))
<1> DEFINE f == [h \in FSM!Hart |->
                    IF h \in G THEN [core[h] EXCEPT !.ack = a, !.loc = "main", !.op = @ + 1] ELSE core[h]]
           d == Rec(c.mode, "main", c.op + 1, c.ret, a)
<1>1. [c EXCEPT !.ack = a, !.loc = "main", !.op = @ + 1] = d
  BY RecordReset DEF AllAre
<1>2. \A h \in Hart : f[h] = IF h \in G THEN d ELSE core[h]
  BY <1>1, Zenon DEF AllAre, Hart
<1>3. core' = Repeating(f)
  BY Zenon
<1> HIDE DEF f, d
<1>4. core' = [h \in Hart |-> f[h]]
  BY <1>3, NobodyRepeats, Zenon
<1> QED BY <1>2, <1>4, Zenon DEF Becomes, d

LEMMA MovesEnter ==
  ASSUME DualOff, NEW G, NEW c, AllAre(G, c), NEW m, NEW l, NEW n, NEW r,
         core' = Repeating([h \in FSM!Hart |->
                    IF h \in G THEN [core[h] EXCEPT !.mode = m, !.loc = l, !.op = n, !.ret = r] ELSE core[h]])
  PROVE  Becomes(G, Rec(m, l, n, r, c.ack))
<1> DEFINE f == [h \in FSM!Hart |->
                    IF h \in G THEN [core[h] EXCEPT !.mode = m, !.loc = l, !.op = n, !.ret = r] ELSE core[h]]
           d == Rec(m, l, n, r, c.ack)
<1>1. [c EXCEPT !.mode = m, !.loc = l, !.op = n, !.ret = r] = d
  BY RecordEnter DEF AllAre
<1>2. \A h \in Hart : f[h] = IF h \in G THEN d ELSE core[h]
  BY <1>1, Zenon DEF AllAre, Hart
<1>3. core' = Repeating(f)
  BY Zenon
<1> HIDE DEF f, d
<1>4. core' = [h \in Hart |-> f[h]]
  BY <1>3, NobodyRepeats, Zenon
<1> QED BY <1>2, <1>4, Zenon DEF Becomes, d

LEMMA MovesReturn ==
  ASSUME DualOff, NEW G, NEW c, AllAre(G, c),
         core' = Repeating([h \in FSM!Hart |->
                    IF h \in G THEN [core[h] EXCEPT !.loc = core[h].ret, !.ret = "none"]
                               ELSE core[h]])
  PROVE  Becomes(G, Rec(c.mode, c.ret, c.op, "none", c.ack))
<1> DEFINE f == [h \in FSM!Hart |->
                    IF h \in G THEN [core[h] EXCEPT !.loc = core[h].ret, !.ret = "none"]
                               ELSE core[h]]
           d == Rec(c.mode, c.ret, c.op, "none", c.ack)
<1>1. [c EXCEPT !.loc = c.ret, !.ret = "none"] = d
  BY RecordReturn DEF AllAre
<1>2. \A h \in Hart : f[h] = IF h \in G THEN d ELSE core[h]
  BY <1>1, Zenon DEF AllAre, Hart
<1>3. core' = Repeating(f)
  BY Zenon
<1> HIDE DEF f, d
<1>4. core' = [h \in Hart |-> f[h]]
  BY <1>3, NobodyRepeats, Zenon
<1> QED BY <1>2, <1>4, Zenon DEF Becomes, d

LEMMA MovesOn ==
  ASSUME DualOff, NEW G, NEW c, AllAre(G, c)
  PROVE  /\ \A l : Goto(G, l) => Becomes(G, Goes(c, l))
         /\ NextCall(G) => Becomes(G, Returns(c))
         /\ \A a, l : Acknowledge(G, a, l) => Becomes(G, Acks(c, a, l))
         /\ Sleep(G) => Becomes(G, Dozes(c))
<1>1. \A f : Repeating(f) = [h \in Hart |-> f[h]]
  BY NobodyRepeats
<1>2. \A l : Goto(G, l) => Becomes(G, Goes(c, l))
  BY <1>1, RecordLoc DEF Goto, Move, Becomes, AllAre, Hart
<1>3. NextCall(G) => Becomes(G, Returns(c))
  BY <1>1, RecordNext DEF NextCall, Move, Becomes, AllAre, Hart
<1>4. ASSUME NEW a, NEW l, Acknowledge(G, a, l) PROVE Becomes(G, Acks(c, a, l))
  BY <1>4, MovesAck, Zenon DEF Acknowledge, Move
<1>5. Sleep(G) => Becomes(G, Dozes(c))
  BY <1>1, RecordSleep DEF Sleep, Move, Becomes, AllAre, Hart
<1> QED BY <1>2, <1>3, <1>4, <1>5

(***************************************************************************)
(* What an instruction does to a hart: from c to d, with the write wr on   *)
(* the bus, and cp the saved state after it.                               *)
(***************************************************************************)
CallAt(n) == IF n \in 1..Len(program) THEN program[n] ELSE <<"return", 0>>
Silently(wr, cp) == wr = NoWrite /\ cp = safe_copy
Storing(wr, cp, r, v) == wr = Write(r, v) /\ cp = safe_copy
Raising(wr, cp, r) == Storing(wr, cp, r, TRUE)
Lowering(wr, cp, r) == Storing(wr, cp, r, FALSE)
Keeping(wr, cp, copy) == wr = NoWrite /\ cp = copy
Entry == CASE external_debug_req = 0 -> "halt_boot"
           [] external_debug_req = 2 -> "single_boot"
           [] OTHER -> "debugger"

DoesRom(c, d, wr, cp) ==
  /\ Silently(wr, cp)
  /\ \/ c.mode = "run" /\ c.loc = "wfi_entry" /\ d = Dozes(c)
     \/ c.mode = "debug" /\ c.loc = "debug_entry" /\ d = Goes(c, Entry)
     \/ /\ c.mode = "debug" /\ c.loc = "halt_boot"
        /\ d = Rec("run", safe_copy.loc, safe_copy.pc, c.ret, c.ack)
     \/ c.mode = "debug" /\ c.loc = "single_boot" /\ d = Rec("run", "crt0", 1, c.ret, c.ack)
     \/ c.mode = "run" /\ c.loc = "crt0" /\ d = Goes(c, "main")

DoesActivate(c, d, wr, cp) ==
  /\ c.mode = "run"
  /\ \/ /\ c.loc = "main" /\ CallAt(c.op)[1] = Activate /\ Silently(wr, cp)
        /\ \/ safe_configuration # 0 /\ d = Returns(c)
           \/ safe_configuration = 0 /\ d = Goes(c, "act_conf")
     \/ /\ c.loc = "act_conf" /\ d = Goes(c, "act_context")
        /\ Storing(wr, cp, "SAFE_CONFIGURATION", CallAt(c.op)[2])
     \/ /\ c.loc = "act_context" /\ d = Goes(c, "act_sync")
        /\ Keeping(wr, cp, [safe_copy EXCEPT !.context = c.op])
     \/ /\ c.loc = "act_sync" /\ d = Goes(c, "act_pc")
        /\ Raising(wr, cp, "INITIAL_SYNC_MASTER")
     \/ /\ c.loc = "act_pc" /\ d = Goes(c, "act_wfi")
        /\ Keeping(wr, cp, [safe_copy EXCEPT !.pc = c.op, !.loc = "act_pc"])
     \/ c.loc = "act_wfi" /\ d = Dozes(c) /\ Silently(wr, cp)
     \/ /\ c.loc = "act_reset_sync" /\ d = Goes(c, "act_reset_ack")
        /\ Lowering(wr, cp, "INITIAL_SYNC_MASTER")
     \/ /\ c.loc = "act_reset_ack" /\ d = Resets(c)
        /\ Silently(wr, cp)

DoesStop(c, d, wr, cp) ==
  /\ c.mode = "run"
  /\ \/ /\ c.loc = "main" /\ CallAt(c.op)[1] = Stop /\ Silently(wr, cp)
        /\ \/ safe_configuration = 0 /\ d = Returns(c)
           \/ safe_configuration # 0 /\ critical_section /\ d = Goes(c, "stop_critical")
           \/ safe_configuration # 0 /\ ~critical_section /\ d = Goes(c, "stop_master")
     \/ /\ c.loc = "stop_critical" /\ d = Goes(c, "stop_master")
        /\ Lowering(wr, cp, "CRITICAL_SECTION")
     \/ /\ c.loc = "stop_master" /\ d = Goes(c, "stop_conf")
        /\ Storing(wr, cp, "MASTER_CORE", {CallAt(c.op)[2]})
     \/ /\ c.loc = "stop_conf" /\ d = Goes(c, "stop_wfi")
        /\ Storing(wr, cp, "SAFE_CONFIGURATION", 0)
     \/ c.loc = "stop_wfi" /\ d = Dozes(c) /\ Silently(wr, cp)

DoesCheckpoint(c, d, wr, cp) ==
  /\ c.mode = "run"
  /\ \/ /\ c.loc = "main" /\ CallAt(c.op)[1] = Checkpoint /\ d = Goes(c, "ckpt_regs")
        /\ Keeping(wr, cp, [safe_copy EXCEPT !.stack = c.op])
     \/ /\ c.loc = "ckpt_regs" /\ d = Goes(c, "ckpt_pc")
        /\ Keeping(wr, cp, [safe_copy EXCEPT !.context = c.op])
     \/ /\ c.loc = "ckpt_pc" /\ d = Goes(c, "call_end")
        /\ Keeping(wr, cp, [safe_copy EXCEPT !.pc = c.op, !.loc = "call_end"])

DoesCall(c, d, wr, cp) ==
  /\ c.mode = "run"
  /\ \/ c.loc = "call_end" /\ d = Returns(c) /\ Silently(wr, cp)
     \/ /\ c.loc = "main" /\ d = Returns(c)
        /\ \/ CallAt(c.op)[1] = Work /\ Silently(wr, cp)
           \/ /\ CallAt(c.op)[1] = Critical
              /\ Storing(wr, cp, "CRITICAL_SECTION", CallAt(c.op)[2])
           \/ /\ CallAt(c.op)[1] = SetMask
              /\ Storing(wr, cp, "DMR_MASK", CallAt(c.op)[2])
     \/ /\ c.loc = "main" /\ CallAt(c.op)[1] = "return" /\ d = Goes(c, "exit_wfi")
        /\ Raising(wr, cp, "END_SW_ROUTINE")
     \/ c.loc = "exit_wfi" /\ d = Dozes(c) /\ Silently(wr, cp)

DoesHandler(c, d, wr, cp) ==
  /\ c.mode = "run" /\ Silently(wr, cp)
  /\ \/ c.loc = "sync_ack" /\ d = Sets(c, "sync_unack")
     \/ c.loc = "sync_unack" /\ d = Clears(c, "mret")
     \/ c.loc = "resync_ack" /\ d = Sets(c, "resync_unack")
     \/ c.loc = "resync_unack" /\ d = Clears(c, "mret")
     \/ c.loc = "mret" /\ d = Rec(c.mode, c.ret, c.op, "none", c.ack)

Does(c, d, wr, cp) ==
  \/ DoesRom(c, d, wr, cp) \/ DoesActivate(c, d, wr, cp) \/ DoesStop(c, d, wr, cp)
  \/ DoesCheckpoint(c, d, wr, cp) \/ DoesCall(c, d, wr, cp) \/ DoesHandler(c, d, wr, cp)

\* A step of the harts in G, which all are in state c, on an edge with write wr.
Executes(G, c, d, wr) ==
  /\ AllAre(G, c) /\ Becomes(G, d)
  /\ Clock(wr) /\ Undisturbed /\ UNCHANGED program
  /\ Does(c, d, wr, safe_copy')

\* The hart that stands for all of G.
One(G) == core[CHOOSE h \in G : TRUE]

LEMMA OneForAll ==
  ASSUME core \in [Hart -> CoreState], NEW G, G \subseteq Hart, G # {}, Same(G)
  PROVE  /\ AllAre(G, One(G))
         /\ OpOf(G) = One(G).op
         /\ Call(G) = CallAt(One(G).op)
         /\ \A l : At(G, l) => One(G).loc = l
         /\ \A md : InMode(G, md) => One(G).mode = md
<1>1. (CHOOSE h \in G : TRUE) \in G
  OBVIOUS
<1>2. AllAre(G, One(G))
  BY <1>1 DEF AllAre, One, Same
<1>3. OpOf(G) = One(G).op
  BY DEF OpOf, One
<1>4. Call(G) = CallAt(One(G).op)
  BY <1>3 DEF Call, CallAt
<1> QED BY <1>1, <1>2, <1>3, <1>4 DEF One, At, InMode

LEMMA ReadyOne ==
  ASSUME core \in [Hart -> CoreState], NEW G, G \subseteq Hart, G # {},
         NEW md, NEW l, Ready(G, md, l)
  PROVE  /\ AllAre(G, One(G)) /\ One(G).mode = md /\ One(G).loc = l
         /\ OpOf(G) = One(G).op
         /\ Call(G) = CallAt(One(G).op)
         /\ G \cap Diverted = {}
BY OneForAll DEF Ready

LEMMA OnBus ==
  /\ NoBus => Clock(NoWrite) /\ Undisturbed /\ UNCHANGED program /\ Silently(NoWrite, safe_copy')
  /\ \A r, v : Store(r, v) =>
       /\ Clock(Write(r, v)) /\ Undisturbed /\ UNCHANGED program
       /\ Storing(Write(r, v), safe_copy', r, v)
  /\ \A r : Store(r, TRUE) =>
       /\ Clock(Write(r, TRUE)) /\ Undisturbed /\ UNCHANGED program
       /\ Raising(Write(r, TRUE), safe_copy', r)
  /\ \A r : Store(r, FALSE) =>
       /\ Clock(Write(r, FALSE)) /\ Undisturbed /\ UNCHANGED program
       /\ Lowering(Write(r, FALSE), safe_copy', r)
  /\ Bus(NoWrite) => Clock(NoWrite) /\ Undisturbed /\ UNCHANGED program
BY Zenon DEF NoBus, Bus, Store, KeepCopy, Silently, Storing, Raising, Lowering

LEMMA RomDoes ==
  ASSUME DualOff, core \in [Hart -> CoreState], NEW G, G \subseteq Hart, G # {},
         RomSleep(G) \/ DebugEntry(G) \/ HaltBoot(G) \/ SingleBoot(G) \/ StartUp(G)
  PROVE  G \cap Diverted = {} /\ \E d : Executes(G, One(G), d, NoWrite)
<1> DEFINE c == One(G)
<1>1. CASE RomSleep(G)
  <2>1. Ready(G, "run", "wfi_entry") /\ Sleep(G) /\ NoBus
    BY <1>1 DEF RomSleep, Runs
  <2> QED BY <2>1, ReadyOne, MovesOn, OnBus DEF Executes, Does, DoesRom
<1>2. CASE DebugEntry(G)
  <2>1. Ready(G, "debug", "debug_entry") /\ Goto(G, Entry) /\ NoBus
    BY <1>2 DEF DebugEntry, Entry
  <2> QED BY <2>1, ReadyOne, MovesOn, OnBus DEF Executes, Does, DoesRom
<1>3. CASE HaltBoot(G)
  <2>1. Ready(G, "debug", "halt_boot") /\ NoBus
    BY <1>3 DEF HaltBoot
  <2>2. Becomes(G, Rec("run", safe_copy.loc, safe_copy.pc, c.ret, c.ack))
    <3>1. AllAre(G, c)
      BY <2>1, ReadyOne
    <3> QED BY <1>3, <3>1, MovesBoot, Zenon DEF HaltBoot, Move
  <2> QED BY <2>1, <2>2, ReadyOne, OnBus DEF Executes, Does, DoesRom
<1>4. CASE SingleBoot(G)
  <2>1. Ready(G, "debug", "single_boot") /\ NoBus
    BY <1>4 DEF SingleBoot
  <2>2. Becomes(G, Rec("run", "crt0", 1, c.ret, c.ack))
    <3>1. AllAre(G, c)
      BY <2>1, ReadyOne
    <3> QED BY <1>4, <3>1, MovesBoot, Zenon DEF SingleBoot, Move
  <2> QED BY <2>1, <2>2, ReadyOne, OnBus DEF Executes, Does, DoesRom
<1>5. CASE StartUp(G)
  <2>1. Ready(G, "run", "crt0") /\ Goto(G, "main") /\ NoBus
    BY <1>5 DEF StartUp, Runs
  <2> QED BY <2>1, ReadyOne, MovesOn, OnBus DEF Executes, Does, DoesRom
<1> QED BY <1>1, <1>2, <1>3, <1>4, <1>5

LEMMA ActivateDoes ==
  ASSUME DualOff, core \in [Hart -> CoreState], NEW G, G \subseteq Hart, G # {},
         SafeActivate(G)
  PROVE  G \cap Diverted = {} /\ \E d, wr : Executes(G, One(G), d, wr)
<1> DEFINE c == One(G)
<1>1. CASE Runs(G, "main") /\ Call(G)[1] = Activate /\ AlreadySafe(G)
            /\ NextCall(G) /\ NoBus
  BY <1>1, ReadyOne, MovesOn, OnBus DEF Runs, AlreadySafe, Executes, Does, DoesActivate
<1>2. CASE Runs(G, "main") /\ Call(G)[1] = Activate /\ ~AlreadySafe(G)
            /\ Goto(G, "act_conf") /\ NoBus
  BY <1>2, ReadyOne, MovesOn, OnBus DEF Runs, AlreadySafe, Executes, Does, DoesActivate
<1>3. CASE Runs(G, "act_conf") /\ Goto(G, "act_context")
            /\ Store("SAFE_CONFIGURATION", Call(G)[2])
  BY <1>3, ReadyOne, MovesOn, OnBus DEF Runs, Executes, Does, DoesActivate
<1>4. CASE Runs(G, "act_context") /\ Goto(G, "act_sync")
            /\ safe_copy' = [safe_copy EXCEPT !.context = OpOf(G)] /\ Bus(NoWrite)
  BY <1>4, ReadyOne, MovesOn, OnBus DEF Runs, Keeping, Executes, Does, DoesActivate
<1>5. CASE Runs(G, "act_sync") /\ Goto(G, "act_pc")
            /\ Store("INITIAL_SYNC_MASTER", TRUE)
  BY <1>5, ReadyOne, MovesOn, OnBus DEF Runs, Executes, Does, DoesActivate
<1>6. CASE Runs(G, "act_pc") /\ Goto(G, "act_wfi") /\ Bus(NoWrite)
            /\ safe_copy' = [safe_copy EXCEPT !.pc = OpOf(G), !.loc = "act_pc"]
  BY <1>6, ReadyOne, MovesOn, OnBus DEF Runs, Keeping, Executes, Does, DoesActivate
<1>7. CASE Runs(G, "act_wfi") /\ Sleep(G) /\ NoBus
  BY <1>7, ReadyOne, MovesOn, OnBus DEF Runs, Executes, Does, DoesActivate
<1>8. CASE Runs(G, "act_reset_sync") /\ Goto(G, "act_reset_ack")
            /\ Store("INITIAL_SYNC_MASTER", FALSE)
  BY <1>8, ReadyOne, MovesOn, OnBus DEF Runs, Executes, Does, DoesActivate
<1>9. CASE Runs(G, "act_reset_ack") /\ NoBus
            /\ LET r(x) == [x EXCEPT !.ack = FALSE, !.loc = "main", !.op = @ + 1]
               IN Move(G, r)
  <2>1. AllAre(G, c)
    BY <1>9, ReadyOne DEF Runs
  <2>2. Becomes(G, Resets(c))
    BY <1>9, <2>1, MovesReset, Zenon DEF Move, Resets
  <2> QED BY <1>9, <2>2, ReadyOne, OnBus DEF Runs, Executes, Does, DoesActivate
<1> QED BY <1>1, <1>2, <1>3, <1>4, <1>5, <1>6, <1>7, <1>8, <1>9 DEF SafeActivate

LEMMA StopDoes ==
  ASSUME DualOff, core \in [Hart -> CoreState], NEW G, G \subseteq Hart, G # {},
         SafeStop(G)
  PROVE  G \cap Diverted = {} /\ \E d, wr : Executes(G, One(G), d, wr)
<1> DEFINE c == One(G)
<1>1. CASE Runs(G, "main") /\ Call(G)[1] = Stop /\ safe_configuration = 0
            /\ NextCall(G) /\ NoBus
  BY <1>1, ReadyOne, MovesOn, OnBus DEF Runs, Executes, Does, DoesStop
<1>2. CASE Runs(G, "main") /\ Call(G)[1] = Stop /\ safe_configuration # 0
            /\ critical_section /\ Goto(G, "stop_critical") /\ NoBus
  BY <1>2, ReadyOne, MovesOn, OnBus DEF Runs, Executes, Does, DoesStop
<1>3. CASE Runs(G, "main") /\ Call(G)[1] = Stop /\ safe_configuration # 0
            /\ ~critical_section /\ Goto(G, "stop_master") /\ NoBus
  BY <1>3, ReadyOne, MovesOn, OnBus DEF Runs, Executes, Does, DoesStop
<1>4. CASE Runs(G, "stop_critical") /\ Goto(G, "stop_master")
            /\ Store("CRITICAL_SECTION", FALSE)
  BY <1>4, ReadyOne, MovesOn, OnBus DEF Runs, Executes, Does, DoesStop
<1>5. CASE Runs(G, "stop_master") /\ Goto(G, "stop_conf")
            /\ Store("MASTER_CORE", {Call(G)[2]})
  BY <1>5, ReadyOne, MovesOn, OnBus DEF Runs, Executes, Does, DoesStop
<1>6. CASE Runs(G, "stop_conf") /\ Goto(G, "stop_wfi")
            /\ Store("SAFE_CONFIGURATION", 0)
  BY <1>6, ReadyOne, MovesOn, OnBus DEF Runs, Executes, Does, DoesStop
<1>7. CASE Runs(G, "stop_wfi") /\ Sleep(G) /\ NoBus
  BY <1>7, ReadyOne, MovesOn, OnBus DEF Runs, Executes, Does, DoesStop
<1> QED BY <1>1, <1>2, <1>3, <1>4, <1>5, <1>6, <1>7 DEF SafeStop

LEMMA CheckpointDoes ==
  ASSUME DualOff, core \in [Hart -> CoreState], NEW G, G \subseteq Hart, G # {},
         StoreCheckpoint(G)
  PROVE  G \cap Diverted = {} /\ \E d, wr : Executes(G, One(G), d, wr)
<1> DEFINE c == One(G)
<1>1. CASE Runs(G, "main") /\ Call(G)[1] = Checkpoint /\ Goto(G, "ckpt_regs")
            /\ safe_copy' = [safe_copy EXCEPT !.stack = OpOf(G)] /\ Bus(NoWrite)
  BY <1>1, ReadyOne, MovesOn, OnBus DEF Runs, Keeping, Executes, Does, DoesCheckpoint
<1>2. CASE Runs(G, "ckpt_regs") /\ Goto(G, "ckpt_pc")
            /\ safe_copy' = [safe_copy EXCEPT !.context = OpOf(G)] /\ Bus(NoWrite)
  BY <1>2, ReadyOne, MovesOn, OnBus DEF Runs, Keeping, Executes, Does, DoesCheckpoint
<1>3. CASE Runs(G, "ckpt_pc") /\ Goto(G, "call_end") /\ Bus(NoWrite)
            /\ safe_copy' = [safe_copy EXCEPT !.pc = OpOf(G), !.loc = "call_end"]
  BY <1>3, ReadyOne, MovesOn, OnBus DEF Runs, Keeping, Executes, Does, DoesCheckpoint
<1> QED BY <1>1, <1>2, <1>3 DEF StoreCheckpoint

LEMMA CallDoes ==
  ASSUME DualOff, core \in [Hart -> CoreState], NEW G, G \subseteq Hart, G # {},
         CallEnd(G) \/ OtherCall(G) \/ Exit(G)
  PROVE  G \cap Diverted = {} /\ \E d, wr : Executes(G, One(G), d, wr)
<1> DEFINE c == One(G)
<1>1. CASE CallEnd(G)
  BY <1>1, ReadyOne, MovesOn, OnBus DEF Runs, CallEnd, Executes, Does, DoesCall
<1>2. CASE Runs(G, "main") /\ Call(G)[1] = Work /\ NextCall(G) /\ NoBus
  BY <1>2, ReadyOne, MovesOn, OnBus DEF Runs, Executes, Does, DoesCall
<1>3. CASE Runs(G, "main") /\ Call(G)[1] = Critical /\ NextCall(G)
            /\ Store("CRITICAL_SECTION", Call(G)[2])
  BY <1>3, ReadyOne, MovesOn, OnBus DEF Runs, Executes, Does, DoesCall
<1>4. CASE Runs(G, "main") /\ Call(G)[1] = SetMask /\ NextCall(G)
            /\ Store("DMR_MASK", Call(G)[2])
  BY <1>4, ReadyOne, MovesOn, OnBus DEF Runs, Executes, Does, DoesCall
<1>5. CASE Runs(G, "main") /\ Call(G)[1] = "return" /\ Goto(G, "exit_wfi")
            /\ Store("END_SW_ROUTINE", TRUE)
  BY <1>5, ReadyOne, MovesOn, OnBus DEF Runs, Executes, Does, DoesCall
<1>6. CASE Runs(G, "exit_wfi") /\ Sleep(G) /\ NoBus
  BY <1>6, ReadyOne, MovesOn, OnBus DEF Runs, Executes, Does, DoesCall
<1> QED BY <1>1, <1>2, <1>3, <1>4, <1>5, <1>6 DEF OtherCall, Exit

LEMMA HandlerDoes ==
  ASSUME DualOff, core \in [Hart -> CoreState], NEW G, G \subseteq Hart, G # {},
         Handler(G)
  PROVE  G \cap Diverted = {} /\ \E d, wr : Executes(G, One(G), d, wr)
<1> DEFINE c == One(G)
<1>1. CASE Runs(G, "sync_ack") /\ Acknowledge(G, TRUE, "sync_unack") /\ NoBus
  <2>1. AllAre(G, c) /\ c.mode = "run" /\ c.loc = "sync_ack" /\ G \cap Diverted = {}
    BY <1>1, ReadyOne DEF Runs
  <2>2. Becomes(G, Sets(c, "sync_unack"))
    BY <1>1, <2>1, MovesOn, Zenon DEF Sets
  <2> QED BY <1>1, <2>1, <2>2, OnBus DEF Executes, Does, DoesHandler
<1>2. CASE Runs(G, "sync_unack") /\ Acknowledge(G, FALSE, "mret") /\ NoBus
  <2>1. AllAre(G, c) /\ c.mode = "run" /\ c.loc = "sync_unack" /\ G \cap Diverted = {}
    BY <1>2, ReadyOne DEF Runs
  <2>2. Becomes(G, Clears(c, "mret"))
    BY <1>2, <2>1, MovesOn, Zenon DEF Clears
  <2> QED BY <1>2, <2>1, <2>2, OnBus DEF Executes, Does, DoesHandler
<1>3. CASE Runs(G, "resync_ack") /\ Acknowledge(G, TRUE, "resync_unack") /\ NoBus
  <2>1. AllAre(G, c) /\ c.mode = "run" /\ c.loc = "resync_ack" /\ G \cap Diverted = {}
    BY <1>3, ReadyOne DEF Runs
  <2>2. Becomes(G, Sets(c, "resync_unack"))
    BY <1>3, <2>1, MovesOn, Zenon DEF Sets
  <2> QED BY <1>3, <2>1, <2>2, OnBus DEF Executes, Does, DoesHandler
<1>4. CASE Runs(G, "resync_unack") /\ Acknowledge(G, FALSE, "mret") /\ NoBus
  <2>1. AllAre(G, c) /\ c.mode = "run" /\ c.loc = "resync_unack" /\ G \cap Diverted = {}
    BY <1>4, ReadyOne DEF Runs
  <2>2. Becomes(G, Clears(c, "mret"))
    BY <1>4, <2>1, MovesOn, Zenon DEF Clears
  <2> QED BY <1>4, <2>1, <2>2, OnBus DEF Executes, Does, DoesHandler
<1>5. CASE Runs(G, "mret") /\ NoBus
            /\ LET r(x) == [x EXCEPT !.loc = x.ret, !.ret = "none"] IN Move(G, r)
  <2>1. AllAre(G, c) /\ c.mode = "run" /\ c.loc = "mret" /\ G \cap Diverted = {}
    BY <1>5, ReadyOne DEF Runs
  <2>2. Becomes(G, Rec(c.mode, c.ret, c.op, "none", c.ack))
    BY <1>5, <2>1, MovesReturn, Zenon DEF Move
  <2> QED BY <1>5, <2>1, <2>2, OnBus DEF Executes, Does, DoesHandler
<1> QED BY <1>1, <1>2, <1>3, <1>4, <1>5 DEF Handler

LEMMA InstructionExecutes ==
  ASSUME DualOff, core \in [Hart -> CoreState], NEW G, G \subseteq Hart, G # {},
         Instruction(G)
  PROVE  G \cap Diverted = {} /\ \E d, wr : Executes(G, One(G), d, wr)
BY RomDoes, ActivateDoes, StopDoes, CheckpointDoes, CallDoes, HandlerDoes DEF Instruction

Halts(G) == /\ Becomes(G, Rec("debug", "debug_entry", 0, "none", FALSE))
            /\ Clock(NoWrite) /\ Undisturbed /\ UNCHANGED <<program, safe_copy>>

LEMMA EnterHalts ==
  ASSUME DualOff, core \in [Hart -> CoreState], NEW G, G \subseteq Hart,
         \A h \in G : ~core[h].ack, EnterDebug(G)
  PROVE  Halts(G)
<1> DEFINE d == Rec("debug", "debug_entry", 0, "none", FALSE)
           f == [h \in FSM!Hart |->
                  IF h \in G THEN [core[h] EXCEPT !.mode = "debug", !.loc = "debug_entry",
                                                  !.op = 0, !.ret = "none"]
                             ELSE core[h]]
<1>1. core' = Repeating(f)
  BY Zenon DEF EnterDebug, Move
<1>2. ASSUME NEW h \in G
      PROVE  [core[h] EXCEPT !.mode = "debug", !.loc = "debug_entry", !.op = 0, !.ret = "none"] = d
  <2>1. core[h] \in CoreState /\ core[h].ack = FALSE
    BY DEF CoreState
  <2>2. [core[h] EXCEPT !.mode = "debug", !.loc = "debug_entry", !.op = 0, !.ret = "none"]
          = Rec("debug", "debug_entry", 0, "none", core[h].ack)
    BY <2>1, RecordEnter
  <2> QED BY <2>1, <2>2, Zenon
<1>3. \A h \in Hart : f[h] = IF h \in G THEN d ELSE core[h]
  BY <1>2, Zenon DEF Hart
<1> HIDE DEF f, d
<1>4. core' = [h \in Hart |-> f[h]]
  BY <1>1, NobodyRepeats, Zenon
<1>5. Becomes(G, d)
  BY <1>3, <1>4, Zenon DEF Becomes
<1>6. NoBus
  BY DEF EnterDebug
<1> QED BY <1>5, <1>6, OnBus DEF Halts, d, NoBus, KeepCopy

Interrupted(c, handler) == Rec("run", handler, c.op, Resumption(c), c.ack)

\* A set of harts in state c takes an interrupt.
Takes(G, c, handler) ==
  /\ AllAre(G, c) /\ Becomes(G, Interrupted(c, handler))
  /\ Clock(NoWrite) /\ Undisturbed /\ UNCHANGED <<program, safe_copy>>

LEMMA InterruptTakes ==
  ASSUME DualOff, NEW G, NEW c, AllAre(G, c), NEW handler, NoBus,
         LET r(x) == [x EXCEPT !.mode = "run", !.ret = Resumption(x), !.loc = handler]
         IN Move(G, r)
  PROVE  Takes(G, c, handler)
<1> DEFINE f == [h \in FSM!Hart |->
                  IF h \in G THEN [core[h] EXCEPT !.mode = "run", !.ret = Resumption(core[h]),
                                                  !.loc = handler]
                             ELSE core[h]]
           d == Interrupted(c, handler)
<1>1. core' = Repeating(f)
  BY Zenon DEF Move
<1>2. [c EXCEPT !.mode = "run", !.ret = Resumption(c), !.loc = handler] = d
  BY RecordInterrupt DEF AllAre, Interrupted
<1>3. \A h \in Hart : f[h] = IF h \in G THEN d ELSE core[h]
  BY <1>2, Zenon DEF AllAre, Hart
<1> HIDE DEF f, d
<1>4. core' = [h \in Hart |-> f[h]]
  BY <1>1, NobodyRepeats, Zenon
<1>5. Becomes(G, d)
  BY <1>3, <1>4, Zenon DEF Becomes
<1> QED BY <1>5, OnBus DEF Takes, d, NoBus, KeepCopy

LEMMA SameRegisters ==
  /\ \A wr : Registers!CtrlTypeOK <=> Protocol!CtrlTypeOK
  /\ Registers!CtrlTypeOK' <=> Protocol!CtrlTypeOK'
  /\ (Registers!Free <=> Protocol!Free) /\ (Registers!Free' <=> Protocol!Free')
  /\ (Registers!Launched <=> Protocol!Launched) /\ (Registers!Launched' <=> Protocol!Launched')
  /\ (Registers!Accepted <=> Protocol!Accepted) /\ (Registers!Accepted' <=> Protocol!Accepted')
  /\ (Registers!Running <=> Protocol!Running) /\ (Registers!Running' <=> Protocol!Running')
  /\ (Registers!Ending <=> Protocol!Ending) /\ (Registers!Ending' <=> Protocol!Ending')
  /\ (Registers!Ended <=> Protocol!Ended) /\ (Registers!Ended' <=> Protocol!Ended')
  /\ (Registers!Signalled <=> Protocol!Signalled) /\ (Registers!Signalled' <=> Protocol!Signalled')
BY DEF Registers!CtrlTypeOK, Protocol!CtrlTypeOK, Registers!Silent, Protocol!Silent,
       Registers!status, Protocol!status, Registers!Free, Protocol!Free, Registers!Launched, Protocol!Launched, Registers!Accepted, Protocol!Accepted, Registers!Running, Protocol!Running, Registers!Ending, Protocol!Ending, Registers!Ended, Protocol!Ended, Registers!Signalled, Protocol!Signalled

LEMMA RegistersClock ==
  ASSUME NEW wr, Clock(wr)
  PROVE  Registers!Edge(wr)
<1>1. Registers!CtrlClock(wr, FSM!AllAsleep, FSM!Start_Boot, FSM!en_ext_debug_req, FSM!DMR_Rec)
  BY DEF Clock, CtrlClock, Registers!CtrlClock, ConfigClock, Registers!ConfigClock,
         StartEndClock, Registers!StartEndClock, InterruptClock, Registers!InterruptClock,
         Loaded, Registers!Loaded, enable_endSW, Registers!enable_endSW,
         start_rises, Registers!start_rises, load_intc, Registers!load_intc
<1>2. /\ FSM!Start_Boot \in BOOLEAN /\ FSM!en_ext_debug_req \in BOOLEAN
      /\ FSM!DMR_Rec \in BOOLEAN
  BY DEF FSM!Start_Boot, FSM!en_ext_debug_req, FSM!DMR_Rec
<1> QED BY <1>1, <1>2, Zenon DEF Registers!Edge

(***************************************************************************)
(* What the harts may do on an edge, when the dual modes are not in use.   *)
(***************************************************************************)
LEMMA WithinHarts ==
  ASSUME DualOff, NEW S, NEW G \in Within(S)
  PROVE  G \subseteq Hart /\ G \subseteq S /\ G # {}
<1>1. CASE Voting
  BY <1>1, UnitsVoted
<1>2. CASE ~Voting
  BY <1>2, UnitsAlone
<1> QED BY <1>1, <1>2

\* Some harts execute an instruction, are halted, or take an interrupt.
SomeExecute == \E G \in Steppers : \E d, wr :
                 G \cap Diverted = {} /\ Executes(G, One(G), d, wr)
SomeHalt == \E G \in Within(FSM!Interrupt_Halt \ Halted) : Halts(G)
SomeTake(line, handler) == \E G \in Within(line \cap Interruptible) :
                             \E c : Takes(G, c, handler)

LEMMA HartsDo ==
  ASSUME DualOff, core \in [Hart -> CoreState], HartStep,
         \A h \in FSM!Interrupt_Halt \ Halted : ~core[h].ack,
         \/ FSM!Interrupt_Sync \cup FSM!Interrupt_swResync = {}
         \/ Together \/ ~Voting
  PROVE  \/ SomeExecute \/ SomeHalt
         \/ SomeTake(FSM!Interrupt_Sync, "sync_ack")
         \/ SomeTake(FSM!Interrupt_swResync, "resync_ack")
<1>1. CASE \E G \in Steppers : Instruction(G)
  <2>1. PICK G \in Steppers : Instruction(G)
    BY <1>1
  <2>2. G \subseteq Hart /\ G # {}
    BY <2>1, WithinHarts DEF Steppers
  <2>3. G \cap Diverted = {} /\ \E d, wr : Executes(G, One(G), d, wr)
    BY <2>1, <2>2, InstructionExecutes
  <2> QED BY <2>1, <2>3 DEF SomeExecute
<1>2. CASE \E G \in Within(FSM!Interrupt_Halt \ Halted) : EnterDebug(G)
  <2>1. PICK G \in Within(FSM!Interrupt_Halt \ Halted) : EnterDebug(G)
    BY <1>2
  <2>2. G \subseteq Hart /\ \A h \in G : ~core[h].ack
    BY <2>1, WithinHarts
  <2>3. Halts(G)
    BY <2>1, <2>2, EnterHalts
  <2> QED BY <2>1, <2>3 DEF SomeHalt
<1>3. ASSUME NEW line, NEW handler, TakeInterrupt(line, handler),
             line \subseteq FSM!Interrupt_Sync \cup FSM!Interrupt_swResync
      PROVE  SomeTake(line, handler)
  <2>1. PICK G \in Within(line \cap Interruptible) :
               LET r(x) == [x EXCEPT !.mode = "run", !.ret = Resumption(x), !.loc = handler]
               IN Move(G, r)
    BY <1>3, Zenon DEF TakeInterrupt
  <2>2. NoBus
    BY <1>3 DEF TakeInterrupt
  <2>3. G \subseteq Hart /\ G # {} /\ G \subseteq line
    BY <2>1, WithinHarts
  <2>4. \E c : AllAre(G, c)
    <3>1. PICK h \in G : TRUE
      BY <2>3
    <3>2. CASE Together
      BY <2>3, <3>1, <3>2 DEF AllAre, Together
    <3>3. CASE ~Voting
      BY <2>1, <2>3, <3>1, <3>3, UnitsAlone DEF AllAre
    <3> QED BY <1>3, <2>3, <3>2, <3>3
  <2>5. PICK c : AllAre(G, c)
    BY <2>4
  <2>6. Takes(G, c, handler)
    BY <2>1, <2>2, <2>5, InterruptTakes, Zenon
  <2> QED BY <2>1, <2>6 DEF SomeTake
<1>4. ~ \E h \in FSM!Hart : IsolatedSleep(h)
  BY NoDual DEF IsolatedSleep
<1> QED BY <1>1, <1>2, <1>3, <1>4 DEF HartStep

(***************************************************************************)
(* The modes that a program goes through.                                  *)
(***************************************************************************)
ModeAfter(call, m) ==
  CASE call[1] = Activate /\ m = 0 -> call[2]
    [] call[1] = Stop -> 0
    [] OTHER -> m

\* What ModeAt defines by recursion, as an equation.
IsModes(f) == f = [i \in 1..(Len(program) + 1) |->
                     IF i = 1 THEN job.conf ELSE ModeAfter(program[i - 1], f[i - 1])]

LEMMA ModesExist ==
  ASSUME program \in Seq(ProgramCall), job.conf \in {0, 1},
         \A n \in 1..Len(program) : program[n][1] = Activate => program[n][2] = 1
  PROVE  \E f \in [1..(Len(program) + 1) -> {0, 1}] : IsModes(f)
<1> DEFINE N == Len(program)
           next == [p \in Nat \X {0, 1} |->
                      IF p[1] \in 1..N THEN ModeAfter(program[p[1]], p[2]) ELSE p[2]]
<1>1. N \in Nat
  OBVIOUS
<1>2. \A n \in 1..N : \A m \in {0, 1} : ModeAfter(program[n], m) \in {0, 1}
  BY DEF ModeAfter, Activate, Stop
<1>3. next \in [Nat \X {0, 1} -> {0, 1}]
  BY <1>1, <1>2
<1>4. PICK f \in [Nat -> {0, 1}] : Common!Recursive(f, job.conf, next)
  <2> HIDE DEF next
  <2> QED BY <1>3, Common!Recursion
<1>5. \A n \in Nat : f[n] = IF n = 0 THEN job.conf ELSE next[<<n, f[n - 1]>>]
  <2> HIDE DEF next
  <2> QED BY <1>4 DEF Common!Recursive
<1> DEFINE g == [i \in 1..(N + 1) |-> f[i - 1]]
<1>6. g \in [1..(N + 1) -> {0, 1}]
  BY <1>1
<1>7. ASSUME NEW i \in 1..(N + 1)
      PROVE  g[i] = IF i = 1 THEN job.conf ELSE ModeAfter(program[i - 1], g[i - 1])
  <2>1. CASE i = 1
    <3>1. f[0] = job.conf
      <4> HIDE DEF next
      <4> QED BY <1>5
    <3>2. g[i] = f[0]
      BY <1>1, <2>1
    <3> QED BY <2>1, <3>1, <3>2
  <2>2. CASE i # 1
    <3>1. i - 1 \in 1..N /\ i - 1 \in Nat /\ i - 1 # 0 /\ i - 2 \in Nat /\ i - 1 - 1 = i - 2
      BY <1>1, <2>2
    <3>2. f[i - 1] = next[<<i - 1, f[i - 2]>>]
      <4> HIDE DEF next
      <4> QED BY <1>5, <3>1
    <3>3. next[<<i - 1, f[i - 2]>>] = ModeAfter(program[i - 1], f[i - 2])
      BY <3>1
    <3>4. i - 1 \in 1..(N + 1) /\ g[i] = f[i - 1] /\ g[i - 1] = f[i - 2]
      BY <1>1, <3>1
    <3> HIDE DEF g, next
    <3>5. g[i] = ModeAfter(program[i - 1], g[i - 1])
      BY <3>2, <3>3, <3>4, Zenon
    <3> QED BY <2>2, <3>5
  <2> QED BY <2>1, <2>2
<1>8. IsModes(g)
  <2> HIDE DEF g
  <2>1. g = [i \in 1..(N + 1) |-> g[i]]
    BY <1>6
  <2> QED BY <1>7, <2>1 DEF IsModes
<1> QED BY <1>6, <1>8

LEMMA ModesAre ==
  ASSUME program \in Seq(ProgramCall), job.conf \in {0, 1},
         \A n \in 1..Len(program) : program[n][1] = Activate => program[n][2] = 1
  PROVE  /\ ModeAt(1) = job.conf
         /\ \A n \in 1..Len(program) : ModeAt(n + 1) = ModeAfter(program[n], ModeAt(n))
         /\ \A n \in 1..(Len(program) + 1) : ModeAt(n) \in {0, 1}
<1> DEFINE N == Len(program)
           f == CHOOSE g : IsModes(g)
<1>1. N \in Nat
  OBVIOUS
<1>2. IsModes(f)
  BY ModesExist
<1>3. \A n : ModeAt(n) = f[n]
  BY Zenon DEF ModeAt, IsModes, ModeAfter
<1> HIDE DEF f
<1>4. f[1] = job.conf
  BY <1>1, <1>2 DEF IsModes
<1>5. ASSUME NEW n \in 1..N PROVE f[n + 1] = ModeAfter(program[n], f[n])
  <2>1. n + 1 \in 1..(N + 1) /\ n + 1 # 1 /\ n + 1 - 1 = n
    BY <1>1
  <2> QED BY <1>2, <2>1 DEF IsModes
<1>6. \A n \in 1..(N + 1) : f[n] \in {0, 1}
  <2>1. PICK g \in [1..(N + 1) -> {0, 1}] : IsModes(g)
    BY ModesExist
  <2> DEFINE D == {n \in Nat : n \in 1..(N + 1) /\ f[n] # g[n]}
  <2>2. D = {}
    <3> SUFFICES ASSUME D # {} PROVE FALSE
      OBVIOUS
    <3>1. PICK n \in D : \A k \in D : n <= k
      BY Common!Least
    <3>2. n # 1
      BY <1>1, <1>4, <2>1, <3>1 DEF IsModes
    <3>3. n - 1 \in 1..N /\ n - 1 \in 1..(N + 1) /\ n - 1 + 1 = n
      BY <1>1, <3>1, <3>2
    <3>4. f[n - 1] = g[n - 1]
      BY <3>1, <3>3
    <3>5. f[n] = ModeAfter(program[n - 1], f[n - 1])
      BY <1>5, <3>3
    <3>6. g[n] = ModeAfter(program[n - 1], g[n - 1])
      BY <2>1, <3>1, <3>2 DEF IsModes
    <3> QED BY <3>1, <3>4, <3>5, <3>6
  <2>3. \A n \in 1..(N + 1) : f[n] = g[n]
    BY <1>1, <2>2
  <2> QED BY <2>1, <2>3
<1> QED BY <1>3, <1>4, <1>5, <1>6

(***************************************************************************)
(* The registers on an edge.                                               *)
(***************************************************************************)
LEMMA RegisterFacts ==
  /\ Protocol!Free => host \notin {"wait", "stopped"} /\ ~start /\ ~interrupt /\ ~irq
  /\ Protocol!Launched \/ Protocol!Accepted \/ Protocol!Running =>
       host = "wait" /\ start /\ ~interrupt /\ ~irq
  /\ Protocol!Running => ~end_sw_routine
  /\ Over => host = "wait" /\ end_sw_routine /\ ~interrupt /\ ~irq
  /\ Protocol!Ended => ~start
  /\ Protocol!Signalled => host = "wait" /\ ~start /\ end_sw_routine /\ FSM!AllAsleep
  /\ Pulse => ~irq
  /\ Due => ~interrupt
BY DEF Protocol!Free, Protocol!Launched, Protocol!Accepted, Protocol!Running, Over,
       Protocol!Ending, Protocol!Ended, Protocol!Signalled, Protocol!Silent, Pulse, Due

LEMMA CtrlTyped == TypeOK => Protocol!CtrlTypeOK /\ Registers!CtrlTypeOK
BY DEF TypeOK, Protocol!CtrlTypeOK, Registers!CtrlTypeOK, FSM!AllAsleep

Ordinary(wr) == wr.reg \notin {"START", "END_SW_ROUTINE", "INTERRUPT_CONTROLER"}

\* What the host is to the registers.
HostIs == CASE host = "wait" -> "waiting"
            [] host = "stopped" -> "withdrawn"
            [] OTHER -> "free"

\* Nobody writes the registers of the program.
Ticks(wr) == Clock(wr) /\ Ordinary(wr) /\ Pending /\ HostIs' = HostIs

LEMMA TicksRegisters ==
  ASSUME TypeOK, NEW wr, Ticks(wr),
         FSM!AllAsleep /\ end_sw_routine => FSM!AllAsleep'
  PROVE  /\ Registers!Edge(wr) /\ Registers!Sleep /\ Registers!Pending
         /\ Protocol!Free => Protocol!Free'
         /\ Protocol!Launched => Protocol!Accepted'
         /\ Protocol!Accepted => Protocol!Running'
         /\ Protocol!Running => Protocol!Running'
         /\ Protocol!Ending => Protocol!Ended'
         /\ Protocol!Ended => Protocol!Ended' \/ (FSM!AllAsleep /\ Protocol!Signalled')
         /\ Protocol!Signalled => Protocol!Signalled'
<1>1. Registers!Edge(wr)
  BY RegistersClock DEF Ticks
<1>2. Registers!Sleep
  BY DEF Registers!Sleep, Registers!Over, FSM!AllAsleep
<1>3. Registers!Pending
  BY DEF Registers!Pending, Ticks, Pending
<1>4. Registers!CtrlTypeOK
  BY CtrlTyped
<1>5. HostIs' = HostIs /\ wr.reg \notin {"START", "END_SW_ROUTINE", "INTERRUPT_CONTROLER"}
  BY DEF Ticks, Ordinary
<1>6. /\ Registers!Free => Registers!Free'
      /\ Registers!Launched => Registers!Accepted'
      /\ Registers!Accepted => Registers!Running'
      /\ Registers!Running => Registers!Running'
      /\ Registers!Ending => Registers!Ended'
      /\ Registers!Ended => Registers!Ended' \/ (FSM!AllAsleep /\ Registers!Signalled')
      /\ Registers!Signalled => Registers!Signalled'
  BY <1>1, <1>2, <1>3, <1>4, <1>5, Registers!HardwareEdge, Zenon DEF HostIs
<1> QED BY <1>1, <1>2, <1>3, <1>6, SameRegisters, Zenon

LEMMA TicksPulse ==
  ASSUME TypeOK, NEW wr, Ticks(wr),
         FSM!AllAsleep /\ end_sw_routine => FSM!AllAsleep'
  PROVE  /\ Protocol!Ended /\ FSM!AllAsleep /\ interrupt_controler.enable => Pulse'
         /\ Pulse => Due'
         /\ Due => Due'
         /\ Over /\ ~FSM!AllAsleep => Protocol!Ended'
         /\ Going => Going'
         /\ Starting => Going'
         /\ interrupt_controler'.enable = interrupt_controler.enable
<1>1. ASSUME Protocol!Ended, FSM!AllAsleep, interrupt_controler.enable PROVE Pulse'
  <2>1. interrupt' = (interrupt_controler.status /\ load_intc(FSM!AllAsleep))
    BY DEF Ticks, Clock, CtrlClock, InterruptClock
  <2>2. interrupt'
    BY <1>1, <2>1 DEF load_intc, Protocol!Ended, Protocol!status
  <2>3. ~Protocol!Ended'
    BY <2>2 DEF Protocol!Ended, Protocol!Silent
  <2> QED BY <1>1, <2>2, <2>3, TicksRegisters DEF Pulse
<1>2. irq' = (irq \/ interrupt)
  BY DEF Ticks, Pending
<1>3. (Pulse => Due') /\ (Due => Due')
  BY <1>2, TicksRegisters DEF Pulse, Due
<1>4. Over /\ ~FSM!AllAsleep => Protocol!Ended'
  BY TicksRegisters DEF Over
<1>5. (Going => Going') /\ (Starting => Going')
  BY TicksRegisters DEF Going, Starting
<1>6. interrupt_controler'.enable = interrupt_controler.enable
  <2>1. interrupt_controler' = [interrupt_controler EXCEPT !.status = @ \/ enable_endSW]
    BY DEF Ticks, Ordinary, Clock, CtrlClock, InterruptClock, Loaded
  <2> QED BY <2>1 DEF TypeOK
<1> QED BY <1>1, <1>3, <1>4, <1>5, <1>6

\* The configuration registers on an edge.
LEMMA ClockConfig ==
  ASSUME NEW wr, Clock(wr)
  PROVE  /\ safe_configuration' = Loaded(wr, "SAFE_CONFIGURATION", safe_configuration)
         /\ dmr_mask' = Loaded(wr, "DMR_MASK", dmr_mask)
         /\ master_core' = Loaded(wr, "MASTER_CORE", master_core)
         /\ critical_section' = Loaded(wr, "CRITICAL_SECTION", critical_section)
         /\ initial_sync_master' = Loaded(wr, "INITIAL_SYNC_MASTER", initial_sync_master)
         /\ external_debug_req' = (IF FSM!Start_Boot THEN 2 ELSE 0)
                                  + (IF safe = "IDLE" THEN 1 ELSE 0)
         /\ dmr_rec' = FSM!DMR_Rec
         /\ master_core_ff' = IF FSM!AllAsleep THEN master_core ELSE master_core_ff
BY DEF Clock, CtrlClock, ConfigClock, MasterNext, FSM!en_ext_debug_req

\* The machines on an edge.
LEMMA ClockMachines ==
  ASSUME NEW wr, Clock(wr)
  PROVE  /\ safe' = FSM!SafeNext
         /\ single' = FSM!SingleNext
         /\ tmr' = [h \in Hart |-> FSM!TmrNext(h)]
         /\ tmr_error_ff' = FSM!TmrErrorNext
BY DEF Clock, FSM!FsmClock, Hart

(***************************************************************************)
(* The machines of the harts, when they are all in state t; or when only   *)
(* that of m is not idle.                                                  *)
(***************************************************************************)
LEMMA AllInSignals ==
  ASSUME DualOff, NEW t, AllIn(t), NEW m \in Hart, master_core = {m}
  PROVE  /\ \A h \in Hart : tmr[h] = t
         /\ \A S : FSM!TmrIn(S) = IF t \in S THEN Hart ELSE {}
         /\ Voting <=> t \in FSM!TmrVoting \/ safe = "BOOT"
         /\ FSM!Interrupt_Halt = (IF t = "TMR_START" THEN Hart ELSE {})
              \cup (IF t = "TMR_SH_HALT" THEN Hart \ {m} ELSE {})
              \cup (IF single = "SINGLE_START" THEN {m} ELSE {})
         /\ FSM!Interrupt_Sync = (IF t = "TMR_MS_INTRSYNC" THEN Hart ELSE {})
              \cup (IF t = "TMR_END_SYNC" THEN {m} ELSE {})
         /\ FSM!Interrupt_swResync = IF t \in {"TMR_SYNCINTC", "TMR_SWSYNC"} THEN Hart ELSE {}
         /\ FSM!SwitchToSingle = IF t = "TMR_END_SYNC" THEN {m} ELSE {}
         /\ FSM!Switch_TMRtoSingle = IF t = "TMR_END_SYNC" THEN {m} ELSE {}
         /\ FSM!Switch_SingletoTMR = IF t = "TMR_SH_HALT" THEN Hart ELSE {}
         /\ FSM!halt_req <=> t = "TMR_SH_HALT"
         /\ FSM!Start_Boot <=> safe = "SINGLE_MODE" \/ t \in {"TMR_START", "TMR_BOOT"}
         /\ t # "TMR_SYNC" => FSM!TmrErrorNext = [seen |-> FALSE, pending |-> FALSE]
<1>1. \A h \in Hart : tmr[h] = t
  BY DEF AllIn
<1>2. \A S : FSM!TmrIn(S) = IF t \in S THEN Hart ELSE {}
  BY <1>1, HartIs DEF FSM!TmrIn
<1>3. /\ FSM!Switch_TMRtoSingle = IF t = "TMR_END_SYNC" THEN {m} ELSE {}
      /\ FSM!Switch_SingletoTMR = IF t = "TMR_SH_HALT" THEN Hart ELSE {}
  BY <1>2 DEF FSM!Switch_TMRtoSingle, FSM!Switch_SingletoTMR
<1>4. /\ FSM!SwitchToSingle = IF t = "TMR_END_SYNC" THEN {m} ELSE {}
      /\ FSM!halt_req <=> t = "TMR_SH_HALT"
      /\ FSM!Start_Boot <=> safe = "SINGLE_MODE" \/ t \in {"TMR_START", "TMR_BOOT"}
  BY <1>2, <1>3, DualSignals
<1>5. FSM!Interrupt_Halt = (IF t = "TMR_START" THEN Hart ELSE {})
              \cup (IF t = "TMR_SH_HALT" THEN Hart \ {m} ELSE {})
              \cup (IF single = "SINGLE_START" THEN {m} ELSE {})
  BY <1>2, <1>3, DualSignals
<1>6. FSM!Interrupt_Sync = (IF t = "TMR_MS_INTRSYNC" THEN Hart ELSE {})
              \cup (IF t = "TMR_END_SYNC" THEN {m} ELSE {})
  BY <1>2, <1>3, DualSignals
<1>7. /\ FSM!Interrupt_swResync = IF t \in {"TMR_SYNCINTC", "TMR_SWSYNC"} THEN Hart ELSE {}
      /\ Voting <=> t \in FSM!TmrVoting \/ safe = "BOOT"
  BY <1>2 DEF FSM!Interrupt_swResync, Voting, FSM!Tmr_voter_enable, Hart
<1>8. t # "TMR_SYNC" => FSM!TmrErrorNext = [seen |-> FALSE, pending |-> FALSE]
  BY <1>2 DEF FSM!TmrErrorNext, Hart, FSM!Hart
<1> QED BY <1>1, <1>2, <1>3, <1>4, <1>5, <1>6, <1>7, <1>8

LEMMA OnlyInSignals ==
  ASSUME DualOff, NEW t, NEW m \in Hart, OnlyIn(m, t), master_core = {m},
         t \in {"TMR_SH_HALT", "TMR_END_SYNC"}, safe # "BOOT", single # "SINGLE_START"
  PROVE  /\ \A h \in Hart : tmr[h] = IF h = m THEN t ELSE "TMR_IDLE"
         /\ \A S : "TMR_IDLE" \notin S => FSM!TmrIn(S) = IF t \in S THEN {m} ELSE {}
         /\ FSM!TmrIn({"TMR_IDLE"}) # Hart
         /\ Voting <=> t \in FSM!TmrVoting
         /\ FSM!Interrupt_Halt = {}
         /\ FSM!Interrupt_Sync = IF t = "TMR_END_SYNC" THEN {m} ELSE {}
         /\ FSM!Interrupt_swResync = {}
         /\ FSM!SwitchToSingle = IF t = "TMR_END_SYNC" THEN {m} ELSE {}
         /\ FSM!Switch_TMRtoSingle = IF t = "TMR_END_SYNC" THEN {m} ELSE {}
         /\ FSM!Switch_SingletoTMR = IF t = "TMR_SH_HALT" THEN {m} ELSE {}
         /\ FSM!halt_req <=> t = "TMR_SH_HALT"
         /\ FSM!Start_Boot <=> safe = "SINGLE_MODE"
<1>1. \A h \in Hart : tmr[h] = IF h = m THEN t ELSE "TMR_IDLE"
  BY DEF OnlyIn
<1>2. \A S : "TMR_IDLE" \notin S => FSM!TmrIn(S) = IF t \in S THEN {m} ELSE {}
  BY <1>1, HartIs DEF FSM!TmrIn
<1>3. FSM!TmrIn({"TMR_IDLE"}) # Hart
  BY <1>1, HartIs DEF FSM!TmrIn
<1>4. /\ FSM!TmrIn({"TMR_END_SYNC"}) = IF t = "TMR_END_SYNC" THEN {m} ELSE {}
      /\ FSM!TmrIn({"TMR_SH_HALT"}) = IF t = "TMR_SH_HALT" THEN {m} ELSE {}
      /\ FSM!TmrIn({"TMR_START", "TMR_BOOT"}) = {}
      /\ FSM!TmrIn({"TMR_START"}) = {}
      /\ FSM!TmrIn({"TMR_MS_INTRSYNC"}) = {}
      /\ FSM!TmrIn({"TMR_SYNCINTC", "TMR_SWSYNC"}) = {}
  BY <1>2
<1>5. FSM!TmrIn(FSM!TmrVoting) = IF t \in FSM!TmrVoting THEN {m} ELSE {}
  BY <1>2 DEF FSM!TmrVoting
<1>6. /\ FSM!Switch_TMRtoSingle = IF t = "TMR_END_SYNC" THEN {m} ELSE {}
      /\ FSM!Switch_SingletoTMR = IF t = "TMR_SH_HALT" THEN {m} ELSE {}
  BY <1>4 DEF FSM!Switch_TMRtoSingle, FSM!Switch_SingletoTMR
<1>7. /\ FSM!SwitchToSingle = IF t = "TMR_END_SYNC" THEN {m} ELSE {}
      /\ FSM!halt_req <=> t = "TMR_SH_HALT"
      /\ FSM!Start_Boot <=> safe = "SINGLE_MODE"
  BY <1>4, <1>6, DualSignals
<1>8. FSM!Interrupt_Halt = {}
  BY <1>4, <1>6, DualSignals
<1>9. /\ FSM!Interrupt_Sync = IF t = "TMR_END_SYNC" THEN {m} ELSE {}
      /\ FSM!Interrupt_swResync = {}
      /\ Voting <=> t \in FSM!TmrVoting
  BY <1>4, <1>5, <1>6, DualSignals DEF FSM!Interrupt_swResync, Voting, FSM!Tmr_voter_enable
<1> QED BY <1>1, <1>2, <1>3, <1>6, <1>7, <1>8, <1>9

\* The signals of the harts.
LEMMA HartSignals ==
  /\ FSM!AllAsleep <=> \A h \in Hart : core[h].mode = "sleep"
  /\ Halted = {} <=> \A h \in Hart : core[h].mode # "debug"
  /\ \A h \in Hart : h \in Halted <=> core[h].mode = "debug"
  /\ \A h \in Hart : h \in Asleep <=> core[h].mode = "sleep"
  /\ \A h \in Hart : h \in Acked <=> core[h].ack
  /\ Acked = {} <=> \A h \in Hart : ~core[h].ack
  /\ FSM!AllAck <=> \A h \in Hart : core[h].ack
  /\ FSM!AllAsleep' <=> \A h \in Hart : core'[h].mode = "sleep"
BY HartIs DEF FSM!AllAsleep, Halted, Asleep, Acked, FSM!AllAck

(***************************************************************************)
(* Types.                                                                  *)
(***************************************************************************)
CopyType == [stack : Nat, context : Nat, pc : Nat, loc : ProgramLoc]

\* The types, and what does not depend on how far the program is.
Base(m) ==
  /\ TypeOK
  /\ safe_copy \in CopyType
  /\ \A h \in Hart : Returnable(core[h])
  /\ program = job.program /\ VotedJob(job)
  /\ safe_configuration \in {0, 1}
  /\ safe # "RESET" => dmr = [h \in Hart |-> "DMR_IDLE"]
  /\ ~delay_ff /\ ~dmr_rec
  /\ host \in {"start", "wait"} => interrupt_controler.enable
  /\ m \in Hart /\ master_core = {m}

LEMMA VotedIs == VotedInv <=> \E m \in Hart : Base(m) /\ Phase(m)
BY DEF VotedInv, Base, CopyType

\* The writes that occur.
Legal(wr) ==
  \/ wr = NoWrite
  \/ \E v \in {0, 1} : wr = Write("SAFE_CONFIGURATION", v)
  \/ \E v \in SUBSET Hart : wr = Write("DMR_MASK", v)
  \/ \E h \in Hart : wr = Write("MASTER_CORE", {h})
  \/ \E v \in BOOLEAN : wr = Write("CRITICAL_SECTION", v)
  \/ \E v \in BOOLEAN : wr = Write("INITIAL_SYNC_MASTER", v)
  \/ wr = Write("START", TRUE)
  \/ wr = Write("END_SW_ROUTINE", TRUE)
  \/ wr = Write("INTERRUPT_CONTROLER", [enable |-> TRUE, status |-> FALSE])

LEMMA CallTyped ==
  ASSUME program \in Seq(ProgramCall), NEW n
  PROVE  /\ CallAt(n) \in ProgramCall \/ CallAt(n) = <<"return", 0>>
         /\ CallAt(n)[1] # "return" => n \in 1..Len(program) /\ CallAt(n) = program[n]
         /\ CallAt(n)[1] = Stop => CallAt(n)[2] \in Hart
         /\ CallAt(n)[1] = Activate => CallAt(n)[2] \in FSM!Configuration
         /\ CallAt(n)[1] = Critical => CallAt(n)[2] \in BOOLEAN
         /\ CallAt(n)[1] = SetMask => CallAt(n)[2] \in SUBSET Hart
<1>1. CallAt(n) \in ProgramCall \/ CallAt(n) = <<"return", 0>>
  BY DEF CallAt
<1>2. ASSUME NEW x \in ProgramCall
      PROVE  /\ x[1] # "return"
             /\ x[1] = Stop => x[2] \in Hart
             /\ x[1] = Activate => x[2] \in FSM!Configuration
             /\ x[1] = Critical => x[2] \in BOOLEAN
             /\ x[1] = SetMask => x[2] \in SUBSET Hart
  BY DEF ProgramCall, Work, Checkpoint, Activate, Stop, Critical, SetMask, Hart, FSM!Hart
<1>3. <<"return", 0>>[1] = "return" /\ Stop # "return" /\ Activate # "return"
      /\ Critical # "return" /\ SetMask # "return"
  BY DEF Activate, Stop, Critical, SetMask
<1>4. CallAt(n)[1] # "return" => n \in 1..Len(program) /\ CallAt(n) = program[n]
  BY <1>3 DEF CallAt
<1> QED BY <1>1, <1>2, <1>3, <1>4

LEMMA RecTyped ==
  ASSUME NEW md \in {"run", "sleep", "debug"}, NEW l \in Loc, NEW n \in Nat,
         NEW r \in ProgramLoc \cup {"none"}, NEW a \in BOOLEAN
  PROVE  /\ Rec(md, l, n, r, a) \in CoreState
         /\ Rec(md, l, n, r, a).mode = md /\ Rec(md, l, n, r, a).loc = l
         /\ Rec(md, l, n, r, a).op = n /\ Rec(md, l, n, r, a).ret = r
         /\ Rec(md, l, n, r, a).ack = a
BY DEF Rec, CoreState

LEMMA CoreTyped ==
  ASSUME NEW c \in CoreState
  PROVE  /\ c.mode \in {"run", "sleep", "debug"} /\ c.loc \in Loc /\ c.op \in Nat
         /\ c.ret \in ProgramLoc \cup {"none"} /\ c.ack \in BOOLEAN
BY DEF CoreState

\* The ways to move on.
LEMMA GoesTyped ==
  ASSUME NEW c \in CoreState, NEW l \in Loc
  PROVE  /\ Goes(c, l) \in CoreState
         /\ Goes(c, l).mode = c.mode /\ Goes(c, l).loc = l /\ Goes(c, l).op = c.op
         /\ Goes(c, l).ret = c.ret /\ Goes(c, l).ack = c.ack
BY DEF Goes, Rec, CoreState

LEMMA ReturnsTyped ==
  ASSUME NEW c \in CoreState
  PROVE  /\ Returns(c) \in CoreState
         /\ Returns(c).mode = c.mode /\ Returns(c).loc = "main" /\ Returns(c).op = c.op + 1
         /\ Returns(c).ret = c.ret /\ Returns(c).ack = c.ack
BY DEF Returns, Rec, CoreState, Loc, ProgramLoc

LEMMA DozesTyped ==
  ASSUME NEW c \in CoreState
  PROVE  /\ Dozes(c) \in CoreState
         /\ Dozes(c).mode = "sleep" /\ Dozes(c).loc = c.loc /\ Dozes(c).op = c.op
         /\ Dozes(c).ret = c.ret /\ Dozes(c).ack = c.ack
BY DEF Dozes, Rec, CoreState

LEMMA AcksTyped ==
  ASSUME NEW c \in CoreState, NEW a \in BOOLEAN, NEW l \in Loc
  PROVE  /\ Acks(c, a, l) \in CoreState
         /\ Acks(c, a, l).mode = c.mode /\ Acks(c, a, l).loc = l /\ Acks(c, a, l).op = c.op
         /\ Acks(c, a, l).ret = c.ret /\ Acks(c, a, l).ack = a
BY DEF Acks, Rec, CoreState

LEMMA SetsTyped ==
  ASSUME NEW c \in CoreState, NEW l \in Loc
  PROVE  /\ Sets(c, l) \in CoreState
         /\ Sets(c, l).mode = c.mode /\ Sets(c, l).loc = l /\ Sets(c, l).op = c.op
         /\ Sets(c, l).ret = c.ret /\ Sets(c, l).ack
<1>1. TRUE \in BOOLEAN
  OBVIOUS
<1> QED BY <1>1, AcksTyped, Zenon DEF Sets

LEMMA ClearsTyped ==
  ASSUME NEW c \in CoreState, NEW l \in Loc
  PROVE  /\ Clears(c, l) \in CoreState
         /\ Clears(c, l).mode = c.mode /\ Clears(c, l).loc = l /\ Clears(c, l).op = c.op
         /\ Clears(c, l).ret = c.ret /\ ~Clears(c, l).ack
<1>1. FALSE \in BOOLEAN
  OBVIOUS
<1> QED BY <1>1, AcksTyped, Zenon DEF Clears

LEMMA ResetsTyped ==
  ASSUME NEW c \in CoreState
  PROVE  /\ Resets(c) \in CoreState
         /\ Resets(c).mode = c.mode /\ Resets(c).loc = "main" /\ Resets(c).op = c.op + 1
         /\ Resets(c).ret = c.ret /\ ~Resets(c).ack
<1>1. ASSUME NEW a \in BOOLEAN
      PROVE  /\ Rec(c.mode, "main", c.op + 1, c.ret, a) \in CoreState
             /\ Rec(c.mode, "main", c.op + 1, c.ret, a).mode = c.mode
             /\ Rec(c.mode, "main", c.op + 1, c.ret, a).loc = "main"
             /\ Rec(c.mode, "main", c.op + 1, c.ret, a).op = c.op + 1
             /\ Rec(c.mode, "main", c.op + 1, c.ret, a).ret = c.ret
             /\ Rec(c.mode, "main", c.op + 1, c.ret, a).ack = a
  BY DEF Rec, CoreState, Loc, ProgramLoc
<1>2. FALSE \in BOOLEAN
  OBVIOUS
<1> QED BY <1>1, <1>2, Zenon DEF Resets

LEMMA Locs ==
  /\ ProgramLoc \subseteq Loc /\ HandlerLoc \subseteq Loc /\ RomLoc \subseteq Loc
  /\ ProgramLoc \cap HandlerLoc = {} /\ RomLoc \cap HandlerLoc = {} /\ ProgramLoc \cap RomLoc = {}
  /\ "none" \notin ProgramLoc
BY DEF Loc, ProgramLoc, HandlerLoc, RomLoc

LEMMA DoesTyped ==
  ASSUME NEW c \in CoreState, Returnable(c), safe_copy \in CopyType,
         NEW d, NEW wr, NEW cp, Does(c, d, wr, cp)
  PROVE  d \in CoreState /\ Returnable(d) /\ cp \in CopyType
<1>c. /\ safe_copy.loc \in ProgramLoc /\ safe_copy.pc \in Nat
      /\ \A n \in Nat : /\ [safe_copy EXCEPT !.context = n] \in CopyType
                         /\ [safe_copy EXCEPT !.stack = n] \in CopyType
                         /\ \A l \in ProgramLoc : [safe_copy EXCEPT !.pc = n, !.loc = l] \in CopyType
  BY DEF CopyType
<1>1. CASE DoesRom(c, d, wr, cp)
  <2>1. Entry \in {"halt_boot", "single_boot", "debugger"} /\ Entry \in Loc
    BY DEF Entry, Loc, RomLoc
  <2>2. cp \in CopyType
    BY <1>1 DEF DoesRom, Silently
  <2>3. CASE c.mode = "run" /\ c.loc = "wfi_entry" /\ d = Dozes(c)
    BY <2>2, <2>3, DozesTyped DEF Returnable
  <2>4. CASE c.mode = "debug" /\ c.loc = "debug_entry" /\ d = Goes(c, Entry)
    BY <2>2, <2>1, <2>4, GoesTyped DEF Returnable, HandlerLoc
  <2>5. CASE c.mode = "debug" /\ c.loc = "halt_boot"
             /\ d = Rec("run", safe_copy.loc, safe_copy.pc, c.ret, c.ack)
    BY <2>2, <2>5, <1>c, Locs DEF Returnable, HandlerLoc, Rec, CoreState
  <2>6. CASE c.mode = "debug" /\ c.loc = "single_boot" /\ d = Rec("run", "crt0", 1, c.ret, c.ack)
    BY <2>2, <2>6 DEF Returnable, HandlerLoc, RomLoc, Loc, Rec, CoreState
  <2>7. CASE c.mode = "run" /\ c.loc = "crt0" /\ d = Goes(c, "main")
    <3>1. "main" \in Loc /\ "main" \notin HandlerLoc /\ "crt0" \notin HandlerLoc
      BY DEF Loc, ProgramLoc, HandlerLoc
    <3> QED BY <2>2, <2>7, <3>1, GoesTyped DEF Returnable
  <2> QED BY <1>1, <2>2, <2>3, <2>4, <2>5, <2>6, <2>7 DEF DoesRom
<1>2. ASSUME NEW l \in ProgramLoc, c.loc \notin HandlerLoc, d = Goes(c, l)
      PROVE  d \in CoreState /\ Returnable(d)
  BY <1>2, GoesTyped, Locs DEF Returnable
<1>3. ASSUME c.loc \notin HandlerLoc, d = Returns(c) \/ d = Dozes(c)
      PROVE  d \in CoreState /\ Returnable(d)
  BY <1>3, ReturnsTyped, DozesTyped DEF Returnable, HandlerLoc
<1>4. CASE DoesActivate(c, d, wr, cp)
  <2>1. cp \in CopyType
    <3>1. \/ cp = safe_copy
          \/ cp = [safe_copy EXCEPT !.context = c.op]
          \/ cp = [safe_copy EXCEPT !.pc = c.op, !.loc = "act_pc"]
      BY <1>4, Zenon DEF DoesActivate, Silently, Storing, Raising, Lowering, Keeping
    <3>2. c.op \in Nat /\ "act_pc" \in ProgramLoc
      BY CoreTyped DEF ProgramLoc
    <3> QED BY <3>1, <3>2, <1>c, Zenon
  <2>2. CASE c.loc = "act_reset_ack" /\ d = Resets(c)
    BY <2>1, <2>2, ResetsTyped DEF Returnable, HandlerLoc
  <2>3. CASE c.loc # "act_reset_ack"
    <3>1. /\ c.loc \notin HandlerLoc
          /\ \/ \E l \in ProgramLoc : d = Goes(c, l)
             \/ d = Returns(c) \/ d = Dozes(c)
      <4>1. {"act_conf", "act_context", "act_sync", "act_pc", "act_wfi", "act_reset_ack"} \subseteq ProgramLoc
        BY DEF ProgramLoc
      <4>2. c.loc \in {"main", "act_conf", "act_context", "act_sync", "act_pc", "act_wfi", "act_reset_sync"}
        BY <1>4, <2>3, Zenon DEF DoesActivate
      <4>3. c.loc \notin HandlerLoc
        BY <4>2 DEF HandlerLoc
      <4>4. \/ \E l \in {"act_conf", "act_context", "act_sync", "act_pc", "act_wfi", "act_reset_ack"} :
                d = Goes(c, l)
            \/ d = Returns(c) \/ d = Dozes(c)
        BY <1>4, <2>3, Zenon DEF DoesActivate
      <4> QED BY <4>1, <4>3, <4>4, Zenon
    <3>2. CASE \E l \in ProgramLoc : d = Goes(c, l)
      BY <1>2, <2>1, <3>1, <3>2
    <3>3. CASE d = Returns(c) \/ d = Dozes(c)
      BY <1>3, <2>1, <3>1, <3>3
    <3> QED BY <3>1, <3>2, <3>3
  <2>4. c.loc = "act_reset_ack" => d = Resets(c)
    BY <1>4 DEF DoesActivate
  <2> QED BY <2>2, <2>3, <2>4
<1>5. CASE DoesStop(c, d, wr, cp)
  BY <1>2, <1>3, <1>5 DEF DoesStop, ProgramLoc, HandlerLoc, Silently, Storing, Raising, Lowering
<1>6. CASE DoesCheckpoint(c, d, wr, cp)
  BY <1>2, <1>c, <1>6, CoreTyped DEF DoesCheckpoint, ProgramLoc, HandlerLoc, Keeping
<1>7. CASE DoesCall(c, d, wr, cp)
  <2>1. cp = safe_copy
    BY <1>7, Zenon DEF DoesCall, Silently, Storing, Raising
  <2>2. c.loc \in {"call_end", "main", "exit_wfi"}
    BY <1>7, Zenon DEF DoesCall
  <2>3. c.loc \notin HandlerLoc
    BY <2>2 DEF HandlerLoc
  <2>4. d = Returns(c) \/ d = Dozes(c) \/ d = Goes(c, "exit_wfi")
    BY <1>7, Zenon DEF DoesCall
  <2>5. "exit_wfi" \in ProgramLoc
    BY DEF ProgramLoc
  <2> QED BY <1>2, <1>3, <1>c, <2>1, <2>3, <2>4, <2>5, Zenon
<1>8. CASE DoesHandler(c, d, wr, cp)
  <2>1. cp \in CopyType /\ c.loc \in HandlerLoc /\ c.ret \in ProgramLoc
    BY <1>8 DEF DoesHandler, Silently, Returnable, HandlerLoc
  <2>2. ASSUME NEW l \in HandlerLoc, d = Sets(c, l) \/ d = Clears(c, l)
        PROVE  d \in CoreState /\ Returnable(d)
    <3>1. CASE d = Sets(c, l)
      BY <2>1, <3>1, SetsTyped, Locs DEF Returnable
    <3>2. CASE d = Clears(c, l)
      BY <2>1, <3>2, ClearsTyped, Locs DEF Returnable
    <3> QED BY <2>2, <3>1, <3>2
  <2>3. CASE d = Rec(c.mode, c.ret, c.op, "none", c.ack)
    BY <2>1, <2>3, Locs DEF Returnable, Rec, CoreState
  <2>4. \/ \E l \in HandlerLoc : d = Sets(c, l) \/ d = Clears(c, l)
        \/ d = Rec(c.mode, c.ret, c.op, "none", c.ack)
    BY <1>8 DEF DoesHandler, HandlerLoc
  <2> QED BY <2>1, <2>2, <2>3, <2>4
<1> QED BY <1>1, <1>4, <1>5, <1>6, <1>7, <1>8 DEF Does

LEMMA DoesLegal ==
  ASSUME program = job.program, VotedJob(job),
         NEW c, NEW d, NEW wr, NEW cp, Does(c, d, wr, cp),
         c.loc = "act_conf" => IsCall(c.op, Activate),
         c.loc = "stop_master" => IsCall(c.op, Stop)
  PROVE  Legal(wr)
<1>1. CASE DoesRom(c, d, wr, cp) \/ DoesCheckpoint(c, d, wr, cp) \/ DoesHandler(c, d, wr, cp)
  <2>1. wr = NoWrite
    BY <1>1 DEF DoesRom, DoesCheckpoint, DoesHandler, Silently, Keeping
  <2> QED BY <2>1 DEF Legal
<1>2. CASE DoesActivate(c, d, wr, cp)
  <2>1. c.loc = "act_conf" => CallAt(c.op)[2] = 1
    BY DEF VotedJob, CallAt, IsCall, FSM!TCLS
  <2>2. \/ wr = NoWrite \/ wr = Write("SAFE_CONFIGURATION", 1)
        \/ wr = Write("INITIAL_SYNC_MASTER", TRUE) \/ wr = Write("INITIAL_SYNC_MASTER", FALSE)
    BY <1>2, <2>1, Zenon DEF DoesActivate, Silently, Storing, Raising, Lowering, Keeping
  <2>3. TRUE \in BOOLEAN /\ FALSE \in BOOLEAN /\ 1 \in {0, 1}
    OBVIOUS
  <2> QED BY <2>2, <2>3, Zenon DEF Legal
<1>3. CASE DoesStop(c, d, wr, cp)
  <2>1. c.loc = "stop_master" => CallAt(c.op)[2] \in Hart
    <3>1. c.loc = "stop_master" => CallAt(c.op)[1] = Stop
      BY DEF CallAt, IsCall
    <3> QED BY <3>1, CallTyped DEF VotedJob
  <2>2. \/ wr = NoWrite \/ wr = Write("CRITICAL_SECTION", FALSE)
        \/ \E h \in Hart : wr = Write("MASTER_CORE", {h})
        \/ wr = Write("SAFE_CONFIGURATION", 0)
    BY <1>3, <2>1, Zenon DEF DoesStop, Silently, Storing, Raising, Lowering
  <2>3. FALSE \in BOOLEAN /\ 0 \in {0, 1}
    OBVIOUS
  <2> QED BY <2>2, <2>3, Zenon DEF Legal
<1>4. CASE DoesCall(c, d, wr, cp)
  <2>1. /\ CallAt(c.op)[1] = Critical => CallAt(c.op)[2] \in BOOLEAN
        /\ CallAt(c.op)[1] = SetMask => CallAt(c.op)[2] \in SUBSET Hart
    BY CallTyped DEF VotedJob
  <2>2. \/ wr = NoWrite \/ \E v \in BOOLEAN : wr = Write("CRITICAL_SECTION", v)
        \/ \E v \in SUBSET Hart : wr = Write("DMR_MASK", v)
        \/ wr = Write("END_SW_ROUTINE", TRUE)
    BY <1>4, <2>1, Zenon DEF DoesCall, Silently, Storing, Raising, Lowering
  <2> QED BY <2>2, Zenon DEF Legal
<1> QED BY <1>1, <1>2, <1>3, <1>4 DEF Does

LEMMA LegalValues ==
  ASSUME NEW wr, Legal(wr)
  PROVE  /\ wr.reg = "SAFE_CONFIGURATION" => wr.val \in {0, 1}
         /\ wr.reg = "DMR_MASK" => wr.val \in SUBSET Hart
         /\ wr.reg = "MASTER_CORE" => \E h \in Hart : wr.val = {h}
         /\ wr.reg \in {"CRITICAL_SECTION", "INITIAL_SYNC_MASTER", "START", "END_SW_ROUTINE"} =>
              wr.val \in BOOLEAN
         /\ wr.reg = "INTERRUPT_CONTROLER" => wr.val = [enable |-> TRUE, status |-> FALSE]
<1>1. \A r, v : Write(r, v).reg = r /\ Write(r, v).val = v
  BY DEF Write
<1>2. CASE wr = NoWrite
  BY <1>2 DEF NoWrite
<1>3. CASE \E v \in {0, 1} : wr = Write("SAFE_CONFIGURATION", v)
  BY <1>1, <1>3
<1>4. CASE \E v \in SUBSET Hart : wr = Write("DMR_MASK", v)
  BY <1>1, <1>4
<1>5. CASE \E h \in Hart : wr = Write("MASTER_CORE", {h})
  BY <1>1, <1>5
<1>6. ASSUME NEW r \in {"CRITICAL_SECTION", "INITIAL_SYNC_MASTER", "START", "END_SW_ROUTINE"},
             NEW v \in BOOLEAN, wr = Write(r, v)
      PROVE  wr.reg = r /\ wr.val \in BOOLEAN
  BY <1>1, <1>6, Zenon
<1>7. CASE \E v \in BOOLEAN : wr = Write("CRITICAL_SECTION", v) \/ wr = Write("INITIAL_SYNC_MASTER", v)
  <2>1. wr.reg \in {"CRITICAL_SECTION", "INITIAL_SYNC_MASTER"} /\ wr.val \in BOOLEAN
    BY <1>6, <1>7
  <2> QED BY <2>1
<1>8. CASE wr = Write("START", TRUE) \/ wr = Write("END_SW_ROUTINE", TRUE)
  <2>1. wr.reg \in {"START", "END_SW_ROUTINE"} /\ wr.val \in BOOLEAN
    BY <1>6, <1>8
  <2> QED BY <2>1
<1>9. CASE wr = Write("INTERRUPT_CONTROLER", [enable |-> TRUE, status |-> FALSE])
  <2>1. wr.reg = "INTERRUPT_CONTROLER" /\ wr.val = [enable |-> TRUE, status |-> FALSE]
    BY <1>1, <1>9, Zenon
  <2> QED BY <2>1
<1> QED BY <1>2, <1>3, <1>4, <1>5, <1>7, <1>8, <1>9 DEF Legal

LEMMA StatesTyped ==
  /\ safe \in FSM!SafeState => FSM!SafeNext \in FSM!SafeState
  /\ single \in FSM!SingleState => FSM!SingleNext \in FSM!SingleState
  /\ \A h \in FSM!Hart : tmr[h] \in FSM!TmrState => FSM!TmrNext(h) \in FSM!TmrState
  /\ \A h \in FSM!Hart : dmr[h] \in FSM!DmrState => FSM!DmrNext(h) \in FSM!DmrState
<1>1. safe \in FSM!SafeState => FSM!SafeNext \in FSM!SafeState
  BY DEF FSM!SafeState, FSM!SafeNext
<1>2. single \in FSM!SingleState => FSM!SingleNext \in FSM!SingleState
  BY DEF FSM!SingleState, FSM!SingleNext
<1>3. \A h \in FSM!Hart : tmr[h] \in FSM!TmrState => FSM!TmrNext(h) \in FSM!TmrState
  BY DEF FSM!TmrState, FSM!TmrNext
<1>4. \A h \in FSM!Hart : dmr[h] \in FSM!DmrState => FSM!DmrNext(h) \in FSM!DmrState
  BY DEF FSM!DmrState, FSM!DmrNext, FSM!DmrSyncNext
<1> QED BY <1>1, <1>2, <1>3, <1>4

LEMMA BaseDual ==
  ASSUME NEW m, Base(m), safe = "RESET" => dmr = [h \in Hart |-> "DMR_RESET"]
  PROVE  DualOff
BY DEF Base, DualOff

LEMMA TypesStay ==
  ASSUME NEW m, Base(m), DualOff, safe # "DMR_MODE", NEW wr, Legal(wr), Clock(wr),
         mismatch' \in BOOLEAN, irq' \in BOOLEAN,
         host' \in {"choose", "mask", "master", "enable", "start", "wait", "stopped"},
         core' \in [Hart -> CoreState]
  PROVE  /\ TypeOK' /\ safe_configuration' \in {0, 1}
         /\ dmr' = [h \in Hart |-> "DMR_IDLE"] /\ ~delay_ff' /\ ~dmr_rec'
         /\ interrupt_controler.enable => interrupt_controler'.enable
         /\ \E n \in Hart : master_core' = {n}
         /\ wr.reg # "MASTER_CORE" => master_core' = {m}
<1>1. TypeOK /\ FSM!FsmTypeOK /\ m \in Hart /\ master_core = {m} /\ safe_configuration \in {0, 1}
  BY DEF Base, TypeOK
<1>2. dmr' = [h \in Hart |-> "DMR_IDLE"] /\ ~delay_ff'
  BY DualStaysOff DEF Clock
<1>3. safe' \in FSM!SafeState /\ single' \in FSM!SingleState /\ tmr' \in [Hart -> FSM!TmrState]
  BY <1>1, ClockMachines, StatesTyped, HartIs DEF FSM!FsmTypeOK
<1>4. dmr' \in [Hart -> FSM!DmrState] /\ delay_ff' \in BOOLEAN
  <2>1. "DMR_IDLE" \in FSM!DmrState
    BY DEF FSM!DmrState
  <2>2. delay_ff' \in BOOLEAN
    BY DEF Clock, FSM!FsmClock, FSM!DelayNext
  <2> QED BY <1>2, <2>1, <2>2
<1>5. tmr_error_ff' \in [seen : BOOLEAN, pending : BOOLEAN]
  BY <1>1 DEF Clock, FSM!FsmClock, FSM!TmrErrorNext, FSM!FsmTypeOK, TypeOK
<1>6. FSM!FsmTypeOK'
  BY <1>3, <1>4, <1>5, HartIs DEF FSM!FsmTypeOK
<1>7. /\ safe_configuration' \in {0, 1} /\ dmr_mask' \subseteq Hart
      /\ critical_section' \in BOOLEAN /\ initial_sync_master' \in BOOLEAN
  <2>1. safe_configuration' \in {0, 1}
    BY <1>1, ClockConfig, LegalValues DEF Loaded
  <2>2. dmr_mask' \subseteq Hart
    <3>1. dmr_mask \subseteq Hart
      BY <1>1, HartIs DEF TypeOK
    <3> QED BY <3>1, ClockConfig, LegalValues DEF Loaded
  <2>3. critical_section' \in BOOLEAN /\ initial_sync_master' \in BOOLEAN
    <3>1. critical_section \in BOOLEAN /\ initial_sync_master \in BOOLEAN
      BY <1>1 DEF TypeOK
    <3>2. wr.reg \in {"CRITICAL_SECTION", "INITIAL_SYNC_MASTER"} => wr.val \in BOOLEAN
      BY LegalValues
    <3> QED BY <3>1, <3>2, ClockConfig DEF Loaded
  <2> QED BY <2>1, <2>2, <2>3
<1>8. (\E n \in Hart : master_core' = {n}) /\ (wr.reg # "MASTER_CORE" => master_core' = {m})
  BY <1>1, ClockConfig, LegalValues DEF Loaded
<1>9. \E n \in Hart : master_core_ff' = {n}
  <2>1. \E n \in Hart : master_core_ff = {n}
    BY <1>1, HartIs DEF TypeOK
  <2> QED BY <1>1, <2>1, ClockConfig
<1>10. external_debug_req' \in 0..3 /\ ~dmr_rec' /\ dmr_rec' \in BOOLEAN
  <2>1. ~FSM!DMR_Rec
    BY DualSignals
  <2>2. dmr_rec' = FSM!DMR_Rec /\ dmr_rec' \in BOOLEAN
    BY ClockConfig DEF FSM!DMR_Rec
  <2>3. external_debug_req' \in 0..3
    BY ClockConfig
  <2> QED BY <2>1, <2>2, <2>3
<1>11. /\ start' \in BOOLEAN /\ end_sw_routine' \in BOOLEAN /\ Startff' \in BOOLEAN
       /\ Start_Flag' \in BOOLEAN /\ en_sw_routineff' \in BOOLEAN
  BY <1>1, LegalValues DEF Clock, CtrlClock, StartEndClock, Loaded, TypeOK, start_rises
<1>12. interrupt' \in BOOLEAN /\ flag_intc' \in BOOLEAN
  BY <1>1 DEF Clock, CtrlClock, InterruptClock, load_intc, TypeOK
<1>13. /\ interrupt_controler' \in [enable : BOOLEAN, status : BOOLEAN]
       /\ interrupt_controler.enable => interrupt_controler'.enable
  <2> DEFINE hw == [interrupt_controler EXCEPT !.status = @ \/ enable_endSW]
  <2>1. interrupt_controler' = IF wr.reg = "INTERRUPT_CONTROLER" THEN wr.val ELSE hw
    BY DEF Clock, CtrlClock, InterruptClock, Loaded
  <2>2. interrupt_controler \in [enable : BOOLEAN, status : BOOLEAN]
    BY <1>1 DEF TypeOK
  <2>3. hw \in [enable : BOOLEAN, status : BOOLEAN] /\ hw.enable = interrupt_controler.enable
    BY <2>2
  <2>4. CASE wr.reg = "INTERRUPT_CONTROLER"
    <3>1. interrupt_controler' = [enable |-> TRUE, status |-> FALSE]
      BY <2>1, <2>4, LegalValues
    <3> QED BY <3>1
  <2>5. CASE wr.reg # "INTERRUPT_CONTROLER"
    <3>1. interrupt_controler' = hw
      BY <2>1, <2>5
    <3> QED BY <2>3, <3>1, Zenon
  <2> QED BY <2>4, <2>5
<1>14. {critical_section', initial_sync_master', start', end_sw_routine', dmr_rec', Startff',
        Start_Flag', en_sw_routineff', interrupt', flag_intc', mismatch'} \subseteq BOOLEAN
  BY <1>7, <1>10, <1>11, <1>12
<1>15. core' \in [FSM!Hart -> [mode : {"run", "sleep", "debug"}, loc : Loc, op : Nat,
                               ret : ProgramLoc \cup {"none"}, ack : BOOLEAN]]
  BY HartIs DEF CoreState
<1>16. safe_configuration' \in FSM!Configuration
  BY <1>7 DEF FSM!Configuration, FSM!SINGLE, FSM!TCLS
<1>17. TypeOK'
  BY <1>6, <1>7, <1>8, <1>9, <1>10, <1>13, <1>14, <1>15, <1>16, HartIs DEF TypeOK
<1> QED BY <1>2, <1>7, <1>8, <1>10, <1>13, <1>17

(***************************************************************************)
(* What all phases have in common.                                         *)
(***************************************************************************)
Common0 ==
  /\ DualOff /\ safe # "DMR_MODE"
  /\ \A h \in FSM!Interrupt_Halt \ Halted : ~core[h].ack
  /\ \/ FSM!Interrupt_Sync \cup FSM!Interrupt_swResync = {}
     \/ Together \/ ~Voting
  /\ \A h \in Hart : core[h].mode = "run" =>
       /\ core[h].loc = "act_conf" => IsCall(core[h].op, Activate)
       /\ core[h].loc = "stop_master" => IsCall(core[h].op, Stop)

LEMMA EarlyPhases ==
  ASSUME NEW m, Base(m), Reset(m) \/ Boot(m) \/ Idle(m) \/ SingleEntry(m) \/ SingleEnd(m)
                         \/ VotedEntry(m) \/ VotedEnd(m)
  PROVE  Common0
<1>1. PICK t \in {"TMR_RESET", "TMR_IDLE"} : AllIn(t)
  BY DEF Reset, Boot, Idle, SingleEntry, SingleEnd, VotedEntry, VotedEnd
<1>2. safe \in {"RESET", "BOOT", "IDLE", "SINGLE_MODE", "TMR_MODE"} /\ single # "SINGLE_START"
  BY DEF Reset, Boot, Idle, SingleEntry, SingleEnd, VotedEntry, VotedEnd, General
<1>3. DualOff
  <2>1. safe = "RESET" => dmr = [h \in Hart |-> "DMR_RESET"]
    BY DEF Reset, Boot, Idle, SingleEntry, SingleEnd, VotedEntry, VotedEnd, General
  <2> QED BY <2>1, BaseDual
<1>4. FSM!Interrupt_Halt = {} /\ FSM!Interrupt_Sync = {} /\ FSM!Interrupt_swResync = {}
  BY <1>1, <1>2, <1>3, AllInSignals DEF Base
<1>5. \A h \in Hart : core[h].loc \in {"wfi_entry", "stop_wfi", "exit_wfi"}
  BY DEF Reset, Boot, Idle, SingleEntry, SingleEnd, VotedEntry, VotedEnd, Fresh, AllRest, Resting, Dozing
<1> QED BY <1>2, <1>3, <1>4, <1>5 DEF Common0

LEMMA SinglePhases ==
  ASSUME NEW m, Base(m), SingleStart(m) \/ SingleRun(m) \/ Leaving(m)
  PROVE  Common0
<1>1. AllIn("TMR_IDLE") /\ safe \in {"SINGLE_MODE", "TMR_MODE"} /\ m \in Hart /\ master_core = {m}
  BY DEF SingleStart, SingleRun, Leaving, General, Base
<1>2. DualOff
  BY <1>1, BaseDual
<1>3. /\ FSM!Interrupt_Halt = IF single = "SINGLE_START" THEN {m} ELSE {}
      /\ FSM!Interrupt_Sync = {} /\ FSM!Interrupt_swResync = {}
  BY <1>1, <1>2, AllInSignals
<1>4. single = "SINGLE_START" => ~core[m].ack
  BY DEF SingleStart, SingleRun, Leaving, General, Resting, Halting
<1>5. OthersRest(m)
  BY DEF SingleStart, SingleRun, Leaving
<1>6. /\ core[m].loc = "act_conf" => IsCall(core[m].op, Activate) \/ core[m].mode # "run"
      /\ core[m].loc # "stop_master" \/ core[m].mode # "run"
  BY DEF SingleStart, SingleRun, Leaving, Resting, Halting, Alone, Saving, Doing, Dozing, Handling, Within1
<1> QED BY <1>1, <1>2, <1>3, <1>4, <1>5, <1>6 DEF Common0, OthersRest, Resting

LEMMA JoinPhases ==
  ASSUME NEW m, Base(m), MasterWaits(m) \/ Calling(m) \/ HaltOthers(m) \/ Join(m)
  PROVE  Common0
<1>1. safe = "TMR_MODE" /\ m \in Hart /\ master_core = {m}
      /\ single \in {"SINGLE_TO_TMR", "SINGLE_IDLE"}
  BY DEF MasterWaits, Calling, HaltOthers, Join, General, Base
<1>2. DualOff
  BY <1>1, BaseDual
<1>3. core[m].loc = "act_wfi" /\ core[m].mode = "sleep"
  BY DEF MasterWaits, Calling, HaltOthers, Join, Saved, Saving
<1>4. CASE MasterWaits(m)
  <2>1. FSM!Interrupt_Halt = {} /\ FSM!Interrupt_Sync = {} /\ FSM!Interrupt_swResync = {}
    BY <1>1, <1>2, <1>4, OnlyInSignals DEF MasterWaits
  <2> QED BY <1>1, <1>2, <1>3, <1>4, <2>1 DEF MasterWaits, OthersRest, Resting, Common0
<1>5. CASE Calling(m) \/ HaltOthers(m)
  <2>1. AllIn("TMR_SH_HALT")
    BY <1>5 DEF Calling, HaltOthers
  <2>2. FSM!Interrupt_Halt = Hart \ {m} /\ FSM!Interrupt_Sync = {} /\ FSM!Interrupt_swResync = {}
    BY <1>1, <1>2, <2>1, AllInSignals
  <2>3. \A h \in Hart \ {m} : ~core[h].ack /\ core[h].loc \notin {"act_conf", "stop_master"}
    BY <1>5 DEF Calling, HaltOthers, OthersRest, Resting, Halting
  <2> QED BY <1>1, <1>2, <1>3, <2>2, <2>3 DEF Common0
<1>6. CASE Join(m)
  <2>1. AllIn("TMR_WAIT_SH")
    BY <1>6 DEF Join
  <2>2. FSM!Interrupt_Halt = {} /\ FSM!Interrupt_Sync = {} /\ FSM!Interrupt_swResync = {}
    BY <1>1, <1>2, <2>1, AllInSignals
  <2>3. \A h \in Hart \ {m} : core[h].loc \notin {"act_conf", "stop_master"}
    BY <1>6 DEF Join, Joining, Halting, Doing, Dozing
  <2> QED BY <1>1, <1>2, <1>3, <2>2, <2>3 DEF Common0
<1> QED BY <1>4, <1>5, <1>6

LEMMA SyncPhases ==
  ASSUME NEW m, Base(m), Joined(m) \/ Sync(m) \/ Repair(m) \/ Repaired(m)
  PROVE  Common0
<1>1. safe = "TMR_MODE" /\ m \in Hart /\ master_core = {m} /\ single = "SINGLE_IDLE" /\ Together
  BY DEF Joined, Sync, Repair, Repaired, General, Base
<1>2. DualOff
  BY <1>1, BaseDual
<1>3. PICK t \in {"TMR_MS_INTRSYNC", "TMR_SYNC", "TMR_SYNCINTC", "TMR_SWSYNC"} : AllIn(t)
  BY DEF Joined, Sync, Repair, Repaired
<1>4. FSM!Interrupt_Halt = {}
  BY <1>1, <1>2, <1>3, AllInSignals
<1>5. /\ core[0].mode = "run" => core[0].loc # "act_conf"
      /\ core[0].mode = "run" /\ core[0].loc = "stop_master" => IsCall(core[0].op, Stop)
  BY DEF Joined, Sync, Repair, Repaired, VotedRun, VotedSleep, Doing, Dozing, Handling, Voted, Within1,
         HandlerLoc
<1>6. \A h \in Hart : core[h] = core[0]
  BY <1>1, HartIs DEF Together
<1> QED BY <1>1, <1>2, <1>4, <1>5, <1>6 DEF Common0

LEMMA LastPhases ==
  ASSUME NEW m, Base(m), Parting(m) \/ Handover(m) \/ VotedStart(m) \/ VotedBoot(m)
  PROVE  Common0
<1>1. /\ safe \in {"TMR_MODE", "SINGLE_MODE"} /\ m \in Hart /\ master_core = {m}
      /\ single \in {"SINGLE_IDLE", "SINGLE_RUN"}
  BY DEF Parting, Handover, HandedOver, VotedStart, VotedBoot, General, Base
<1>2. DualOff
  BY <1>1, BaseDual
<1>3. CASE Parting(m)
  <2>1. AllIn("TMR_END_SYNC") /\ \A h \in Hart : core[h].loc = "stop_wfi"
    BY <1>3 DEF Parting, Dozing
  <2>2. FSM!Interrupt_Halt = {} /\ ~Voting
    BY <1>1, <1>2, <2>1, AllInSignals DEF FSM!TmrVoting
  <2> QED BY <1>1, <1>2, <2>1, <2>2 DEF Common0
<1>4. CASE Handover(m)
  <2>1. OnlyIn(m, "TMR_END_SYNC") /\ OthersRest(m) /\ core[m].loc \in {"stop_wfi", "sync_ack", "sync_unack"}
    BY <1>4 DEF Handover, HandedOver, Dozing, Handling
  <2>2. FSM!Interrupt_Halt = {} /\ ~Voting
    BY <1>1, <1>2, <2>1, OnlyInSignals DEF FSM!TmrVoting
  <2> QED BY <1>1, <1>2, <2>1, <2>2 DEF Common0, OthersRest, Resting
<1>5. CASE VotedStart(m)
  <2>1. AllIn("TMR_START") /\ \A h \in Hart : core[h].loc \notin {"act_conf", "stop_master"} /\ ~core[h].ack
    BY <1>5, HartIs DEF VotedStart, AllRest, Resting, Together, Halting
  <2>2. FSM!Interrupt_Halt = Hart /\ FSM!Interrupt_Sync = {} /\ FSM!Interrupt_swResync = {}
    BY <1>1, <1>2, <2>1, AllInSignals
  <2> QED BY <1>1, <1>2, <2>1, <2>2 DEF Common0
<1>6. CASE VotedBoot(m)
  <2>1. AllIn("TMR_BOOT") /\ \A h \in Hart : core[h].loc \notin {"act_conf", "stop_master"}
    BY <1>6, HartIs DEF VotedBoot, Together, Halting, Doing
  <2>2. FSM!Interrupt_Halt = {} /\ FSM!Interrupt_Sync = {} /\ FSM!Interrupt_swResync = {}
    BY <1>1, <1>2, <2>1, AllInSignals
  <2> QED BY <1>1, <1>2, <2>1, <2>2 DEF Common0
<1> QED BY <1>3, <1>4, <1>5, <1>6

LEMMA PhasesCommon == ASSUME NEW m, Base(m), Phase(m) PROVE Common0
BY EarlyPhases, SinglePhases, JoinPhases, SyncPhases, LastPhases DEF Phase

(***************************************************************************)
(* One edge on which the host writes nothing: the harts of G become d, and *)
(* the registers are clocked with the write wr.                            *)
(***************************************************************************)
HaltedAs == Rec("debug", "debug_entry", 0, "none", FALSE)

Moves(h, c, d, wr) ==
  \/ h \notin Diverted /\ Does(c, d, wr, safe_copy')
  \/ h \in FSM!Interrupt_Halt \ Halted /\ d = HaltedAs /\ Silently(wr, safe_copy')
  \/ /\ h \in FSM!Interrupt_Sync \cap Interruptible
     /\ d = Interrupted(c, "sync_ack") /\ Silently(wr, safe_copy')
  \/ /\ h \in FSM!Interrupt_swResync \cap Interruptible
     /\ d = Interrupted(c, "resync_ack") /\ Silently(wr, safe_copy')

\* The harts that may move, in one of the ways above.
Movable == {Awake, FSM!Interrupt_Halt \ Halted, FSM!Interrupt_Sync \cap Interruptible,
            FSM!Interrupt_swResync \cap Interruptible}

\* A fault does not hit the harts at the wfi instructions that end a mode.
Disturbs(G) == G = {} /\ \E h \in Hart : /\ core[h].mode # "sleep"
                                         /\ core[h].loc \notin {"stop_wfi", "exit_wfi"}

Turn(G, d, wr) ==
  /\ G \subseteq Hart /\ Becomes(G, d)
  /\ Clock(wr) /\ Pending /\ UNCHANGED <<program, host, job>>
  /\ G = {} => Silently(wr, safe_copy')
  /\ \A h \in G : Moves(h, core[h], d, wr)
  /\ mismatch' \in BOOLEAN
  /\ mismatch' => Disturbs(G)
  /\ Voting /\ G # {} => \E S \in Movable : G = Hart \cap S
  /\ ~Voting /\ G # {} => \E h \in Hart : G = {h}

LEMMA Calm ==
  ASSUME DualOff, Undisturbed
  PROVE  ~mismatch' /\ mismatch' \in BOOLEAN
BY NoDual DEF Undisturbed

LEMMA EmptyBecomes ==
  ASSUME DualOff, core \in [Hart -> CoreState], HartsWait
  PROVE  \A d : Becomes({}, d)
<1>1. core = [h \in Hart |-> core[h]]
  OBVIOUS
<1>2. core' = core
  BY <1>1, NobodyRepeats DEF HartsWait
<1> QED BY <1>1, <1>2 DEF Becomes

LEMMA UnitsEither ==
  ASSUME DualOff, NEW S, NEW G \in Within(S)
  PROVE  /\ Voting => G = Hart \cap S
         /\ ~Voting => \E h \in Hart : G = {h}
BY UnitsVoted, UnitsAlone

LEMMA HartsTurn ==
  ASSUME NEW m, Base(m), Common0, Harts
  PROVE  \E G, d, wr : Turn(G, d, wr)
<1>1. core \in [Hart -> CoreState] /\ DualOff
  BY HartIs DEF Base, TypeOK, CoreState, Common0
<1>2. HartStep /\ Pending /\ UNCHANGED <<host, job>>
  BY DEF Harts
<1>3. Isolated = {}
  BY <1>1, NoDual
<1>4. CASE SomeExecute
  <2>0. PICK G \in Steppers : \E d, wr : G \cap Diverted = {} /\ Executes(G, One(G), d, wr)
    BY <1>4 DEF SomeExecute
  <2>1. PICK d, wr : G \cap Diverted = {} /\ Executes(G, One(G), d, wr)
    BY <2>0
  <2>2. G \in Within(Awake)
    BY <2>1, <1>3 DEF Steppers
  <2>3. G \subseteq Hart /\ G # {}
    BY <1>1, <2>2, WithinHarts
  <2>4. \A h \in G : Moves(h, core[h], d, wr)
    BY <2>1 DEF Executes, AllAre, Moves
  <2>5. ~mismatch' /\ mismatch' \in BOOLEAN
    BY <1>1, <2>1, Calm DEF Executes
  <2>6. Awake \in Movable
    BY DEF Movable
  <2>7. /\ Voting => \E S \in Movable : G = Hart \cap S
        /\ ~Voting => \E h \in Hart : G = {h}
    BY <1>1, <2>2, <2>6, UnitsEither
  <2> QED BY <1>2, <2>1, <2>3, <2>4, <2>5, <2>7 DEF Turn, Executes
<1>5. CASE SomeHalt
  <2>1. PICK G \in Within(FSM!Interrupt_Halt \ Halted) : Halts(G)
    BY <1>5 DEF SomeHalt
  <2>3. G \subseteq Hart /\ G # {} /\ G \subseteq FSM!Interrupt_Halt \ Halted
    BY <1>1, <2>1, WithinHarts
  <2>4. \A h \in G : Moves(h, core[h], HaltedAs, NoWrite)
    BY <2>1, <2>3 DEF Halts, Moves, Silently
  <2>5. ~mismatch' /\ mismatch' \in BOOLEAN
    BY <1>1, <2>1, Calm DEF Halts
  <2>6. FSM!Interrupt_Halt \ Halted \in Movable
    BY DEF Movable
  <2>7. /\ Voting => \E S \in Movable : G = Hart \cap S
        /\ ~Voting => \E h \in Hart : G = {h}
    BY <1>1, <2>1, <2>6, UnitsEither
  <2>8. Becomes(G, HaltedAs)
    BY <2>1 DEF Halts, HaltedAs
  <2> QED BY <1>2, <2>1, <2>3, <2>4, <2>5, <2>7, <2>8 DEF Turn, Halts
<1>6. ASSUME NEW line, NEW handler, SomeTake(line, handler),
             \/ line = FSM!Interrupt_Sync /\ handler = "sync_ack"
             \/ line = FSM!Interrupt_swResync /\ handler = "resync_ack"
      PROVE  \E G, d, wr : Turn(G, d, wr)
  <2>0. PICK G \in Within(line \cap Interruptible) : \E c : Takes(G, c, handler)
    BY <1>6 DEF SomeTake
  <2>1. PICK c : Takes(G, c, handler)
    BY <2>0
  <2>3. G \subseteq Hart /\ G # {} /\ G \subseteq line \cap Interruptible
    BY <1>1, <2>1, WithinHarts
  <2>4. \A h \in G : Moves(h, core[h], Interrupted(c, handler), NoWrite)
    BY <1>6, <2>1, <2>3 DEF Takes, AllAre, Moves, Silently
  <2>5. ~mismatch' /\ mismatch' \in BOOLEAN
    BY <1>1, <2>1, Calm DEF Takes
  <2>6. line \cap Interruptible \in Movable
    BY <1>6 DEF Movable
  <2>7. /\ Voting => \E S \in Movable : G = Hart \cap S
        /\ ~Voting => \E h \in Hart : G = {h}
    BY <1>1, <2>1, <2>6, UnitsEither
  <2> QED BY <1>2, <2>1, <2>3, <2>4, <2>5, <2>7 DEF Turn, Takes
<1>7. \/ SomeExecute \/ SomeHalt
      \/ SomeTake(FSM!Interrupt_Sync, "sync_ack")
      \/ SomeTake(FSM!Interrupt_swResync, "resync_ack")
  BY <1>1, <1>2, HartsDo DEF Common0
<1> QED BY <1>4, <1>5, <1>6, <1>7

LEMMA StillTurns ==
  ASSUME NEW m, Base(m), Common0, Fault \/ Edge
  PROVE  \E G, d, wr : Turn(G, d, wr)
<1>1. core \in [Hart -> CoreState] /\ DualOff /\ VotedJob(job)
  BY HartIs DEF Base, TypeOK, CoreState, Common0
<1>2. /\ Clock(NoWrite) /\ Pending /\ UNCHANGED <<program, host, job>> /\ safe_copy' = safe_copy
      /\ HartsWait
  BY DEF Fault, Edge
<1>3. Becomes({}, HaltedAs)
  BY <1>1, <1>2, EmptyBecomes
<1>4. Silently(NoWrite, safe_copy')
  BY <1>2 DEF Silently
<1>5. CASE Fault
  <2>1. PICK G \in Steppers : Point(G) \in job.faulty
    BY <1>5 DEF Fault
  <2>2. G \subseteq Hart /\ G # {} /\ G \subseteq Awake
    BY <1>1, <2>1, WithinHarts, NoDual DEF Steppers
  <2>3. PICK h \in G : h = CHOOSE g \in G : TRUE
    BY <2>2
  <2>4. core[h].loc \in {"stop_wfi", "exit_wfi"} => Point(G) = core[h].loc
    BY <2>3 DEF Point
  <2>5. core[h].loc \notin {"stop_wfi", "exit_wfi"}
    BY <1>1, <2>1, <2>4 DEF VotedJob
  <2>6. core[h].mode # "sleep" /\ h \in Hart
    BY <2>2, <2>3 DEF Awake
  <2>7. Disturbs({})
    BY <2>5, <2>6 DEF Disturbs
  <2>8. mismatch' \in BOOLEAN
    BY <1>5 DEF Fault, Disturbed
  <2> QED BY <1>2, <1>3, <1>4, <2>7, <2>8 DEF Turn
<1>6. CASE Edge
  <2>1. ~mismatch' /\ mismatch' \in BOOLEAN
    BY <1>1, <1>6, Calm DEF Edge
  <2> QED BY <1>2, <1>3, <1>4, <2>1 DEF Turn
<1> QED BY <1>5, <1>6

\* Either the host writes, or the harts take a turn.
LEMMA NextTurns ==
  ASSUME NEW m, Base(m), Common0, Next
  PROVE  HostStep \/ \E G, d, wr : Turn(G, d, wr)
BY HartsTurn, StillTurns DEF Next

(***************************************************************************)
(* What does not depend on the phase stays.                                *)
(***************************************************************************)
LEMMA MovesTyped ==
  ASSUME NEW m, Base(m), Common0, NEW h \in Hart, NEW d, NEW wr, Moves(h, core[h], d, wr)
  PROVE  d \in CoreState /\ Returnable(d) /\ safe_copy' \in CopyType /\ Legal(wr)
<1> DEFINE c == core[h]
<1>1. c \in CoreState /\ Returnable(c) /\ safe_copy \in CopyType
  BY HartIs DEF Base, TypeOK, CoreState
<1>2. CASE Does(c, d, wr, safe_copy')
  <2>1. d \in CoreState /\ Returnable(d) /\ safe_copy' \in CopyType
    BY <1>1, <1>2, DoesTyped
  <2>2. /\ c.loc = "act_conf" => IsCall(c.op, Activate)
        /\ c.loc = "stop_master" => IsCall(c.op, Stop)
    <3>1. c.mode = "run" => /\ c.loc = "act_conf" => IsCall(c.op, Activate)
                            /\ c.loc = "stop_master" => IsCall(c.op, Stop)
      BY DEF Common0
    <3>2. c.mode # "run" => c.loc \notin {"act_conf", "stop_master"}
      BY <1>2 DEF Does, DoesRom, DoesActivate, DoesStop, DoesCheckpoint, DoesCall, DoesHandler
    <3> QED BY <3>1, <3>2
  <2>3. Legal(wr)
    BY <1>2, <2>2, DoesLegal DEF Base
  <2> QED BY <2>1, <2>3
<1>3. CASE d = HaltedAs /\ Silently(wr, safe_copy')
  <2>1. d \in CoreState /\ d.loc = "debug_entry" /\ d.ret = "none"
    BY <1>3 DEF HaltedAs, Rec, CoreState, Loc, RomLoc
  <2>2. Returnable(d)
    BY <2>1, Locs DEF Returnable, RomLoc
  <2> QED BY <1>1, <1>3, <2>1, <2>2 DEF Silently, Legal
<1>4. ASSUME NEW l \in {"sync_ack", "resync_ack"}, d = Interrupted(c, l), h \in Interruptible,
             Silently(wr, safe_copy')
      PROVE  d \in CoreState /\ Returnable(d) /\ safe_copy' \in CopyType /\ Legal(wr)
  <2>1. c.loc \in ProgramLoc
    BY <1>4 DEF Interruptible
  <2>2. Resumption(c) \in ProgramLoc
    BY <2>1 DEF Resumption, ProgramLoc
  <2>3. c.op \in Nat /\ c.ack \in BOOLEAN
    BY <1>1, CoreTyped
  <2>4. l \in HandlerLoc /\ l \in Loc
    BY Locs DEF HandlerLoc
  <2>5. d \in CoreState /\ d.loc = l /\ d.ret = Resumption(c)
    BY <1>4, <2>2, <2>3, <2>4, RecTyped DEF Interrupted
  <2>6. Returnable(d)
    BY <2>2, <2>4, <2>5 DEF Returnable
  <2> QED BY <1>1, <1>4, <2>5, <2>6 DEF Silently, Legal
<1> QED BY <1>2, <1>3, <1>4 DEF Moves

LEMMA TurnStays ==
  ASSUME NEW m, Base(m), Common0, NEW G, NEW d, NEW wr, Turn(G, d, wr)
  PROVE  /\ \E n \in Hart : Base(n)'
         /\ wr.reg # "MASTER_CORE" => Base(m)'
         /\ core' \in [Hart -> CoreState] /\ Legal(wr)
<1>1. /\ core \in [Hart -> CoreState] /\ DualOff /\ safe # "DMR_MODE" /\ safe_copy \in CopyType
      /\ \A h \in Hart : Returnable(core[h])
  BY HartIs DEF Base, TypeOK, CoreState, Common0
<1>2. /\ G \subseteq Hart /\ Becomes(G, d) /\ Clock(wr) /\ Pending
      /\ UNCHANGED <<program, host, job>> /\ mismatch' \in BOOLEAN
  BY DEF Turn
<1>3. /\ G # {} => d \in CoreState /\ Returnable(d)
      /\ safe_copy' \in CopyType /\ Legal(wr)
  <2>1. CASE G = {}
    BY <1>1, <2>1 DEF Turn, Silently, Legal
  <2>2. CASE G # {}
    <3>1. PICK h \in G : Moves(h, core[h], d, wr)
      BY <2>2 DEF Turn
    <3> QED BY <1>2, <3>1, MovesTyped
  <2> QED BY <2>1, <2>2
<1>4. core' \in [Hart -> CoreState] /\ \A h \in Hart : Returnable(core'[h])
  <2>1. core' = [h \in Hart |-> IF h \in G THEN d ELSE core[h]]
    BY <1>2 DEF Becomes
  <2>2. \A h \in Hart : core'[h] = IF h \in G THEN d ELSE core[h]
    BY <2>1
  <2> QED BY <1>1, <1>3, <2>1, <2>2
<1>5. irq' \in BOOLEAN
  BY <1>2 DEF Base, TypeOK, Pending
<1>6. host' \in {"choose", "mask", "master", "enable", "start", "wait", "stopped"}
  BY <1>2 DEF Base, TypeOK
<1>7. /\ TypeOK' /\ safe_configuration' \in {0, 1}
      /\ dmr' = [h \in Hart |-> "DMR_IDLE"] /\ ~delay_ff' /\ ~dmr_rec'
      /\ interrupt_controler.enable => interrupt_controler'.enable
      /\ \E n \in Hart : master_core' = {n}
      /\ wr.reg # "MASTER_CORE" => master_core' = {m}
  BY <1>1, <1>2, <1>3, <1>4, <1>5, <1>6, TypesStay
<1>8. /\ \A h \in Hart : Returnable(core[h])'
      /\ (program = job.program)' /\ VotedJob(job)'
      /\ (host \in {"start", "wait"} => interrupt_controler.enable)'
  <2>1. \A h \in Hart : Returnable(core[h])'
    BY <1>4
  <2>2. (program = job.program)' /\ VotedJob(job)'
    BY <1>2 DEF Base
  <2>3. (host \in {"start", "wait"} => interrupt_controler.enable)'
    BY <1>2, <1>7 DEF Base
  <2> QED BY <2>1, <2>2, <2>3
<1>9. \A n \in Hart : master_core' = {n} => Base(n)'
  BY <1>3, <1>7, <1>8 DEF Base
<1>10. m \in Hart
  BY DEF Base
<1> QED BY <1>3, <1>4, <1>7, <1>9, <1>10

LEMMA HostTurns ==
  ASSUME NEW m, Base(m), Common0, HostStep, VotedUse
  PROVE  /\ \E n \in Hart : Base(n)'
         /\ host # "master" => Base(m)'
         /\ core' = core /\ ~mismatch'
         /\ Undisturbed /\ host # "done" /\ host # "stopped"
         /\ \/ \E wr : Clock(wr) /\ wr = Write("SAFE_CONFIGURATION", job'.conf) /\ Pending
                       /\ host = "choose" /\ host' = "mask"
            \/ \E wr : Clock(wr) /\ wr = Write("DMR_MASK", job.mask) /\ Pending
                       /\ host = "mask" /\ host' = "master" /\ job' = job
            \/ \E wr : Clock(wr) /\ wr = Write("MASTER_CORE", {job.master}) /\ Pending
                       /\ host = "master" /\ host' = "enable" /\ job' = job
            \/ \E wr : /\ Clock(wr) /\ Pending /\ job' = job
                       /\ wr = Write("INTERRUPT_CONTROLER", [enable |-> TRUE, status |-> FALSE])
                       /\ host = "enable" /\ host' = "start"
            \/ \E wr : Clock(wr) /\ wr = Write("START", TRUE) /\ Pending
                       /\ host = "start" /\ host' = "wait" /\ job' = job
            \/ \E wr : /\ Clock(wr) /\ ~irq' /\ irq /\ job' = job
                       /\ wr = Write("INTERRUPT_CONTROLER", [enable |-> TRUE, status |-> FALSE])
                       /\ host = "wait" /\ host' = "choose"
<1> DEFINE Puts(wr) == Clock(wr) /\ Undisturbed /\ HartsWait /\ safe_copy' = safe_copy
           on == [enable |-> TRUE, status |-> FALSE]
<1>1. /\ core \in [Hart -> CoreState] /\ DualOff /\ safe # "DMR_MODE" /\ safe_copy \in CopyType
      /\ \A h \in Hart : Returnable(core[h])
  BY HartIs DEF Base, TypeOK, CoreState, Common0
<1>2. VotedJob(job) /\ program = job.program /\ m \in Hart /\ irq \in BOOLEAN
  BY DEF Base, TypeOK
<1>3. ASSUME NEW wr, Puts(wr), Legal(wr), irq' \in BOOLEAN,
             host' \in {"choose", "mask", "master", "enable", "start", "wait", "stopped"},
             (program = job.program)', VotedJob(job)',
             host \in {"start", "wait"} \/ host' \notin {"start", "wait"}
               \/ interrupt_controler'.enable
      PROVE  /\ \E n \in Hart : Base(n)'
             /\ wr.reg # "MASTER_CORE" => Base(m)'
             /\ core' = core /\ ~mismatch' 
  <2>1. Clock(wr) /\ Undisturbed /\ HartsWait /\ safe_copy' = safe_copy
    BY <1>3
  <2>2. core' = core
    BY <1>1, <2>1, EmptyBecomes DEF Becomes
  <2>3. ~mismatch' /\ mismatch' \in BOOLEAN
    BY <1>1, <2>1, Calm
  <2>4. /\ TypeOK' /\ safe_configuration' \in {0, 1}
        /\ dmr' = [h \in Hart |-> "DMR_IDLE"] /\ ~delay_ff' /\ ~dmr_rec'
        /\ interrupt_controler.enable => interrupt_controler'.enable
        /\ \E n \in Hart : master_core' = {n}
        /\ wr.reg # "MASTER_CORE" => master_core' = {m}
    BY <1>1, <1>3, <2>1, <2>2, <2>3, TypesStay
  <2>5. (host \in {"start", "wait"} => interrupt_controler.enable)'
    BY <1>3, <2>4 DEF Base
  <2>6. (\A h \in Hart : Returnable(core[h]))' /\ (safe_copy \in CopyType)'
    BY <1>1, <2>1, <2>2
  <2>7. \A n \in Hart : master_core' = {n} => Base(n)'
    BY <1>3, <2>4, <2>5, <2>6 DEF Base
  <2> QED BY <1>2, <2>1, <2>2, <2>3, <2>4, <2>7
<1>4. Pending => irq' \in BOOLEAN
  BY DEF Base, TypeOK, Pending
<1>5. CASE Choose
  <2>1. /\ Puts(Write("SAFE_CONFIGURATION", job'.conf)) /\ Pending
        /\ host = "choose" /\ host' = "mask" /\ job' \in Jobs /\ program' = job'.program
    BY <1>5 DEF Choose, HostWrites
  <2>2. VotedJob(job)'
    BY <2>1 DEF VotedUse
  <2>3. Legal(Write("SAFE_CONFIGURATION", job'.conf))
    BY <2>2 DEF VotedJob, Legal, FSM!SINGLE, FSM!TCLS
  <2>5. Write("SAFE_CONFIGURATION", job'.conf).reg = "SAFE_CONFIGURATION"
    BY DEF Write
  <2>4. /\ \E n \in Hart : Base(n)'
        /\ Base(m)' /\ core' = core /\ ~mismatch'
    BY <1>3, <1>4, <2>1, <2>2, <2>3, <2>5
  <2> QED BY <2>1, <2>4
<1>6. CASE Configure /\ host = "mask"
  <2>1. /\ Puts(Write("DMR_MASK", job.mask)) /\ Pending
        /\ host' = "master" /\ job' = job /\ program' = program
    BY <1>6 DEF Configure, HostWrites
  <2>2. VotedJob(job)' /\ (program = job.program)'
    BY <1>2, <2>1
  <2>3. Legal(Write("DMR_MASK", job.mask))
    BY <1>2 DEF VotedJob, Legal
  <2>5. Write("DMR_MASK", job.mask).reg = "DMR_MASK"
    BY DEF Write
  <2>4. /\ \E n \in Hart : Base(n)'
        /\ Base(m)' /\ core' = core /\ ~mismatch'
    BY <1>3, <1>4, <2>1, <2>2, <2>3, <2>5
  <2> QED BY <1>6, <2>1, <2>4
<1>7. CASE Configure /\ host = "master"
  <2>1. /\ Puts(Write("MASTER_CORE", {job.master})) /\ Pending
        /\ host' = "enable" /\ job' = job /\ program' = program
    BY <1>7 DEF Configure, HostWrites
  <2>2. VotedJob(job)' /\ (program = job.program)'
    BY <1>2, <2>1
  <2>3. Legal(Write("MASTER_CORE", {job.master}))
    BY <1>2 DEF VotedJob, Legal
  <2>5. Write("MASTER_CORE", {job.master}).reg = "MASTER_CORE"
    BY DEF Write
  <2>4. /\ \E n \in Hart : Base(n)'
        /\ core' = core /\ ~mismatch'
    BY <1>3, <1>4, <2>1, <2>2, <2>3, <2>5
  <2> QED BY <1>7, <2>1, <2>4
<1>8. CASE Configure /\ host = "enable"
  <2>1. /\ Puts(Write("INTERRUPT_CONTROLER", on)) /\ Pending
        /\ host' = "start" /\ job' = job /\ program' = program
    BY <1>8 DEF Configure, HostWrites
  <2>2. VotedJob(job)' /\ (program = job.program)'
    BY <1>2, <2>1
  <2>3. Legal(Write("INTERRUPT_CONTROLER", on))
    BY DEF Legal
  <2>5. Write("INTERRUPT_CONTROLER", on).reg = "INTERRUPT_CONTROLER"
    BY DEF Write
  <2>6. interrupt_controler'.enable
    <3>1. interrupt_controler' = on
      BY <2>1 DEF Clock, CtrlClock, InterruptClock, Loaded, Write
    <3> QED BY <3>1
  <2>4. /\ \E n \in Hart : Base(n)'
        /\ Base(m)' /\ core' = core /\ ~mismatch'
    BY <1>3, <1>4, <2>1, <2>2, <2>3, <2>5, <2>6
  <2> QED BY <1>8, <2>1, <2>4
<1>9. CASE Start
  <2>1. /\ Puts(Write("START", TRUE)) /\ Pending
        /\ host = "start" /\ host' = "wait" /\ job' = job /\ program' = program
    BY <1>9 DEF Start, HostWrites
  <2>2. VotedJob(job)' /\ (program = job.program)'
    BY <1>2, <2>1
  <2>3. Legal(Write("START", TRUE))
    BY DEF Legal
  <2>5. Write("START", TRUE).reg = "START"
    BY DEF Write
  <2>4. /\ \E n \in Hart : Base(n)'
        /\ Base(m)' /\ core' = core /\ ~mismatch'
    BY <1>3, <1>4, <2>1, <2>2, <2>3, <2>5
  <2> QED BY <2>1, <2>4
<1>10. CASE Serve
  <2>1. /\ Puts(Write("INTERRUPT_CONTROLER", on)) /\ irq' = FALSE /\ irq
        /\ host = "wait" /\ host' = "choose" /\ job' = job /\ program' = program
    BY <1>10 DEF Serve, HostWrites
  <2>2. VotedJob(job)' /\ (program = job.program)'
    BY <1>2, <2>1
  <2>3. Legal(Write("INTERRUPT_CONTROLER", on))
    BY DEF Legal
  <2>5. Write("INTERRUPT_CONTROLER", on).reg = "INTERRUPT_CONTROLER"
    BY DEF Write
  <2>6. interrupt_controler'.enable
    <3>1. interrupt_controler' = on
      BY <2>1 DEF Clock, CtrlClock, InterruptClock, Loaded, Write
    <3> QED BY <3>1
  <2>4. /\ \E n \in Hart : Base(n)'
        /\ Base(m)' /\ core' = core /\ ~mismatch'
    BY <1>3, <2>1, <2>2, <2>3, <2>5, <2>6
  <2> QED BY <2>1, <2>4
<1>11. ~ExternalStop
  BY <1>2 DEF ExternalStop, VotedJob
<1> QED BY <1>5, <1>6, <1>7, <1>8, <1>9, <1>10, <1>11 DEF HostStep, Configure

LEMMA HostEarly ==
  ASSUME NEW m, Base(m), Common0, HostStep, VotedUse, Early \/ Due
  PROVE  /\ Early' /\ initial_sync_master' = initial_sync_master
         /\ host = "master" => host' = "enable"
<1> DEFINE on == [enable |-> TRUE, status |-> FALSE]
<1>1. TypeOK /\ core' = core
  BY HostTurns DEF Base
<1>2. Protocol!CtrlTypeOK /\ Registers!CtrlTypeOK
  BY <1>1, CtrlTyped
<1>3. FSM!AllAsleep' <=> FSM!AllAsleep
  BY <1>1, HartSignals
<1>4. /\ Protocol!Free \/ Protocol!Signalled
      /\ host # "wait" => Protocol!Free /\ Early
      /\ host = "wait" => Protocol!Signalled
  BY RegisterFacts, HostTurns DEF Early, Starting, Due, Protocol!Free, Protocol!Signalled
<1>5. Registers!AnyPhase
  BY <1>4, SameRegisters DEF Registers!AnyPhase
<1>6. ASSUME NEW wr, Clock(wr), Ordinary(wr), Pending, HostIs' = HostIs, Protocol!Free
      PROVE  Protocol!Free'
  <2>1. Ticks(wr)
    BY <1>6 DEF Ticks
  <2> QED BY <1>1, <1>3, <1>6, <2>1, TicksRegisters
<1>7. CASE host = "choose"
  <2>1. PICK wr : /\ Clock(wr) /\ wr = Write("SAFE_CONFIGURATION", job'.conf) /\ Pending
                  /\ host' = "mask"
    BY <1>7, HostTurns
  <2>2. wr.reg = "SAFE_CONFIGURATION" /\ wr.val = job'.conf
    BY <2>1 DEF Write
  <2>3. Ordinary(wr) /\ HostIs' = HostIs
    BY <1>7, <2>1, <2>2 DEF Ordinary, HostIs
  <2>4. Protocol!Free'
    BY <1>4, <1>6, <1>7, <2>1, <2>3
  <2>5. safe_configuration' = job'.conf /\ initial_sync_master' = initial_sync_master
    BY <2>1, <2>2, ClockConfig DEF Loaded
  <2> QED BY <1>7, <2>4, <2>5 DEF Early
<1>8. CASE host \in {"mask", "master"}
  <2>1. PICK wr : /\ Clock(wr) /\ Pending /\ job' = job
                  /\ \/ wr = Write("DMR_MASK", job.mask) /\ host' = "master" /\ host = "mask"
                     \/ wr = Write("MASTER_CORE", {job.master}) /\ host' = "enable"
    BY <1>8, HostTurns
  <2>2. wr.reg \in {"DMR_MASK", "MASTER_CORE"}
    BY <2>1 DEF Write
  <2>3. Ordinary(wr) /\ HostIs' = HostIs
    BY <1>8, <2>1, <2>2 DEF Ordinary, HostIs
  <2>4. Protocol!Free'
    BY <1>4, <1>6, <1>8, <2>1, <2>3
  <2>5. safe_configuration' = safe_configuration /\ initial_sync_master' = initial_sync_master
    BY <2>1, <2>2, ClockConfig DEF Loaded
  <2>6. safe_configuration = job.conf
    BY <1>4, <1>8 DEF Early
  <2> QED BY <1>8, <2>1, <2>4, <2>5, <2>6 DEF Early
<1>9. CASE host = "enable" \/ host = "wait"
  <2>1. PICK wr : /\ Clock(wr) /\ job' = job /\ wr = Write("INTERRUPT_CONTROLER", on)
                  /\ \/ host = "enable" /\ Pending /\ host' = "start"
                     \/ host = "wait" /\ ~irq' /\ irq /\ host' = "choose"
    BY <1>9, HostTurns
  <2>2. wr.reg = "INTERRUPT_CONTROLER"
    BY <2>1 DEF Write
  <2>3. Registers!Edge(wr)
    BY <2>1, RegistersClock
  <2>4. Registers!Edge(Registers!Write("INTERRUPT_CONTROLER", on))
    BY <2>1, <2>3, Zenon DEF Write, Registers!Write
  <2>5. ASSUME host = "enable" PROVE Protocol!Free'
    <3>1. HostIs = "free" /\ HostIs' = "free" /\ Pending
      BY <2>1, <2>5 DEF HostIs
    <3>2. Registers!Sleep
      BY <1>3 DEF Registers!Sleep, FSM!AllAsleep
    <3>3. Registers!Enable <=> /\ HostIs = "free" /\ HostIs' = HostIs /\ Registers!Pending
                               /\ Registers!Edge(Registers!Write("INTERRUPT_CONTROLER", on))
                               /\ Registers!Sleep
      BY Zenon DEF Registers!Enable, HostIs
    <3>4. Registers!Enable
      BY <2>4, <3>1, <3>2, <3>3 DEF Registers!Pending, Pending
    <3> QED BY <1>2, <1>5, <3>4, SameRegisters, Registers!ResetEdge, Zenon
  <2>6. ASSUME host = "wait" PROVE Protocol!Free'
    <3>1. HostIs = "waiting" /\ HostIs' = "free" /\ irq' = FALSE /\ irq
      <4>1. irq' \in BOOLEAN
        BY HostTurns DEF Base, TypeOK
      <4> QED BY <2>1, <2>6, <4>1 DEF HostIs
    <3>2. Registers!Serve <=> /\ HostIs = "waiting" /\ irq /\ irq' = FALSE /\ HostIs' = "free"
                              /\ Registers!Edge(Registers!Write("INTERRUPT_CONTROLER", on))
                              /\ FSM!AllAsleep' = FSM!AllAsleep
      BY Zenon DEF Registers!Serve, HostIs
    <3>3. FSM!AllAsleep' = FSM!AllAsleep
      BY <1>3 DEF FSM!AllAsleep
    <3>4. Registers!Serve
      BY <2>4, <3>1, <3>2, <3>3, Zenon
    <3> QED BY <1>2, <1>5, <3>4, SameRegisters, Registers!ResetEdge, Zenon
  <2>7. Protocol!Free'
    BY <1>9, <2>5, <2>6, SameRegisters
  <2>8. safe_configuration' = safe_configuration /\ initial_sync_master' = initial_sync_master
    BY <2>1, <2>2, ClockConfig DEF Loaded
  <2>9. host' # "choose" => safe_configuration = job.conf
    BY <1>4, <2>1 DEF Early
  <2> QED BY <1>9, <2>1, <2>7, <2>8, <2>9 DEF Early
<1>10. CASE host = "start"
  <2>1. PICK wr : /\ Clock(wr) /\ wr = Write("START", TRUE) /\ Pending
                  /\ host' = "wait" /\ job' = job
    BY <1>10, HostTurns
  <2>2. wr.reg = "START"
    BY <2>1 DEF Write
  <2>3. Registers!Edge(wr)
    BY <2>1, RegistersClock
  <2>4. HostIs = "free" /\ HostIs' = "waiting" /\ Pending
    BY <1>10, <2>1 DEF HostIs
  <2>5. Registers!Sleep
    BY <1>3 DEF Registers!Sleep, FSM!AllAsleep
  <2>6. Registers!Edge(Registers!Write("START", TRUE))
    BY <2>1, <2>3, Zenon DEF Write, Registers!Write
  <2>7. Registers!Start
    <3>1. Registers!Start <=> /\ HostIs = "free" /\ HostIs' = "waiting"
                              /\ Registers!Edge(Registers!Write("START", TRUE))
                              /\ Registers!Sleep /\ Registers!Pending
      BY Zenon DEF Registers!Start, HostIs
    <3> QED BY <2>4, <2>5, <2>6, <3>1, Zenon DEF Registers!Pending, Pending
  <2>8. Protocol!Launched'
    BY <1>2, <1>5, <2>7, SameRegisters, Registers!StartEdge, Zenon
  <2>9. safe_configuration' = safe_configuration /\ initial_sync_master' = initial_sync_master
    BY <2>1, <2>2, ClockConfig DEF Loaded
  <2>10. safe_configuration = job.conf
    BY <1>4, <1>10 DEF Early
  <2> QED BY <1>10, <2>1, <2>8, <2>9, <2>10 DEF Early
<1> QED BY <1>7, <1>8, <1>9, <1>10, HostTurns DEF Base, TypeOK

(***************************************************************************)
(* What is executed at a place.                                            *)
(***************************************************************************)
LEMMA RomAt ==
  ASSUME NEW c, NEW d, NEW wr, NEW cp, Does(c, d, wr, cp)
  PROVE  /\ c.loc = "wfi_entry" => c.mode = "run" /\ d = Dozes(c) /\ Silently(wr, cp)
         /\ c.loc = "debug_entry" => c.mode = "debug" /\ d = Goes(c, Entry) /\ Silently(wr, cp)
         /\ c.loc = "halt_boot" => /\ c.mode = "debug" /\ Silently(wr, cp)
                                   /\ d = Rec("run", safe_copy.loc, safe_copy.pc, c.ret, c.ack)
         /\ c.loc = "single_boot" => /\ c.mode = "debug" /\ Silently(wr, cp)
                                     /\ d = Rec("run", "crt0", 1, c.ret, c.ack)
         /\ c.loc = "crt0" => c.mode = "run" /\ d = Goes(c, "main") /\ Silently(wr, cp)
         /\ c.mode # "sleep"
BY DEF Does, DoesRom, DoesActivate, DoesStop, DoesCheckpoint, DoesCall, DoesHandler

LEMMA ActivateAt ==
  ASSUME NEW c, NEW d, NEW wr, NEW cp, Does(c, d, wr, cp)
  PROVE  /\ c.loc = "act_conf" => /\ c.mode = "run" /\ d = Goes(c, "act_context")
                                  /\ Storing(wr, cp, "SAFE_CONFIGURATION", CallAt(c.op)[2])
         /\ c.loc = "act_context" => /\ c.mode = "run" /\ d = Goes(c, "act_sync")
                                     /\ Keeping(wr, cp, [safe_copy EXCEPT !.context = c.op])
         /\ c.loc = "act_sync" => /\ c.mode = "run" /\ d = Goes(c, "act_pc")
                                  /\ Raising(wr, cp, "INITIAL_SYNC_MASTER")
         /\ c.loc = "act_pc" =>
              /\ c.mode = "run" /\ d = Goes(c, "act_wfi")
              /\ Keeping(wr, cp, [safe_copy EXCEPT !.pc = c.op, !.loc = "act_pc"])
         /\ c.loc = "act_wfi" => c.mode = "run" /\ d = Dozes(c) /\ Silently(wr, cp)
         /\ c.loc = "act_reset_sync" => /\ c.mode = "run" /\ d = Goes(c, "act_reset_ack")
                                        /\ Lowering(wr, cp, "INITIAL_SYNC_MASTER")
         /\ c.loc = "act_reset_ack" => c.mode = "run" /\ d = Resets(c) /\ Silently(wr, cp)
BY DEF Does, DoesRom, DoesActivate, DoesStop, DoesCheckpoint, DoesCall, DoesHandler

LEMMA StopAt ==
  ASSUME NEW c, NEW d, NEW wr, NEW cp, Does(c, d, wr, cp)
  PROVE  /\ c.loc = "stop_critical" => /\ c.mode = "run" /\ d = Goes(c, "stop_master")
                                       /\ Lowering(wr, cp, "CRITICAL_SECTION")
         /\ c.loc = "stop_master" => /\ c.mode = "run" /\ d = Goes(c, "stop_conf")
                                     /\ Storing(wr, cp, "MASTER_CORE", {CallAt(c.op)[2]})
         /\ c.loc = "stop_conf" => /\ c.mode = "run" /\ d = Goes(c, "stop_wfi")
                                   /\ Storing(wr, cp, "SAFE_CONFIGURATION", 0)
         /\ c.loc = "stop_wfi" => c.mode = "run" /\ d = Dozes(c) /\ Silently(wr, cp)
         /\ c.loc = "exit_wfi" => c.mode = "run" /\ d = Dozes(c) /\ Silently(wr, cp)
BY DEF Does, DoesRom, DoesActivate, DoesStop, DoesCheckpoint, DoesCall, DoesHandler

LEMMA CheckpointAt ==
  ASSUME NEW c, NEW d, NEW wr, NEW cp, Does(c, d, wr, cp)
  PROVE  /\ c.loc = "ckpt_regs" => /\ c.mode = "run" /\ d = Goes(c, "ckpt_pc")
                                   /\ Keeping(wr, cp, [safe_copy EXCEPT !.context = c.op])
         /\ c.loc = "ckpt_pc" =>
              /\ c.mode = "run" /\ d = Goes(c, "call_end")
              /\ Keeping(wr, cp, [safe_copy EXCEPT !.pc = c.op, !.loc = "call_end"])
         /\ c.loc = "call_end" => c.mode = "run" /\ d = Returns(c) /\ Silently(wr, cp)
BY DEF Does, DoesRom, DoesActivate, DoesStop, DoesCheckpoint, DoesCall, DoesHandler

LEMMA HandlerAt ==
  ASSUME NEW c, NEW d, NEW wr, NEW cp, Does(c, d, wr, cp)
  PROVE  c.loc \in HandlerLoc =>
           /\ c.mode = "run" /\ Silently(wr, cp)
           /\ c.loc = "sync_ack" => d = Sets(c, "sync_unack")
           /\ c.loc = "sync_unack" => d = Clears(c, "mret")
           /\ c.loc = "resync_ack" => d = Sets(c, "resync_unack")
           /\ c.loc = "resync_unack" => d = Clears(c, "mret")
           /\ c.loc = "mret" => d = Rec(c.mode, c.ret, c.op, "none", c.ack)
BY DEF Does, DoesRom, DoesActivate, DoesStop, DoesCheckpoint, DoesCall, DoesHandler, HandlerLoc

\* The calls of the program.
MainDoes(c, d, wr, cp) ==
  \/ /\ CallAt(c.op)[1] = Activate /\ Silently(wr, cp)
     /\ \/ safe_configuration # 0 /\ d = Returns(c)
        \/ safe_configuration = 0 /\ d = Goes(c, "act_conf")
  \/ /\ CallAt(c.op)[1] = Stop /\ Silently(wr, cp)
     /\ \/ safe_configuration = 0 /\ d = Returns(c)
        \/ safe_configuration # 0 /\ critical_section /\ d = Goes(c, "stop_critical")
        \/ safe_configuration # 0 /\ ~critical_section /\ d = Goes(c, "stop_master")
  \/ /\ CallAt(c.op)[1] = Checkpoint /\ d = Goes(c, "ckpt_regs")
     /\ Keeping(wr, cp, [safe_copy EXCEPT !.stack = c.op])
  \/ CallAt(c.op)[1] = Work /\ d = Returns(c) /\ Silently(wr, cp)
  \/ /\ CallAt(c.op)[1] = Critical /\ d = Returns(c)
     /\ Storing(wr, cp, "CRITICAL_SECTION", CallAt(c.op)[2])
  \/ /\ CallAt(c.op)[1] = SetMask /\ d = Returns(c)
     /\ Storing(wr, cp, "DMR_MASK", CallAt(c.op)[2])
  \/ /\ CallAt(c.op)[1] = "return" /\ d = Goes(c, "exit_wfi")
     /\ Raising(wr, cp, "END_SW_ROUTINE")

LEMMA MainAt ==
  ASSUME NEW c, NEW d, NEW wr, NEW cp, Does(c, d, wr, cp), c.loc = "main"
  PROVE  c.mode = "run" /\ MainDoes(c, d, wr, cp)
BY DEF Does, DoesRom, DoesActivate, DoesStop, DoesCheckpoint, DoesCall, DoesHandler, MainDoes

LEMMA Writes ==
  /\ \A wr, cp : Silently(wr, cp) => wr.reg = "NONE" /\ cp = safe_copy
  /\ \A wr, cp, r : Raising(wr, cp, r) => wr.reg = r /\ wr.val = TRUE /\ cp = safe_copy
  /\ \A wr, cp, r : Lowering(wr, cp, r) => wr.reg = r /\ wr.val = FALSE /\ cp = safe_copy
  /\ \A wr, cp, r, v : Storing(wr, cp, r, v) => wr.reg = r /\ wr.val = v /\ cp = safe_copy
  /\ \A wr, cp, copy : Keeping(wr, cp, copy) => wr.reg = "NONE" /\ cp = copy
<1>1. \A r, v : Write(r, v).reg = r /\ Write(r, v).val = v
  BY DEF Write
<1>2. NoWrite.reg = "NONE"
  BY DEF NoWrite
<1>3. \A wr, cp, r, v : Storing(wr, cp, r, v) => wr.reg = r /\ wr.val = v /\ cp = safe_copy
  BY <1>1 DEF Storing
<1> QED BY <1>2, <1>3, Zenon DEF Silently, Raising, Lowering, Keeping

\* Without the values.
LEMMA WritesRegister ==
  /\ \A wr, cp : Silently(wr, cp) => wr.reg = "NONE"
  /\ \A wr, cp, r : Raising(wr, cp, r) => wr.reg = r
  /\ \A wr, cp, r : Lowering(wr, cp, r) => wr.reg = r
  /\ \A wr, cp, r, v : Storing(wr, cp, r, v) => wr.reg = r
  /\ \A wr, cp, copy : Keeping(wr, cp, copy) => wr.reg = "NONE"
BY Writes, Zenon

(***************************************************************************)
(* The lines that divert a hart are those of its machine.                  *)
(***************************************************************************)
NoHalt == FSM!Interrupt_Halt \ Halted = {}
NoInterrupt == FSM!Interrupt_Sync = {} /\ FSM!Interrupt_swResync = {}

LEMMA MovesDoes ==
  ASSUME NEW h, NEW c, NEW d, NEW wr, Moves(h, c, d, wr), NoHalt, NoInterrupt
  PROVE  Does(c, d, wr, safe_copy')
BY DEF Moves, NoHalt, NoInterrupt

\* The state of every hart after a turn.
LEMMA TurnEach ==
  ASSUME NEW G, NEW d, NEW wr, Turn(G, d, wr)
  PROVE  /\ \A h \in G : core'[h] = d /\ Moves(h, core[h], core'[h], wr)
         /\ \A h \in Hart \ G : core'[h] = core[h]
         /\ G \subseteq Hart
<1>1. core' = [h \in Hart |-> IF h \in G THEN d ELSE core[h]]
  BY DEF Turn, Becomes
<1>2. \A h \in Hart : core'[h] = IF h \in G THEN d ELSE core[h]
  BY <1>1
<1> QED BY <1>2 DEF Turn

\* The write that ends the program.
EndWrite == Write("END_SW_ROUTINE", TRUE)

\* A turn without the end of the program.
LEMMA TurnTicks ==
  ASSUME NEW G, NEW d, NEW wr, Turn(G, d, wr)
  PROVE  /\ Clock(wr) /\ host' = host /\ job' = job /\ program' = program
         /\ Ordinary(wr) => Ticks(wr)
         /\ wr.reg \notin {"START", "INTERRUPT_CONTROLER"}
         /\ wr.reg = "END_SW_ROUTINE" =>
              /\ wr = EndWrite
              /\ G # {} /\ \A h \in G : /\ core[h].mode = "run" /\ core[h].loc = "main"
                                        /\ CallAt(core[h].op)[1] = "return"
                                        /\ d = Goes(core[h], "exit_wfi")
<1>1. Clock(wr) /\ Pending /\ host' = host /\ job' = job /\ program' = program
  BY DEF Turn
<1>2. HostIs' = HostIs
  BY <1>1 DEF HostIs
<1>3. G = {} => wr.reg = "NONE"
  BY WritesRegister DEF Turn
<1>4. ASSUME NEW h \in G
      PROVE  /\ wr.reg \notin {"START", "INTERRUPT_CONTROLER"}
             /\ wr.reg = "END_SW_ROUTINE" =>
                  /\ wr = EndWrite
                  /\ core[h].mode = "run" /\ core[h].loc = "main"
                  /\ CallAt(core[h].op)[1] = "return"
                  /\ d = Goes(core[h], "exit_wfi")
  <2> DEFINE c == core[h]
  <2>1. Moves(h, c, d, wr)
    BY DEF Turn
  <2>2. CASE Silently(wr, safe_copy')
    BY <2>2, WritesRegister
  <2>3. CASE Does(c, d, wr, safe_copy')
    <3>1. CASE DoesRom(c, d, wr, safe_copy') \/ DoesHandler(c, d, wr, safe_copy')
      BY <3>1, WritesRegister DEF DoesRom, DoesHandler
    <3>2. CASE DoesActivate(c, d, wr, safe_copy')
      BY <3>2, WritesRegister DEF DoesActivate
    <3>3. CASE DoesStop(c, d, wr, safe_copy')
      BY <3>3, WritesRegister DEF DoesStop
    <3>4. CASE DoesCheckpoint(c, d, wr, safe_copy')
      BY <3>4, WritesRegister DEF DoesCheckpoint
    <3>5. CASE DoesCall(c, d, wr, safe_copy')
      <4>1. Raising(wr, safe_copy', "END_SW_ROUTINE") => wr = EndWrite
        BY DEF Raising, Storing, EndWrite
      <4> QED BY <3>5, <4>1, WritesRegister DEF DoesCall
    <3> QED BY <2>3, <3>1, <3>2, <3>3, <3>4, <3>5 DEF Does
  <2> QED BY <2>1, <2>2, <2>3 DEF Moves
<1> QED BY <1>1, <1>2, <1>3, <1>4 DEF Ticks, Ordinary

LEMMA TurnEnds ==
  ASSUME TypeOK, Going, ~FSM!AllAsleep, NEW G, NEW d, NEW wr, Turn(G, d, wr),
         wr = EndWrite
  PROVE  Protocol!Ending'
<1>1. Clock(wr) /\ Pending /\ host' = host
  BY DEF Turn
<1>2. Registers!Edge(Registers!Write("END_SW_ROUTINE", TRUE))
  BY <1>1, RegistersClock, Zenon DEF EndWrite, Write, Registers!Write
<1>3. HostIs' = HostIs /\ HostIs = "waiting"
  <2>1. host = "wait"
    BY RegisterFacts DEF Going
  <2> QED BY <1>1, <2>1 DEF HostIs
<1>4. Registers!CtrlTypeOK /\ Registers!AnyPhase /\ Protocol!Running
  BY CtrlTyped, SameRegisters DEF Registers!AnyPhase, Going
<1>5. Registers!Sleep
  BY DEF Registers!Sleep, FSM!AllAsleep
<1>6. Registers!Pending
  BY <1>1 DEF Registers!Pending, Pending
<1>7. Registers!EndRoutine <=>
        /\ \/ HostIs = "waiting" /\ start /\ Startff /\ ~Start_Flag /\ ~end_sw_routine
           \/ HostIs = "withdrawn"
        /\ ~FSM!AllAsleep
        /\ Registers!Edge(Registers!Write("END_SW_ROUTINE", TRUE))
        /\ Registers!Sleep /\ Registers!Pending /\ HostIs' = HostIs
  BY Zenon DEF Registers!EndRoutine, HostIs
<1>8. start /\ Startff /\ ~Start_Flag /\ ~end_sw_routine
  BY <1>4 DEF Protocol!Running
<1>9. Registers!EndRoutine
  BY <1>2, <1>3, <1>5, <1>6, <1>7, <1>8, Zenon
<1> QED BY <1>3, <1>4, <1>9, SameRegisters, Registers!EndEdge, Zenon DEF HostIs

(***************************************************************************)
(* From one phase to the next: while nobody executes the program.          *)
(***************************************************************************)
Asleep3 == \A h \in Hart : core[h].mode = "sleep"

LEMMA AsleepTurn ==
  ASSUME NEW G, NEW d, NEW wr, Turn(G, d, wr), NoHalt, NoInterrupt, Asleep3
  PROVE  /\ \A h \in Hart : core'[h] = core[h]
         /\ wr.reg = "NONE" /\ safe_copy' = safe_copy /\ ~mismatch'
<1>1. G = {}
  <2>1. \A h \in G : h \in Hart /\ Does(core[h], d, wr, safe_copy')
    BY MovesDoes DEF Turn
  <2> QED BY <2>1, RomAt DEF Asleep3
<1>2. wr.reg = "NONE" /\ safe_copy' = safe_copy
  BY <1>1, Writes DEF Turn
<1>3. \A h \in Hart : core'[h] = core[h]
  BY <1>1, TurnEach
<1> QED BY <1>1, <1>2, <1>3 DEF Turn, Disturbs, Asleep3

LEMMA FreshTurn ==
  ASSUME NEW G, NEW d, NEW wr, Turn(G, d, wr), NoHalt, NoInterrupt,
         core \in [Hart -> CoreState], \A h \in Hart : Fresh(core[h])
  PROVE  /\ \A h \in Hart : Fresh(core'[h]) /\ (core[h].mode = "sleep" => core'[h] = core[h])
         /\ wr.reg = "NONE"
<1>1. ASSUME NEW h \in G
      PROVE  Fresh(core'[h]) /\ (core[h].mode = "sleep" => core'[h] = core[h]) /\ wr.reg = "NONE"
  <2>1. Does(core[h], core'[h], wr, safe_copy') /\ h \in Hart
    BY TurnEach, MovesDoes
  <2>2. core[h].loc = "wfi_entry" /\ core[h] \in CoreState /\ Fresh(core[h])
    BY <2>1 DEF Fresh
  <2>3. core'[h] = Dozes(core[h]) /\ core[h].mode = "run" /\ Silently(wr, safe_copy')
    BY <2>1, <2>2, RomAt
  <2> QED BY <2>2, <2>3, DozesTyped, Writes DEF Fresh
<1>2. G = {} => wr.reg = "NONE"
  BY Writes DEF Turn
<1> QED BY <1>1, <1>2, TurnEach

\* An edge before the start of a program, or after its end.
OutsideEdge(m) ==
  /\ \E wr : Clock(wr)
  /\ Early => Early'
  /\ Early' \/ Due'
  /\ initial_sync_master' = initial_sync_master
  /\ \E n \in Hart : Base(n)'
  /\ host' # "enable" => Base(m)'

LEMMA OutsideHost ==
  ASSUME NEW m, Base(m), Common0, HostStep, VotedUse, Early \/ Due
  PROVE  OutsideEdge(m) /\ core' = core
<1>1. Early' /\ initial_sync_master' = initial_sync_master /\ (host = "master" => host' = "enable")
  BY HostEarly
<1>2. \E wr : Clock(wr)
  BY HostTurns, Zenon
<1>3. (\E n \in Hart : Base(n)') /\ (host # "master" => Base(m)') /\ core' = core
  BY HostTurns, Zenon
<1> QED BY <1>1, <1>2, <1>3 DEF OutsideEdge

LEMMA OutsideTurn ==
  ASSUME NEW m, Base(m), Common0, NEW G, NEW d, NEW wr, Turn(G, d, wr), Early \/ Due,
         wr.reg = "NONE", FSM!AllAsleep => FSM!AllAsleep'
  PROVE  OutsideEdge(m)
<1>1. TypeOK
  BY DEF Base
<1>2. Clock(wr) /\ host' = host /\ job' = job /\ Ticks(wr)
  BY TurnTicks DEF Ordinary
<1>3. /\ Protocol!Free => Protocol!Free'
      /\ Protocol!Launched => Protocol!Accepted'
      /\ Starting => Going'
      /\ Due => Due'
  BY <1>1, <1>2, TicksRegisters, TicksPulse
<1>4. safe_configuration' = safe_configuration /\ initial_sync_master' = initial_sync_master
  BY <1>2, ClockConfig DEF Loaded
<1>5. Early => Early'
  BY <1>2, <1>3, <1>4 DEF Early, Starting, Going
<1>6. Base(m)' /\ \E n \in Hart : Base(n)'
  BY TurnStays
<1> QED BY <1>2, <1>3, <1>4, <1>5, <1>6 DEF OutsideEdge

\* The host does nothing while it waits for its interrupt.
LEMMA HostWaits ==
  ASSUME NEW m, Base(m), Common0, VotedUse, host = "wait", ~irq
  PROVE  ~HostStep
BY HostTurns

LEMMA FromReset ==
  ASSUME NEW m, Base(m), Common0, Reset(m), Next, VotedUse
  PROVE  \E n \in Hart : Base(n)' /\ Phase(n)'
<1>1. /\ safe = "RESET" /\ single = "SINGLE_RESET" /\ AllIn("TMR_RESET") /\ master_core = {m} /\ m \in Hart
      /\ core \in [Hart -> CoreState] /\ DualOff
      /\ \A h \in Hart : Fresh(core[h])
  BY HartIs DEF Base, TypeOK, CoreState, Common0, Reset, General
<1>2. NoHalt /\ NoInterrupt /\ \A h \in Hart : tmr[h] = "TMR_RESET"
  BY <1>1, AllInSignals DEF NoHalt, NoInterrupt
<1>3. Early /\ ~initial_sync_master
  BY DEF Reset, Early, Unsynced
<1>4. OutsideEdge(m) /\ \A h \in Hart : Fresh(core'[h])
  <2>1. CASE HostStep
    BY <1>1, <1>3, <2>1, OutsideHost
  <2>2. ASSUME NEW G, NEW d, NEW wr, Turn(G, d, wr)
        PROVE  OutsideEdge(m) /\ \A h \in Hart : Fresh(core'[h])
    <3>1. (\A h \in Hart : Fresh(core'[h])) /\ wr.reg = "NONE" /\ (FSM!AllAsleep => FSM!AllAsleep')
      BY <1>1, <1>2, <2>2, FreshTurn, HartSignals
    <3> QED BY <1>3, <2>2, <3>1, OutsideTurn
  <2> QED BY <2>1, <2>2, NextTurns
<1>5. General("BOOT", "SINGLE_IDLE")' /\ AllIn("TMR_IDLE")'
  <2>1. safe' = "BOOT" /\ single' = "SINGLE_IDLE"
    BY <1>1, <1>4, ClockMachines DEF OutsideEdge, FSM!SafeNext, FSM!SingleNext
  <2>2. \A h \in Hart : FSM!TmrNext(h) = "TMR_IDLE"
    BY <1>2 DEF FSM!TmrNext
  <2>3. tmr' = [h \in Hart |-> "TMR_IDLE"]
    BY <1>4, <2>2, ClockMachines DEF OutsideEdge
  <2> QED BY <2>1, <2>3 DEF General, AllIn
<1>6. Early' /\ Unsynced'
  BY <1>3, <1>4 DEF OutsideEdge, Unsynced
<1>7. PICK n \in Hart : Base(n)'
  BY <1>4 DEF OutsideEdge
<1>8. Boot(n)'
  BY <1>4, <1>5, <1>6 DEF Boot
<1> QED BY <1>7, <1>8 DEF Phase

LEMMA FromBoot ==
  ASSUME NEW m, Base(m), Common0, Boot(m), Next, VotedUse
  PROVE  \E n \in Hart : Base(n)' /\ Phase(n)'
<1>1. /\ safe = "BOOT" /\ single = "SINGLE_IDLE" /\ AllIn("TMR_IDLE") /\ master_core = {m} /\ m \in Hart
      /\ core \in [Hart -> CoreState] /\ DualOff
      /\ \A h \in Hart : Fresh(core[h])
  BY HartIs DEF Base, TypeOK, CoreState, Common0, Boot, General
<1>2. NoHalt /\ NoInterrupt /\ \A h \in Hart : tmr[h] = "TMR_IDLE"
  BY <1>1, AllInSignals DEF NoHalt, NoInterrupt
<1>3. Early /\ ~initial_sync_master
  BY DEF Boot, Unsynced
<1>4. /\ OutsideEdge(m)
      /\ \A h \in Hart : Fresh(core'[h]) /\ (core[h].mode = "sleep" => core'[h] = core[h])
  <2>1. CASE HostStep
    BY <1>1, <1>3, <2>1, OutsideHost
  <2>2. ASSUME NEW G, NEW d, NEW wr, Turn(G, d, wr)
        PROVE  /\ OutsideEdge(m)
               /\ \A h \in Hart : Fresh(core'[h]) /\ (core[h].mode = "sleep" => core'[h] = core[h])
    <3>1. /\ \A h \in Hart : Fresh(core'[h]) /\ (core[h].mode = "sleep" => core'[h] = core[h])
          /\ wr.reg = "NONE" /\ (FSM!AllAsleep => FSM!AllAsleep')
      BY <1>1, <1>2, <2>2, FreshTurn, HartSignals
    <3> QED BY <1>3, <2>2, <3>1, OutsideTurn
  <2> QED BY <2>1, <2>2, NextTurns
<1>5. /\ single' = "SINGLE_IDLE" /\ AllIn("TMR_IDLE")'
      /\ safe' = IF FSM!AllAsleep THEN "IDLE" ELSE "BOOT"
  <2>1. safe' = (IF FSM!AllAsleep THEN "IDLE" ELSE "BOOT") /\ single' = "SINGLE_IDLE"
    BY <1>1, <1>4, ClockMachines DEF OutsideEdge, FSM!SafeNext, FSM!SingleNext, FSM!SingleMayStart
  <2>2. \A h \in Hart : FSM!TmrNext(h) = "TMR_IDLE"
    BY <1>1, <1>2 DEF FSM!TmrNext
  <2>3. tmr' = [h \in Hart |-> "TMR_IDLE"]
    BY <1>4, <2>2, ClockMachines DEF OutsideEdge
  <2> QED BY <2>1, <2>3 DEF AllIn
<1>6. Early' /\ Unsynced'
  BY <1>3, <1>4 DEF OutsideEdge, Unsynced
<1>7. CASE ~FSM!AllAsleep
  <2>1. PICK n \in Hart : Base(n)'
    BY <1>4 DEF OutsideEdge
  <2>2. Boot(n)'
    BY <1>4, <1>5, <1>6, <1>7 DEF Boot, General
  <2> QED BY <2>1, <2>2 DEF Phase
<1>8. CASE FSM!AllAsleep
  <2>1. AllRest'
    <3>1. \A h \in Hart : core[h].mode = "sleep"
      BY <1>8, HartSignals
    <3>2. \A h \in Hart : core'[h].mode = "sleep" /\ core'[h].loc = "wfi_entry" /\ ~core'[h].ack
      BY <1>4, <3>1 DEF Fresh
    <3> QED BY <3>2 DEF AllRest, Resting
  <2>2. master_core_ff' = {m}
    BY <1>1, <1>4, <1>8, ClockConfig DEF OutsideEdge
  <2>3. \E n \in Hart : Base(n)' /\ (host' # "enable" => n = m)
    <3>1. CASE host' # "enable"
      BY <1>1, <1>4, <3>1 DEF OutsideEdge
    <3>2. CASE host' = "enable"
      BY <1>4, <3>2 DEF OutsideEdge
    <3> QED BY <3>1, <3>2
  <2>4. PICK n \in Hart : Base(n)' /\ (host' # "enable" => n = m)
    BY <2>3
  <2>5. Idle(n)'
    BY <1>5, <1>6, <1>8, <2>1, <2>2, <2>4 DEF Idle, General
  <2> QED BY <2>4, <2>5 DEF Phase
<1> QED BY <1>7, <1>8

\* A program has been started, and the host waits for it.
LEMMA Waits ==
  /\ Starting => host = "wait" /\ ~irq /\ start
  /\ Going => host = "wait" /\ ~irq /\ start /\ ~end_sw_routine
  /\ Over => host = "wait" /\ ~irq /\ end_sw_routine
  /\ Pulse => host = "wait" /\ ~irq /\ ~start
BY RegisterFacts DEF Starting, Going, Pulse

\* Nobody wakes a resting hart.
LEMMA RestTurn ==
  ASSUME NEW m, Base(m), Common0, VotedUse, Next, host = "wait", ~irq,
         AllRest, NoHalt, NoInterrupt
  PROVE  /\ \E wr : Clock(wr) /\ Ticks(wr) /\ wr.reg = "NONE"
         /\ Base(m)' /\ AllRest' /\ FSM!AllAsleep /\ FSM!AllAsleep'
         /\ \A h \in Hart : core'[h] = core[h]
         /\ host' = host /\ job' = job /\ program' = program /\ ~mismatch'
<1>1. PICK G, d, wr : Turn(G, d, wr)
  BY HostWaits, NextTurns
<1>2. Asleep3
  BY DEF AllRest, Resting, Asleep3
<1>3. /\ \A h \in Hart : core'[h] = core[h]
      /\ wr.reg = "NONE" /\ ~mismatch'
  BY <1>1, <1>2, AsleepTurn
<1>4. Clock(wr) /\ Ticks(wr) /\ host' = host /\ job' = job /\ program' = program
  BY <1>1, <1>3, TurnTicks DEF Ordinary
<1>5. Base(m)'
  BY <1>1, <1>3, TurnStays
<1>6. AllRest'
  BY <1>3 DEF AllRest, Resting
<1> QED BY <1>2, <1>3, <1>4, <1>5, <1>6, HartSignals DEF Asleep3

LEMMA FromIdle ==
  ASSUME NEW m, Base(m), Common0, Idle(m), Next, VotedUse
  PROVE  \E n \in Hart : Base(n)' /\ Phase(n)'
<1>1. /\ safe = "IDLE" /\ single = "SINGLE_IDLE" /\ AllIn("TMR_IDLE") /\ master_core = {m} /\ m \in Hart
      /\ core \in [Hart -> CoreState] /\ DualOff /\ safe_configuration \in {0, 1}
  BY HartIs DEF Base, TypeOK, CoreState, Common0, Idle, General
<1>2. NoHalt /\ NoInterrupt /\ \A h \in Hart : tmr[h] = "TMR_IDLE"
  BY <1>1, AllInSignals DEF NoHalt, NoInterrupt
<1>3. AllRest /\ FSM!AllAsleep /\ (Early \/ Due) /\ ~initial_sync_master
  BY HartSignals DEF Idle, Unsynced, AllRest, Resting
<1>4. OutsideEdge(m) /\ \A h \in Hart : core'[h] = core[h]
  <2>1. CASE HostStep
    BY <1>3, <2>1, OutsideHost
  <2>2. ASSUME NEW G, NEW d, NEW wr, Turn(G, d, wr)
        PROVE  OutsideEdge(m) /\ \A h \in Hart : core'[h] = core[h]
    <3>1. (\A h \in Hart : core'[h] = core[h]) /\ wr.reg = "NONE"
      BY <1>2, <1>3, <2>2, AsleepTurn DEF AllRest, Resting, Asleep3
    <3>2. FSM!AllAsleep => FSM!AllAsleep'
      BY <3>1, HartSignals
    <3> QED BY <1>3, <2>2, <3>1, <3>2, OutsideTurn
  <2> QED BY <2>1, <2>2, NextTurns
<1>5. AllRest'
  BY <1>3, <1>4 DEF AllRest, Resting
<1>6. AllIn("TMR_IDLE")' /\ single' = "SINGLE_IDLE"
  <2>1. single' = "SINGLE_IDLE"
    BY <1>1, <1>4, ClockMachines DEF OutsideEdge, FSM!SingleNext, FSM!SingleMayStart
  <2>2. \A h \in Hart : FSM!TmrNext(h) = "TMR_IDLE"
    BY <1>1, <1>2 DEF FSM!TmrNext
  <2>3. tmr' = [h \in Hart |-> "TMR_IDLE"]
    BY <1>4, <2>2, ClockMachines DEF OutsideEdge
  <2> QED BY <2>1, <2>3 DEF AllIn
<1>7. safe' = IF start THEN (IF safe_configuration = 1 THEN "TMR_MODE" ELSE "SINGLE_MODE") ELSE "IDLE"
  BY <1>1, <1>4, ClockMachines DEF OutsideEdge, FSM!SafeNext, FSM!Dual, FSM!TCLS, FSM!DCLS, FSM!LOCKSTEP, FSM!SINGLE
<1>8. master_core_ff' = {m} /\ Unsynced'
  BY <1>1, <1>3, <1>4, ClockConfig DEF OutsideEdge, Unsynced
<1>9. CASE ~start
  <2>1. \E n \in Hart : Base(n)' /\ (host' # "enable" => n = m)
    <3>1. CASE host' # "enable"
      BY <1>1, <1>4, <3>1 DEF OutsideEdge
    <3>2. CASE host' = "enable"
      BY <1>4, <3>2 DEF OutsideEdge
    <3> QED BY <3>1, <3>2
  <2>2. PICK n \in Hart : Base(n)' /\ (host' # "enable" => n = m)
    BY <2>1
  <2>3. Idle(n)'
    BY <1>4, <1>5, <1>6, <1>7, <1>8, <1>9, <2>2 DEF Idle, General, OutsideEdge
  <2> QED BY <2>2, <2>3 DEF Phase
<1>10. CASE start
  <2>1. (Protocol!Launched \/ Starting) /\ host = "wait" /\ ~irq /\ safe_configuration = job.conf
    BY <1>3, <1>10, RegisterFacts DEF Early, Due, Starting
  <2>2. PICK wr : Clock(wr) /\ Ticks(wr) /\ wr.reg = "NONE"
    BY <1>2, <1>3, <2>1, RestTurn
  <2>3. Base(m)' /\ host' = host /\ job' = job /\ FSM!AllAsleep'
    BY <1>2, <1>3, <2>1, RestTurn
  <2>4. Starting'
    BY <2>1, <2>2, <2>3, TicksRegisters, TicksPulse DEF Starting, Going, Base
  <2>5. safe_configuration' = safe_configuration
    BY <2>2, ClockConfig DEF Loaded
  <2>6. CASE safe_configuration = 0
    <3>1. SingleEntry(m)'
      BY <1>5, <1>6, <1>7, <1>8, <1>10, <2>1, <2>3, <2>4, <2>5, <2>6 DEF SingleEntry, General
    <3> QED BY <1>1, <2>3, <3>1 DEF Phase
  <2>7. CASE safe_configuration = 1
    <3>1. VotedEntry(m)'
      BY <1>5, <1>6, <1>7, <1>8, <1>10, <2>1, <2>3, <2>4, <2>5, <2>7 DEF VotedEntry, General
    <3> QED BY <1>1, <2>3, <3>1 DEF Phase
  <2> QED BY <1>1, <2>6, <2>7
<1> QED BY <1>9, <1>10

LEMMA FromSingleEntry ==
  ASSUME NEW m, Base(m), Common0, SingleEntry(m), Next, VotedUse
  PROVE  \E n \in Hart : Base(n)' /\ Phase(n)'
<1>1. /\ safe = "SINGLE_MODE" /\ single = "SINGLE_IDLE" /\ AllIn("TMR_IDLE") /\ master_core = {m} /\ m \in Hart
      /\ DualOff /\ Starting /\ AllRest /\ safe_configuration = 0 /\ job.conf = 0
      /\ master_core_ff = {m} /\ ~initial_sync_master
  BY DEF Base, Common0, SingleEntry, General, Unsynced
<1>2. /\ NoHalt /\ NoInterrupt /\ \A h \in Hart : tmr[h] = "TMR_IDLE"
      /\ FSM!SwitchToSingle = {} /\ FSM!Start_Boot
  BY <1>1, AllInSignals DEF NoHalt, NoInterrupt
<1>3. host = "wait" /\ ~irq /\ start
  BY <1>1, Waits
<1>4. PICK wr : Clock(wr) /\ Ticks(wr) /\ wr.reg = "NONE"
  BY <1>1, <1>2, <1>3, RestTurn
<1>5. Base(m)' /\ job' = job /\ AllRest' /\ FSM!AllAsleep /\ FSM!AllAsleep'
  BY <1>1, <1>2, <1>3, RestTurn
<1>6. Going' /\ Starting'
  BY <1>1, <1>4, <1>5, TicksPulse DEF Base, Going, Starting
<1>7. /\ safe_configuration' = 0 /\ initial_sync_master' = initial_sync_master
      /\ external_debug_req' = 2 /\ master_core_ff' = {m}
  BY <1>1, <1>2, <1>4, ClockConfig DEF Loaded
<1>8. /\ safe' = "SINGLE_MODE" /\ AllIn("TMR_IDLE")'
      /\ single' = IF end_sw_routine THEN "SINGLE_IDLE" ELSE "SINGLE_START"
  <2>1. safe' = "SINGLE_MODE"
    BY <1>1, <1>3, <1>4, ClockMachines, AllInSignals DEF FSM!SafeNext, FSM!Dual, FSM!TCLS, FSM!DCLS, FSM!LOCKSTEP
  <2>2. single' = IF end_sw_routine THEN "SINGLE_IDLE" ELSE "SINGLE_START"
    BY <1>1, <1>2, <1>3, <1>4, ClockMachines DEF FSM!SingleNext, FSM!SingleMayStart
  <2>3. \A h \in Hart : FSM!TmrNext(h) = "TMR_IDLE"
    BY <1>1, <1>2 DEF FSM!TmrNext
  <2>4. tmr' = [h \in Hart |-> "TMR_IDLE"]
    BY <1>4, <2>3, ClockMachines
  <2> QED BY <2>1, <2>2, <2>4 DEF AllIn
<1>9. CASE end_sw_routine
  <2>1. SingleEntry(m)'
    BY <1>1, <1>5, <1>6, <1>7, <1>8, <1>9 DEF SingleEntry, General, Unsynced
  <2> QED BY <1>1, <1>5, <2>1 DEF Phase
<1>10. CASE ~end_sw_routine
  <2>1. OthersRest(m)' /\ Resting(core[m])'
    BY <1>1, <1>5 DEF AllRest, OthersRest
  <2>2. SingleStart(m)'
    BY <1>1, <1>5, <1>6, <1>7, <1>8, <1>10, <2>1 DEF SingleStart, General, Unsynced
  <2> QED BY <1>1, <1>5, <2>2 DEF Phase
<1> QED BY <1>9, <1>10

LEMMA FromVotedEntry ==
  ASSUME NEW m, Base(m), Common0, VotedEntry(m), Next, VotedUse
  PROVE  \E n \in Hart : Base(n)' /\ Phase(n)'
<1>1. /\ safe = "TMR_MODE" /\ single = "SINGLE_IDLE" /\ AllIn("TMR_IDLE") /\ master_core = {m} /\ m \in Hart
      /\ DualOff /\ Starting /\ AllRest /\ safe_configuration = 1 /\ job.conf = 1
      /\ master_core_ff = {m} /\ ~initial_sync_master
  BY DEF Base, Common0, VotedEntry, General, Unsynced
<1>2. /\ NoHalt /\ NoInterrupt /\ \A h \in Hart : tmr[h] = "TMR_IDLE"
      /\ FSM!Switch_TMRtoSingle = {}
  BY <1>1, AllInSignals DEF NoHalt, NoInterrupt
<1>3. host = "wait" /\ ~irq /\ start
  BY <1>1, Waits
<1>4. PICK wr : Clock(wr) /\ Ticks(wr) /\ wr.reg = "NONE"
  BY <1>1, <1>2, <1>3, RestTurn
<1>5. Base(m)' /\ job' = job /\ AllRest' /\ FSM!AllAsleep /\ FSM!AllAsleep'
  BY <1>1, <1>2, <1>3, RestTurn
<1>6. Going'
  BY <1>1, <1>4, <1>5, TicksPulse DEF Base
<1>7. /\ safe_configuration' = 1 /\ initial_sync_master' = initial_sync_master
      /\ master_core_ff' = {m}
  BY <1>1, <1>2, <1>4, ClockConfig DEF Loaded
<1>8. General("TMR_MODE", "SINGLE_IDLE")' /\ AllIn("TMR_START")'
  <2>1. safe' = "TMR_MODE"
    BY <1>1, <1>2, <1>3, <1>4, ClockMachines DEF FSM!SafeNext
  <2>2. single' = "SINGLE_IDLE"
    BY <1>1, <1>4, ClockMachines DEF FSM!SingleNext, FSM!SingleMayStart
  <2>3. \A h \in Hart : FSM!TmrNext(h) = "TMR_START"
    BY <1>1, <1>2, <1>3 DEF FSM!TmrNext, FSM!Enable_Switch
  <2>4. tmr' = [h \in Hart |-> "TMR_START"]
    BY <1>4, <2>3, ClockMachines
  <2> QED BY <2>1, <2>2, <2>4 DEF AllIn, General
<1>9. VotedStart(m)'
  BY <1>1, <1>5, <1>6, <1>7, <1>8 DEF VotedStart, Unsynced
<1> QED BY <1>1, <1>5, <1>9 DEF Phase

LEMMA FromEnd ==
  ASSUME NEW m, Base(m), Common0, SingleEnd(m) \/ VotedEnd(m), Next, VotedUse
  PROVE  \E n \in Hart : Base(n)' /\ Phase(n)'
<1>1. /\ \/ safe = "SINGLE_MODE" /\ SingleEnd(m)
         \/ safe = "TMR_MODE" /\ VotedEnd(m)
      /\ single = "SINGLE_IDLE" /\ AllIn("TMR_IDLE") /\ master_core = {m} /\ m \in Hart
      /\ DualOff /\ Pulse /\ ~initial_sync_master /\ master_core_ff = {m}
  BY DEF Base, Common0, SingleEnd, VotedEnd, General, Unsynced
<1>2. AllRest
  BY <1>1 DEF SingleEnd, VotedEnd, AllRest, Resting, Dozing
<1>3. /\ NoHalt /\ NoInterrupt /\ \A h \in Hart : tmr[h] = "TMR_IDLE"
      /\ FSM!TmrIn({"TMR_IDLE"}) = Hart /\ FSM!Switch_TMRtoSingle = {}
  BY <1>1, AllInSignals DEF NoHalt, NoInterrupt
<1>4. host = "wait" /\ ~irq /\ ~start
  BY <1>1, Waits
<1>5. PICK wr : Clock(wr) /\ Ticks(wr) /\ wr.reg = "NONE"
  BY <1>2, <1>3, <1>4, RestTurn
<1>6. Base(m)' /\ AllRest' /\ FSM!AllAsleep /\ FSM!AllAsleep'
  BY <1>2, <1>3, <1>4, RestTurn
<1>7. Due'
  BY <1>1, <1>5, <1>6, TicksPulse DEF Base
<1>8. initial_sync_master' = initial_sync_master /\ master_core_ff' = {m}
  BY <1>1, <1>5, ClockConfig DEF Loaded
<1>9. General("IDLE", "SINGLE_IDLE")' /\ AllIn("TMR_IDLE")'
  <2>1. safe' = "IDLE"
    <3>1. FSM!TmrIn({"TMR_IDLE"}) = FSM!Hart /\ safe' = FSM!SafeNext
      BY <1>3, <1>5, ClockMachines, HartIs
    <3>2. CASE safe = "SINGLE_MODE"
      BY <1>1, <1>4, <3>1, <3>2 DEF FSM!SafeNext
    <3>3. CASE safe = "TMR_MODE"
      BY <1>1, <1>3, <1>4, <3>1, <3>3 DEF FSM!SafeNext
    <3> QED BY <1>1, <3>2, <3>3
  <2>2. single' = "SINGLE_IDLE"
    BY <1>1, <1>4, <1>5, ClockMachines DEF FSM!SingleNext, FSM!SingleMayStart
  <2>3. \A h \in Hart : FSM!TmrNext(h) = "TMR_IDLE"
    BY <1>1, <1>3, <1>4 DEF FSM!TmrNext
  <2>4. tmr' = [h \in Hart |-> "TMR_IDLE"]
    BY <1>5, <2>3, ClockMachines
  <2> QED BY <2>1, <2>2, <2>4 DEF AllIn, General
<1>10. Idle(m)'
  BY <1>1, <1>6, <1>7, <1>8, <1>9 DEF Idle, Unsynced
<1> QED BY <1>1, <1>6, <1>10 DEF Phase

LEMMA TurnEnding ==
  ASSUME NEW G, NEW d, NEW wr, Turn(G, d, wr), wr.reg = "END_SW_ROUTINE"
  PROVE  /\ wr = EndWrite /\ G # {}
         /\ \A h \in G : core[h].mode = "run"
BY TurnTicks

(***************************************************************************)
(* From one phase to the next: the master alone.                           *)
(***************************************************************************)
AloneStep(m, wr) ==
  /\ OthersRest(m)' /\ core' \in [Hart -> CoreState]
  /\ \A h \in Hart \ {m} : core'[h] = core[h]
  /\ Clock(wr) /\ host' = host /\ job' = job /\ program' = program
  /\ Ordinary(wr) => Ticks(wr)
  /\ \/ core'[m] = core[m] /\ Silently(wr, safe_copy')
     \/ Moves(m, core[m], core'[m], wr)
  /\ wr.reg # "MASTER_CORE" => Base(m)'
  /\ Going /\ wr.reg = "END_SW_ROUTINE" => Protocol!Ending'

LEMMA AloneTurns ==
  ASSUME NEW m, Base(m), Common0, VotedUse, Next, host = "wait", ~irq, ~Voting,
         OthersRest(m), FSM!Interrupt_Halt \subseteq {m}, FSM!Interrupt_Sync \subseteq {m},
         FSM!Interrupt_swResync = {}
  PROVE  \E wr : AloneStep(m, wr)
<1>1. PICK G, d, wr : Turn(G, d, wr)
  BY HostWaits, NextTurns
<1>2. G \subseteq {m}
  <2>1. ASSUME NEW h \in G, h # m
        PROVE  FALSE
    <3>1. h \in Hart /\ core[h].mode = "sleep" /\ Moves(h, core[h], d, wr)
      BY <1>1, <2>1 DEF Turn, OthersRest, Resting
    <3>2. Does(core[h], d, wr, safe_copy')
      BY <2>1, <3>1 DEF Moves
    <3> QED BY <3>1, <3>2, RomAt
  <2> QED BY <2>1
<1>3. /\ Clock(wr) /\ host' = host /\ job' = job /\ program' = program
      /\ Ordinary(wr) => Ticks(wr)
  BY <1>1, TurnTicks
<1>4. \A h \in Hart \ {m} : core'[h] = core[h]
  BY <1>1, <1>2, TurnEach
<1>5. OthersRest(m)'
  BY <1>4 DEF OthersRest, Resting
<1>6. \/ core'[m] = core[m] /\ Silently(wr, safe_copy')
      \/ Moves(m, core[m], core'[m], wr)
  <2>1. m \in Hart
    BY DEF Base
  <2>2. CASE m \in G
    BY <1>1, <2>2, TurnEach
  <2>3. CASE m \notin G
    BY <1>1, <1>2, <2>1, <2>3, TurnEach DEF Turn
  <2> QED BY <2>2, <2>3
<1>7. core' \in [Hart -> CoreState] /\ (wr.reg # "MASTER_CORE" => Base(m)')
  BY <1>1, TurnStays
<1>8. ASSUME Going, wr.reg = "END_SW_ROUTINE"
      PROVE  Protocol!Ending'
  <2>1. wr = EndWrite /\ G # {} /\ \A h \in G : core[h].mode = "run"
    BY <1>1, <1>8, TurnEnding
  <2>2. G \subseteq Hart
    BY <1>1 DEF Turn
  <2>3. ~FSM!AllAsleep
    BY <2>1, <2>2, HartSignals
  <2>4. TypeOK
    BY DEF Base
  <2> QED BY <1>1, <1>8, <2>1, <2>3, <2>4, TurnEnds
<1>9. AloneStep(m, wr)
  BY <1>3, <1>4, <1>5, <1>6, <1>7, <1>8 DEF AloneStep
<1> QED BY <1>9

LEMMA FromSingleStart ==
  ASSUME NEW m, Base(m), Common0, SingleStart(m), Next, VotedUse
  PROVE  \E n \in Hart : Base(n)' /\ Phase(n)'
<1>1. /\ safe = "SINGLE_MODE" /\ single = "SINGLE_START" /\ AllIn("TMR_IDLE") /\ master_core = {m} /\ m \in Hart
      /\ DualOff /\ Going /\ OthersRest(m) /\ safe_configuration = 0 /\ job.conf = 0
      /\ master_core_ff = {m} /\ ~initial_sync_master /\ external_debug_req = 2
      /\ core \in [Hart -> CoreState]
  BY HartIs DEF Base, TypeOK, CoreState, Common0, SingleStart, General, Unsynced
<1>2. /\ FSM!Interrupt_Halt = {m} /\ FSM!Interrupt_Sync = {} /\ FSM!Interrupt_swResync = {}
      /\ \A h \in Hart : tmr[h] = "TMR_IDLE"
      /\ FSM!SwitchToSingle = {} /\ FSM!Start_Boot /\ ~Voting
  BY <1>1, AllInSignals DEF FSM!TmrVoting
<1>3. host = "wait" /\ ~irq /\ start /\ ~end_sw_routine
  BY <1>1, Waits
<1>4. PICK wr : AloneStep(m, wr)
  BY <1>1, <1>2, <1>3, AloneTurns
<1>5. core'[m] \in CoreState /\ core[m] \in CoreState
  BY <1>1, <1>4 DEF AloneStep
<1>6. /\ wr.reg = "NONE"
      /\ Resting(core[m]) => core'[m] = core[m] \/ Halting(core'[m], {"debug_entry"})
      /\ Halting(core[m], {"debug_entry"}) => Halting(core'[m], {"debug_entry", "single_boot"})
  <2>1. CASE core'[m] = core[m] /\ Silently(wr, safe_copy')
    BY <2>1, WritesRegister DEF Halting
  <2>2. CASE Resting(core[m]) /\ Moves(m, core[m], core'[m], wr)
    <3>1. core[m].mode = "sleep"
      BY <2>2 DEF Resting
    <3>2. core'[m] = HaltedAs /\ Silently(wr, safe_copy')
      BY <1>2, <2>2, <3>1, RomAt DEF Moves
    <3>3. Halting(core'[m], {"debug_entry"})
      BY <3>2 DEF HaltedAs, Rec, Halting
    <3> QED BY <3>1, <3>2, <3>3, WritesRegister DEF Halting
  <2>3. CASE Halting(core[m], {"debug_entry"}) /\ Moves(m, core[m], core'[m], wr)
    <3>1. core[m].mode = "debug" /\ core[m].loc = "debug_entry" /\ ~core[m].ack
      BY <2>3 DEF Halting
    <3>2. m \in Halted
      BY <1>1, <3>1, HartSignals
    <3>3. Does(core[m], core'[m], wr, safe_copy')
      BY <1>2, <2>3, <3>2 DEF Moves
    <3>4. core'[m] = Goes(core[m], Entry) /\ Silently(wr, safe_copy')
      BY <3>1, <3>3, RomAt
    <3>5. Entry = "single_boot"
      BY <1>1 DEF Entry
    <3>6. Halting(core'[m], {"debug_entry", "single_boot"})
      BY <1>5, <3>1, <3>4, <3>5, GoesTyped DEF Halting, Loc, RomLoc
    <3> QED BY <3>1, <3>4, <3>6, WritesRegister DEF Resting
  <2> QED BY <1>1, <1>4, <2>1, <2>2, <2>3 DEF AloneStep, SingleStart
<1>7. Clock(wr) /\ Ticks(wr) /\ Base(m)' /\ job' = job /\ OthersRest(m)'
  BY <1>4, <1>6 DEF AloneStep, Ordinary
<1>8. Going'
  <2>1. FSM!AllAsleep /\ end_sw_routine => FSM!AllAsleep'
    BY <1>3
  <2> QED BY <1>1, <1>7, <2>1, TicksPulse DEF Base
<1>9. /\ safe_configuration' = 0 /\ initial_sync_master' = initial_sync_master
      /\ external_debug_req' = 2 /\ master_core_ff' = {m}
  BY <1>1, <1>2, <1>6, <1>7, ClockConfig DEF Loaded
<1>10. /\ safe' = "SINGLE_MODE" /\ AllIn("TMR_IDLE")'
       /\ single' = IF Halted = {m} THEN "SINGLE_RUN" ELSE "SINGLE_START"
  <2>1. safe' = "SINGLE_MODE"
    BY <1>1, <1>3, <1>7, ClockMachines DEF FSM!SafeNext, FSM!Dual, FSM!TCLS, FSM!DCLS, FSM!LOCKSTEP
  <2>2. single' = IF Halted = {m} THEN "SINGLE_RUN" ELSE "SINGLE_START"
    BY <1>1, <1>7, ClockMachines DEF FSM!SingleNext
  <2>3. \A h \in Hart : FSM!TmrNext(h) = "TMR_IDLE"
    BY <1>1, <1>2 DEF FSM!TmrNext
  <2>4. tmr' = [h \in Hart |-> "TMR_IDLE"]
    BY <1>7, <2>3, ClockMachines
  <2> QED BY <2>1, <2>2, <2>4 DEF AllIn
<1>11. CASE Resting(core[m])
  <2>1. m \notin Halted
    BY <1>1, <1>11, HartSignals DEF Resting
  <2>2. Resting(core[m])' \/ Halting(core[m], {"debug_entry"})'
    BY <1>6, <1>11 DEF Resting, Halting
  <2>3. SingleStart(m)'
    BY <1>1, <1>7, <1>8, <1>9, <1>10, <2>1, <2>2 DEF SingleStart, General, Unsynced
  <2> QED BY <1>1, <1>7, <2>3 DEF Phase
<1>12. CASE Halting(core[m], {"debug_entry"})
  <2>1. Halted = {m}
    <3>1. \A h \in Hart : h \in Halted <=> h = m
      BY <1>1, <1>12, HartSignals DEF Halting, OthersRest, Resting
    <3> QED BY <1>1, <3>1, HartIs DEF Halted
  <2>2. Halting(core[m], {"debug_entry", "single_boot"})'
    BY <1>6, <1>12 DEF Halting
  <2>3. Alone(core[m])'
    BY <1>1, <1>7, <1>8, <1>9, <2>2 DEF Alone
  <2>4. SingleRun(m)'
    BY <1>1, <1>7, <1>9, <1>10, <2>1, <2>3 DEF SingleRun, General, Unsynced
  <2> QED BY <1>1, <1>7, <2>4 DEF Phase
<1> QED BY <1>11, <1>12 DEF SingleStart

(***************************************************************************)
(* Places in the program do not move while the program stays.              *)
(***************************************************************************)
ProgramStays == program' = program /\ job' = job

LEMMA PlacesStay ==
  ASSUME ProgramStays
  PROVE  /\ \A n : ModeAt(n)' = ModeAt(n)
         /\ \A n, md : Leads(n, md)' <=> Leads(n, md)
         /\ \A n, f : IsCall(n, f)' <=> IsCall(n, f)
         /\ \A p, n, md : Within1(p, n, md)' <=> Within1(p, n, md)
<1>1. \A n : ModeAt(n)' = ModeAt(n)
  BY DEF ModeAt, ProgramStays
<1>2. \A n, md : Leads(n, md)' <=> Leads(n, md)
  BY <1>1 DEF Leads, ProgramStays
<1>3. \A n, f : IsCall(n, f)' <=> IsCall(n, f)
  BY DEF IsCall, ProgramStays
<1>4. \A p, n, md : Within1(p, n, md)' <=> Within1(p, n, md)
  BY <1>1, <1>2 DEF Within1, ProgramStays
<1> QED BY <1>1, <1>2, <1>3, <1>4

\* Where the calls of a program lead to.
LEMMA CallsLead ==
  ASSUME NEW m, Base(m), NEW n \in Nat
  PROVE  /\ ModeAt(1) = job.conf /\ 1 \in 1..(Len(program) + 1)
         /\ CallAt(n)[1] # "return" => n \in 1..Len(program) /\ CallAt(n) = program[n]
         /\ n \in 1..Len(program) => n \in 1..(Len(program) + 1) /\ n + 1 \in 1..(Len(program) + 1)
         /\ CallAt(n)[1] = Activate => IsCall(n, Activate) /\ CallAt(n)[2] = 1
         /\ CallAt(n)[1] = Stop => IsCall(n, Stop) /\ CallAt(n)[2] \in Hart
         /\ IsCall(n, Stop) => Leads(n, 0) /\ CallAt(n)[1] = Stop /\ CallAt(n)[2] \in Hart
         /\ IsCall(n, Activate) => CallAt(n)[2] = 1
         /\ IsCall(n, Activate) /\ ModeAt(n) = 0 => Leads(n, 1)
         /\ IsCall(n, Activate) /\ ModeAt(n) = 1 => Leads(n, 1)
         /\ \A md \in {0, 1} :
              ModeAt(n) = md /\ CallAt(n)[1] \in {Work, Checkpoint, Critical, SetMask} =>
                Leads(n, md)
         /\ \A md \in {0, 1} : Leads(n, md) => /\ Within1("main", n + 1, md)
                                               /\ Within1("ckpt_regs", n, md)
                                               /\ Within1("ckpt_pc", n, md)
                                               /\ Within1("call_end", n, md)
<1>1. /\ program \in Seq(ProgramCall) /\ job.conf \in {0, 1} /\ Len(program) \in Nat
      /\ \A i \in 1..Len(program) : program[i][1] = Activate => program[i][2] = 1
  BY DEF Base, VotedJob, FSM!SINGLE, FSM!TCLS
<1>2. /\ ModeAt(1) = job.conf
      /\ \A i \in 1..Len(program) : ModeAt(i + 1) = ModeAfter(program[i], ModeAt(i))
      /\ \A i \in 1..(Len(program) + 1) : ModeAt(i) \in {0, 1}
  BY <1>1, ModesAre
<1>3. /\ CallAt(n)[1] # "return" => n \in 1..Len(program) /\ CallAt(n) = program[n]
      /\ CallAt(n)[1] = Stop => CallAt(n)[2] \in Hart
  BY <1>1, CallTyped
<1>4. n \in 1..Len(program) => n \in 1..(Len(program) + 1) /\ n + 1 \in 1..(Len(program) + 1)
  BY <1>1
<1>5. /\ CallAt(n)[1] = Activate => IsCall(n, Activate) /\ CallAt(n)[2] = 1
      /\ CallAt(n)[1] = Stop => IsCall(n, Stop) /\ CallAt(n)[2] \in Hart
  BY <1>1, <1>3 DEF IsCall, Activate, Stop
<1>6. n \in 1..Len(program) => CallAt(n) = program[n]
  BY DEF CallAt
<1>7. /\ IsCall(n, Stop) => Leads(n, 0)
      /\ IsCall(n, Activate) /\ ModeAt(n) = 0 => Leads(n, 1)
      /\ IsCall(n, Activate) /\ ModeAt(n) = 1 => Leads(n, 1)
  BY <1>1, <1>2 DEF IsCall, Leads, ModeAfter, Activate, Stop
<1>8. ASSUME NEW md \in {0, 1}, ModeAt(n) = md,
             CallAt(n)[1] \in {Work, Checkpoint, Critical, SetMask}
      PROVE  Leads(n, md)
  <2>1. CallAt(n)[1] \notin {"return", Activate, Stop}
    BY <1>8 DEF Activate, Stop, Work, Checkpoint, Critical, SetMask
  <2>2. n \in 1..Len(program) /\ program[n][1] \notin {Activate, Stop}
    BY <1>3, <2>1
  <2>3. ModeAfter(program[n], md) = md
    BY <2>2 DEF ModeAfter
  <2> QED BY <1>2, <1>8, <2>2, <2>3 DEF Leads
<1>9. \A md \in {0, 1} : Leads(n, md) => /\ Within1("main", n + 1, md)
                                         /\ Within1("ckpt_regs", n, md)
                                         /\ Within1("ckpt_pc", n, md)
                                         /\ Within1("call_end", n, md)
  BY <1>1, <1>4 DEF Leads, Within1
<1>10. /\ IsCall(n, Stop) => CallAt(n)[1] = Stop /\ CallAt(n)[2] \in Hart
       /\ IsCall(n, Activate) => CallAt(n)[2] = 1
  BY <1>1, <1>5, <1>6 DEF IsCall
<1>11. 1 \in 1..(Len(program) + 1)
  BY <1>1
<1> QED BY <1>2, <1>3, <1>4, <1>5, <1>7, <1>8, <1>9, <1>10, <1>11

\* Where the master alone is after an instruction.
AloneAfter(d, wr) ==
  \/ /\ Going /\ wr.reg = "NONE" /\ job.conf = 0
     /\ Halting(d, {"single_boot"}) \/ (Doing(d, "crt0") /\ d.op = 1)
  \/ /\ Going /\ wr.reg \in {"NONE", "CRITICAL_SECTION", "DMR_MASK"}
     /\ Doing(d, d.loc) /\ Within1(d.loc, d.op, 0)
  \/ /\ Going /\ wr.reg = "NONE"
     /\ Doing(d, "act_conf") /\ IsCall(d.op, Activate) /\ ModeAt(d.op) = 0
  \/ /\ Going /\ wr.reg = "SAFE_CONFIGURATION" /\ wr.val = 1
     /\ Doing(d, "act_context") /\ Leads(d.op, 1)
  \/ /\ Going /\ wr.reg = "NONE"
     /\ Handling(d, {"sync_unack", "mret"}) /\ d.ret = "call_end" /\ Leads(d.op, 0)
  \/ Going /\ wr.reg = "END_SW_ROUTINE" /\ Doing(d, "exit_wfi")
  \/ Over /\ wr.reg = "NONE" /\ Dozing(d, "exit_wfi")

LEMMA HandlingIs ==
  ASSUME NEW c \in CoreState
  PROVE  \A H : Handling(c, H) <=> /\ c.mode = "run" /\ c.loc \in H
                                   /\ c.ack <=> c.loc \in {"sync_unack", "resync_unack"}
BY CoreTyped DEF Handling

LEMMA AloneMain ==
  ASSUME NEW m, Base(m), NEW c \in CoreState, NEW d, NEW wr, safe_configuration = 0,
         Does(c, d, wr, safe_copy'), Doing(c, "main"), Within1("main", c.op, 0), Going
  PROVE  AloneAfter(d, wr)
<1>1. /\ MainDoes(c, d, wr, safe_copy') /\ c.op \in Nat /\ ModeAt(c.op) = 0 /\ ~c.ack
      /\ c.mode = "run"
  BY MainAt, CoreTyped DEF Doing, Within1
<1>2. /\ Goes(c, "act_conf").mode = "run" /\ Goes(c, "act_conf").loc = "act_conf"
      /\ Goes(c, "act_conf").op = c.op /\ ~Goes(c, "act_conf").ack
      /\ Goes(c, "ckpt_regs").mode = "run" /\ Goes(c, "ckpt_regs").loc = "ckpt_regs"
      /\ Goes(c, "ckpt_regs").op = c.op /\ ~Goes(c, "ckpt_regs").ack
      /\ Goes(c, "exit_wfi").mode = "run" /\ Goes(c, "exit_wfi").loc = "exit_wfi"
      /\ ~Goes(c, "exit_wfi").ack
      /\ Returns(c).mode = "run" /\ Returns(c).loc = "main" /\ Returns(c).op = c.op + 1
      /\ ~Returns(c).ack
  <2>1. {"act_conf", "ckpt_regs", "exit_wfi"} \subseteq Loc
    BY DEF Loc, ProgramLoc
  <2>2. \A l \in Loc : /\ Goes(c, l).mode = "run" /\ Goes(c, l).loc = l
                       /\ Goes(c, l).op = c.op /\ ~Goes(c, l).ack
    BY <1>1, GoesTyped
  <2> QED BY <1>1, <2>1, <2>2, ReturnsTyped
<1>3. CASE d = Returns(c) /\ Leads(c.op, 0) /\ wr.reg \in {"NONE", "CRITICAL_SECTION", "DMR_MASK"}
  <2>1. Within1("main", c.op + 1, 0)
    BY <1>1, <1>3, CallsLead
  <2> QED BY <1>2, <1>3, <2>1 DEF AloneAfter, Doing
<1>4. CASE CallAt(c.op)[1] = Activate
  <2>1. d = Goes(c, "act_conf") /\ wr.reg = "NONE"
    BY <1>1, <1>4, WritesRegister DEF MainDoes, Activate, Stop, Checkpoint, Work, Critical, SetMask
  <2>2. IsCall(c.op, Activate)
    BY <1>1, <1>4, CallsLead
  <2> QED BY <1>1, <1>2, <2>1, <2>2 DEF AloneAfter, Doing
<1>5. CASE CallAt(c.op)[1] = Stop
  <2>1. d = Returns(c) /\ wr.reg = "NONE"
    BY <1>1, <1>5, WritesRegister DEF MainDoes, Activate, Stop, Checkpoint, Work, Critical, SetMask
  <2>2. Leads(c.op, 0)
    BY <1>1, <1>5, CallsLead
  <2> QED BY <1>3, <2>1, <2>2
<1>6. CASE CallAt(c.op)[1] \in {Work, Critical, SetMask}
  <2>1. d = Returns(c) /\ wr.reg \in {"NONE", "CRITICAL_SECTION", "DMR_MASK"}
    BY <1>1, <1>6, WritesRegister DEF MainDoes, Activate, Stop, Checkpoint, Work, Critical, SetMask
  <2>2. Leads(c.op, 0)
    BY <1>1, <1>6, CallsLead
  <2> QED BY <1>3, <2>1, <2>2
<1>7. CASE CallAt(c.op)[1] = Checkpoint
  <2>1. d = Goes(c, "ckpt_regs") /\ wr.reg = "NONE"
    BY <1>1, <1>7, WritesRegister DEF MainDoes, Activate, Stop, Checkpoint, Work, Critical, SetMask
  <2>2. Within1("ckpt_regs", c.op, 0)
    BY <1>1, <1>7, CallsLead
  <2> QED BY <1>2, <2>1, <2>2 DEF AloneAfter, Doing
<1>8. CASE CallAt(c.op)[1] = "return"
  <2>1. d = Goes(c, "exit_wfi") /\ wr.reg = "END_SW_ROUTINE"
    BY <1>1, <1>8, WritesRegister DEF MainDoes, Activate, Stop, Checkpoint, Work, Critical, SetMask
  <2> QED BY <1>2, <2>1 DEF AloneAfter, Doing
<1> QED BY <1>1, <1>4, <1>5, <1>6, <1>7, <1>8 DEF MainDoes

LEMMA AloneDoes ==
  ASSUME NEW m, Base(m), NEW c \in CoreState, NEW d, NEW wr, safe_configuration = 0,
         Does(c, d, wr, safe_copy'), Alone(c)
  PROVE  AloneAfter(d, wr)
<1>1. c.mode # "sleep" /\ c.op \in Nat
  BY RomAt, CoreTyped
<1>2. CASE Halting(c, {"debug_entry", "single_boot"}) /\ external_debug_req = 2 /\ Going /\ job.conf = 0
  <2>1. CASE c.loc = "debug_entry"
    <3>1. d = Goes(c, "single_boot") /\ wr.reg = "NONE"
      BY <1>2, <2>1, RomAt, WritesRegister DEF Entry
    <3>2. Halting(d, {"single_boot"})
      BY <1>2, <3>1, GoesTyped DEF Halting, Loc, RomLoc
    <3> QED BY <1>2, <3>1, <3>2 DEF AloneAfter
  <2>2. CASE c.loc = "single_boot"
    <3>1. d = Rec("run", "crt0", 1, c.ret, c.ack) /\ wr.reg = "NONE"
      BY <1>2, <2>2, RomAt, WritesRegister
    <3>2. Doing(d, "crt0") /\ d.op = 1
      BY <1>2, <3>1 DEF Halting, Doing, Rec
    <3> QED BY <1>2, <3>1, <3>2 DEF AloneAfter
  <2> QED BY <1>2, <2>1, <2>2 DEF Halting
<1>3. CASE Doing(c, "crt0") /\ c.op = 1 /\ Going /\ job.conf = 0
  <2>1. d = Goes(c, "main") /\ wr.reg = "NONE"
    BY <1>3, RomAt, WritesRegister DEF Doing
  <2>2. Doing(d, "main") /\ d.op = 1 /\ d.loc = "main"
    BY <1>3, <2>1, GoesTyped DEF Doing, Loc, ProgramLoc
  <2>3. Within1("main", 1, 0)
    BY <1>1, <1>3, CallsLead DEF Within1
  <2> QED BY <1>3, <2>1, <2>2, <2>3 DEF AloneAfter
<1>4. CASE Doing(c, c.loc) /\ Within1(c.loc, c.op, 0) /\ Going
  <2>1. CASE c.loc = "main"
    BY <1>4, <2>1, AloneMain
  <2>2. CASE c.loc = "ckpt_regs"
    <3>1. d = Goes(c, "ckpt_pc") /\ wr.reg = "NONE"
      BY <1>4, <2>2, CheckpointAt, WritesRegister
    <3>2. Within1("ckpt_pc", c.op, 0)
      BY <1>4, <2>2 DEF Within1
    <3>3. Doing(d, d.loc) /\ d.loc = "ckpt_pc" /\ d.op = c.op
      BY <1>4, <3>1, GoesTyped DEF Doing, Loc, ProgramLoc
    <3> QED BY <1>4, <3>1, <3>2, <3>3 DEF AloneAfter
  <2>3. CASE c.loc = "ckpt_pc"
    <3>1. d = Goes(c, "call_end") /\ wr.reg = "NONE"
      BY <1>4, <2>3, CheckpointAt, WritesRegister
    <3>2. Within1("call_end", c.op, 0)
      BY <1>4, <2>3 DEF Within1
    <3>3. Doing(d, d.loc) /\ d.loc = "call_end" /\ d.op = c.op
      BY <1>4, <3>1, GoesTyped DEF Doing, Loc, ProgramLoc
    <3> QED BY <1>4, <3>1, <3>2, <3>3 DEF AloneAfter
  <2>4. CASE c.loc = "call_end"
    <3>1. d = Returns(c) /\ wr.reg = "NONE"
      BY <1>4, <2>4, CheckpointAt, WritesRegister
    <3>2. Leads(c.op, 0)
      BY <1>4, <2>4 DEF Within1
    <3>3. Within1("main", c.op + 1, 0)
      BY <1>1, <3>2, CallsLead
    <3>4. Doing(d, d.loc) /\ d.loc = "main" /\ d.op = c.op + 1
      BY <1>4, <3>1, ReturnsTyped DEF Doing
    <3> QED BY <1>4, <3>1, <3>3, <3>4 DEF AloneAfter
  <2> QED BY <1>4, <2>1, <2>2, <2>3, <2>4 DEF Within1
<1>5. CASE Doing(c, "act_conf") /\ IsCall(c.op, Activate) /\ ModeAt(c.op) = 0 /\ Going
  <2>1. d = Goes(c, "act_context") /\ Storing(wr, safe_copy', "SAFE_CONFIGURATION", CallAt(c.op)[2])
    BY <1>5, ActivateAt DEF Doing
  <2>2. CallAt(c.op)[2] = 1 /\ Leads(c.op, 1)
    BY <1>1, <1>5, CallsLead
  <2>3. wr.reg = "SAFE_CONFIGURATION" /\ wr.val = 1
    BY <2>1, <2>2, Writes
  <2>4. Doing(d, "act_context") /\ d.op = c.op
    BY <1>5, <2>1, GoesTyped DEF Doing, Loc, ProgramLoc
  <2> QED BY <1>5, <2>2, <2>3, <2>4 DEF AloneAfter
<1>6. CASE /\ Handling(c, {"sync_unack", "mret"}) /\ c.ret = "call_end" /\ Leads(c.op, 0) /\ Going
  <2>1. CASE c.loc = "sync_unack"
    <3>1. d = Clears(c, "mret") /\ wr.reg = "NONE"
      BY <2>1, HandlerAt, WritesRegister DEF HandlerLoc
    <3>2. Handling(d, {"sync_unack", "mret"}) /\ d.ret = "call_end" /\ d.op = c.op
      <4>1. "mret" \in Loc
        BY DEF Loc, HandlerLoc
      <4>2. /\ d \in CoreState /\ d.mode = c.mode /\ d.loc = "mret" /\ d.op = c.op
            /\ d.ret = c.ret /\ ~d.ack
        BY <3>1, <4>1, ClearsTyped
      <4> QED BY <1>6, <4>2, HandlingIs
    <3> QED BY <1>6, <3>1, <3>2 DEF AloneAfter
  <2>2. CASE c.loc = "mret"
    <3>1. d = Rec(c.mode, c.ret, c.op, "none", c.ack) /\ wr.reg = "NONE"
      BY <2>2, HandlerAt, WritesRegister DEF HandlerLoc
    <3>2. ~c.ack /\ c.mode = "run"
      BY <1>6, <2>2 DEF Handling
    <3>3. Doing(d, d.loc) /\ d.loc = "call_end" /\ d.op = c.op
      BY <1>6, <3>1, <3>2 DEF Doing, Rec
    <3>4. Within1("call_end", c.op, 0)
      BY <1>6 DEF Within1
    <3> QED BY <1>6, <3>1, <3>3, <3>4 DEF AloneAfter
  <2> QED BY <1>6, <2>1, <2>2 DEF Handling
<1>7. CASE Doing(c, "exit_wfi") /\ Over
  <2>1. d = Dozes(c) /\ wr.reg = "NONE"
    BY <1>7, StopAt, WritesRegister DEF Doing
  <2>2. Dozing(d, "exit_wfi")
    BY <1>7, <2>1, DozesTyped DEF Doing, Dozing
  <2> QED BY <1>7, <2>1, <2>2 DEF AloneAfter
<1> QED BY <1>1, <1>2, <1>3, <1>4, <1>5, <1>6, <1>7 DEF Alone, Dozing

LEMMA AloneNext ==
  ASSUME NEW m, Base(m), NEW wr, AloneStep(m, wr), safe_configuration = 0, safe = "SINGLE_MODE",
         FSM!Start_Boot, Alone(core[m]), core[m].mode # "sleep", NoHalt, NoInterrupt,
         Going \/ Over
  PROVE  Alone(core[m])' /\ wr.reg \notin {"MASTER_CORE", "INITIAL_SYNC_MASTER"}
<1> DEFINE c == core[m]
           d == core'[m]
<1>1. /\ c \in CoreState /\ m \in Hart /\ TypeOK /\ Clock(wr) /\ ProgramStays /\ ~FSM!AllAsleep
      /\ d \in CoreState
  BY HartIs, HartSignals DEF Base, TypeOK, CoreState, AloneStep, ProgramStays
<1>2. Ordinary(wr) => /\ Going => Going'
                      /\ Over => Protocol!Ended'
  <2>1. ASSUME Ordinary(wr) PROVE Ticks(wr)
    BY <2>1 DEF AloneStep
  <2> QED BY <1>1, <2>1, TicksPulse
<1>3. /\ wr.reg \notin {"SAFE_CONFIGURATION"} => safe_configuration' = 0
      /\ wr.reg = "SAFE_CONFIGURATION" => safe_configuration' = wr.val
      /\ external_debug_req' = 2
  BY <1>1, ClockConfig DEF Loaded
<1>4. job' = job
  BY DEF AloneStep
<1>8. /\ \A n, md : Leads(n, md)' <=> Leads(n, md)
      /\ \A n, f : IsCall(n, f)' <=> IsCall(n, f)
      /\ \A p, n, md : Within1(p, n, md)' <=> Within1(p, n, md)
      /\ \A n : ModeAt(n)' = ModeAt(n)
  BY <1>1, PlacesStay
<1>5. CASE d = c /\ Silently(wr, safe_copy')
  <2>1. wr.reg = "NONE"
    BY <1>5, WritesRegister
  <2>2. /\ Going => Going'
        /\ Over => Over'
        /\ safe_configuration' = 0
    BY <1>2, <1>3, <2>1 DEF Ordinary, Over
  <2>3. /\ Leads(c.op, 1)' <=> Leads(c.op, 1)
        /\ Leads(c.op, 0)' <=> Leads(c.op, 0)
        /\ IsCall(c.op, Activate)' <=> IsCall(c.op, Activate)
        /\ Within1(c.loc, c.op, 0)' <=> Within1(c.loc, c.op, 0)
        /\ ModeAt(c.op)' = ModeAt(c.op)
    BY <1>1, <1>5, PlacesStay
  <2>4. Alone(core[m])'
    BY <1>1, <1>3, <1>4, <1>5, <2>2, <2>3 DEF Alone, Halting, Doing, Dozing, Handling
  <2> QED BY <2>1, <2>4
<1>6. CASE Does(c, d, wr, safe_copy')
  <2>1. AloneAfter(d, wr)
    BY <1>1, <1>6, AloneDoes
  <2>2. wr.reg \in {"NONE", "SAFE_CONFIGURATION", "CRITICAL_SECTION", "DMR_MASK", "END_SW_ROUTINE"}
    BY <2>1 DEF AloneAfter
  <2>3. wr.reg # "END_SW_ROUTINE" => Ordinary(wr)
    BY <2>2 DEF Ordinary
  <2>4. CASE Going /\ wr.reg = "END_SW_ROUTINE" /\ Doing(d, "exit_wfi")
    <3>2. Over'
      BY <2>4 DEF AloneStep, Over
    <3>3. safe_configuration' = 0
      BY <1>3, <2>4
    <3>4. Alone(core[m])'
      BY <2>4, <3>2, <3>3 DEF Alone, Doing
    <3> QED BY <2>2, <3>4
  <2>5. CASE wr.reg = "NONE" /\ Over /\ Dozing(d, "exit_wfi")
    <3>1. Protocol!Ended' /\ safe_configuration' = 0
      BY <1>2, <1>3, <2>3, <2>5
    <3>2. Alone(core[m])'
      BY <2>5, <3>1 DEF Alone, Dozing
    <3> QED BY <2>2, <3>2
  <2>6. CASE Going /\ wr.reg # "END_SW_ROUTINE"
    <3>1. Going'
      BY <1>2, <2>3, <2>6
    <3>2. CASE /\ wr.reg = "NONE" /\ job.conf = 0
               /\ Halting(d, {"single_boot"}) \/ (Doing(d, "crt0") /\ d.op = 1)
      <4>1. Alone(core[m])'
        BY <1>3, <1>4, <3>1, <3>2 DEF Alone, Halting, Doing
      <4> QED BY <2>2, <3>2, <4>1
    <3>3. CASE /\ wr.reg \in {"NONE", "CRITICAL_SECTION", "DMR_MASK"}
               /\ Doing(d, d.loc) /\ Within1(d.loc, d.op, 0)
      <4>1. Alone(core[m])'
        BY <1>3, <1>8, <3>1, <3>3 DEF Alone, Doing
      <4> QED BY <2>2, <3>3, <4>1
    <3>4. CASE wr.reg = "NONE" /\ Doing(d, "act_conf") /\ IsCall(d.op, Activate) /\ ModeAt(d.op) = 0
      <4>1. Alone(core[m])'
        BY <1>3, <1>8, <3>1, <3>4 DEF Alone, Doing
      <4> QED BY <2>2, <3>4, <4>1
    <3>5. CASE /\ wr.reg = "SAFE_CONFIGURATION" /\ wr.val = 1
               /\ Doing(d, "act_context") /\ Leads(d.op, 1)
      <4>1. Alone(core[m])'
        BY <1>3, <1>8, <3>1, <3>5 DEF Alone, Doing
      <4> QED BY <2>2, <3>5, <4>1
    <3>6. CASE /\ wr.reg = "NONE"
               /\ Handling(d, {"sync_unack", "mret"}) /\ d.ret = "call_end" /\ Leads(d.op, 0)
      <4>1. Alone(core[m])'
        BY <1>3, <1>8, <3>1, <3>6 DEF Alone, Handling
      <4> QED BY <2>2, <3>6, <4>1
    <3> QED BY <2>1, <2>6, <3>2, <3>3, <3>4, <3>5, <3>6, RegisterFacts DEF AloneAfter, Going
  <2> QED BY <2>1, <2>4, <2>5, <2>6, RegisterFacts DEF AloneAfter, Going
<1>7. (d = c /\ Silently(wr, safe_copy')) \/ Does(c, d, wr, safe_copy')
  BY MovesDoes DEF AloneStep
<1> QED BY <1>5, <1>6, <1>7

LEMMA AloneIs ==
  ASSUME NEW c, Alone(c)
  PROVE  \/ Dozing(c, "exit_wfi") /\ Protocol!Ended /\ safe_configuration = 0
         \/ Doing(c, "act_context") /\ Leads(c.op, 1) /\ Going /\ safe_configuration = 1
         \/ c.mode # "sleep" /\ (Going \/ Over) /\ safe_configuration = 0
BY DEF Alone, Halting, Doing, Dozing, Handling, Over

LEMMA FromSingleRun ==
  ASSUME NEW m, Base(m), Common0, SingleRun(m), Next, VotedUse
  PROVE  \E n \in Hart : Base(n)' /\ Phase(n)'
<1>1. /\ safe = "SINGLE_MODE" /\ single = "SINGLE_RUN" /\ AllIn("TMR_IDLE") /\ master_core = {m} /\ m \in Hart
      /\ DualOff /\ OthersRest(m) /\ Alone(core[m]) /\ TypeOK
      /\ master_core_ff = {m} /\ ~initial_sync_master
      /\ core \in [Hart -> CoreState]
  BY HartIs DEF Base, TypeOK, CoreState, Common0, SingleRun, General, Unsynced
<1>2. /\ NoHalt /\ NoInterrupt /\ \A h \in Hart : tmr[h] = "TMR_IDLE"
      /\ FSM!Interrupt_Halt = {} /\ FSM!Interrupt_Sync = {} /\ FSM!Interrupt_swResync = {}
      /\ FSM!Start_Boot /\ ~Voting
  BY <1>1, AllInSignals DEF NoHalt, NoInterrupt, FSM!TmrVoting
<1>3. host = "wait" /\ ~irq /\ (Going \/ Over)
  BY <1>1, AloneIs, Waits DEF Over
<1>4. PICK wr : AloneStep(m, wr)
  BY <1>1, <1>2, <1>3, AloneTurns
<1>5. /\ core'[m] \in CoreState /\ core[m] \in CoreState /\ Clock(wr) /\ OthersRest(m)' /\ ProgramStays
      /\ wr.reg # "MASTER_CORE" => Base(m)'
  BY <1>1, <1>4 DEF AloneStep, ProgramStays
<1>6. AllIn("TMR_IDLE")'
  <2>1. \A h \in Hart : FSM!TmrNext(h) = "TMR_IDLE"
    BY <1>1, <1>2 DEF FSM!TmrNext
  <2> QED BY <1>5, <2>1, ClockMachines DEF AllIn
<1>7. /\ master_core_ff' = {m}
      /\ wr.reg # "INITIAL_SYNC_MASTER" => ~initial_sync_master'
      /\ wr.reg = "NONE" => safe_configuration' = safe_configuration
  BY <1>1, <1>5, ClockConfig DEF Loaded
<1>8. CASE Dozing(core[m], "exit_wfi") /\ Protocol!Ended /\ safe_configuration = 0
  <2>1. Asleep3 /\ AllRest /\ FSM!AllAsleep /\ end_sw_routine /\ interrupt_controler.enable
    <3>1. Asleep3 /\ AllRest
      BY <1>1, <1>8 DEF OthersRest, Resting, Dozing, Asleep3, AllRest
    <3> QED BY <1>3, <1>8, <3>1, HartSignals, Waits DEF Asleep3, Over, Base
  <2>2. PICK w : Clock(w) /\ Ticks(w) /\ w.reg = "NONE"
    BY <1>2, <1>3, <2>1, RestTurn
  <2>3. Base(m)' /\ AllRest' /\ FSM!AllAsleep' /\ \A h \in Hart : core'[h] = core[h]
    BY <1>2, <1>3, <2>1, RestTurn
  <2>4. Pulse'
    BY <1>1, <1>8, <2>1, <2>2, <2>3, TicksPulse
  <2>5. General("SINGLE_MODE", "SINGLE_IDLE")'
    BY <1>1, <1>8, <2>1, <2>2, ClockMachines
       DEF General, FSM!SafeNext, FSM!SingleNext, FSM!Ends, FSM!Dual, FSM!TCLS, FSM!DCLS, FSM!LOCKSTEP
  <2>6. ~initial_sync_master' /\ master_core_ff' = {m}
    BY <1>1, <2>2, ClockConfig DEF Loaded
  <2>7. SingleEnd(m)'
    BY <1>1, <1>6, <1>8, <2>3, <2>4, <2>5, <2>6 DEF SingleEnd, Unsynced, Dozing
  <2> QED BY <1>1, <2>3, <2>7 DEF Phase
<1>9. CASE core[m].mode # "sleep" /\ (Going \/ Over) /\ safe_configuration = 0
  <2>1. Alone(core[m])' /\ wr.reg \notin {"MASTER_CORE", "INITIAL_SYNC_MASTER"}
    BY <1>1, <1>2, <1>4, <1>9, AloneNext
  <2>2. ~FSM!AllAsleep /\ (start \/ end_sw_routine)
    BY <1>1, <1>9, HartSignals, Waits
  <2>3. General("SINGLE_MODE", "SINGLE_RUN")'
    BY <1>1, <1>5, <1>9, <2>2, ClockMachines
       DEF General, FSM!SafeNext, FSM!SingleNext, FSM!Ends, FSM!RunStopped, FSM!RunToTmr,
           FSM!RunToDmr, FSM!Dual, FSM!TCLS, FSM!DCLS, FSM!LOCKSTEP
  <2>4. SingleRun(m)'
    BY <1>5, <1>6, <1>7, <2>1, <2>3 DEF SingleRun, Unsynced
  <2> QED BY <1>1, <1>5, <2>1, <2>4 DEF Phase
<1>10. CASE Doing(core[m], "act_context") /\ Leads(core[m].op, 1) /\ Going /\ safe_configuration = 1
  <2>1. start /\ ~end_sw_routine /\ Halted = {}
    BY <1>1, <1>10, HartSignals, Waits DEF Doing, OthersRest, Resting
  <2>2. General("TMR_MODE", "SINGLE_TO_TMR")'
    BY <1>1, <1>5, <1>10, <2>1, ClockMachines
       DEF General, FSM!SafeNext, FSM!SingleNext, FSM!Ends, FSM!RunStopped, FSM!RunToTmr,
           FSM!Dual, FSM!TCLS, FSM!DCLS, FSM!LOCKSTEP
  <2>3. /\ wr.reg = "NONE" /\ core'[m].op = core[m].op
        /\ \/ Doing(core'[m], "act_context")
           \/ Doing(core'[m], "act_sync") /\ safe_copy'.context = core[m].op
    <3>1. CASE core'[m] = core[m] /\ Silently(wr, safe_copy')
      BY <1>10, <3>1, WritesRegister
    <3>2. CASE Does(core[m], core'[m], wr, safe_copy')
      <4>1. /\ core'[m] = Goes(core[m], "act_sync")
            /\ Keeping(wr, safe_copy', [safe_copy EXCEPT !.context = core[m].op])
        BY <1>10, <3>2, ActivateAt DEF Doing
      <4>2. wr.reg = "NONE" /\ safe_copy' = [safe_copy EXCEPT !.context = core[m].op]
        BY <4>1, Writes
      <4>3. Doing(core'[m], "act_sync") /\ core'[m].op = core[m].op
        BY <1>5, <1>10, <4>1, GoesTyped DEF Doing, Loc, ProgramLoc
      <4>4. safe_copy'.context = core[m].op
        BY <4>2 DEF Base
      <4> QED BY <4>2, <4>3, <4>4
    <3> QED BY <1>2, <1>4, <3>1, <3>2, MovesDoes DEF AloneStep
  <2>4. Going'
    <3>1. Ticks(wr)
      BY <1>4, <2>3 DEF AloneStep, Ordinary
    <3> QED BY <1>1, <1>10, <2>1, <3>1, TicksPulse
  <2>5. safe_configuration' = 1 /\ ~initial_sync_master' /\ Base(m)'
    BY <1>5, <1>7, <1>10, <2>3
  <2>6. Leads(core[m].op, 1)'
    BY <1>5, <1>10, <2>3, PlacesStay
  <2>7. Saving(core[m])'
    <3>1. initial_sync_master' \in BOOLEAN /\ initial_sync_master' = FALSE
      BY <2>5 DEF Base, TypeOK
    <3> QED BY <2>3, <2>6, <3>1 DEF Saving, Doing
  <2>8. Leaving(m)'
    BY <1>5, <1>6, <1>7, <2>2, <2>4, <2>5, <2>7 DEF Leaving
  <2> QED BY <1>1, <2>5, <2>8 DEF Phase
<1> QED BY <1>1, <1>8, <1>9, <1>10, AloneIs

(***************************************************************************)
(* From one phase to the next: the master leaves the single mode.          *)
(***************************************************************************)
LEMMA SavingNext ==
  ASSUME NEW m, Base(m), NEW wr, AloneStep(m, wr), Saving(core[m]), NoHalt, NoInterrupt,
         Going, safe_configuration = 1
  PROVE  /\ Saving(core[m])' /\ wr.reg \in {"NONE", "INITIAL_SYNC_MASTER"}
         /\ core[m].mode = "sleep" => core'[m].mode = "sleep"
<1> DEFINE c == core[m]
           d == core'[m]
<1>1. /\ c \in CoreState /\ m \in Hart /\ TypeOK /\ Clock(wr) /\ ProgramStays /\ c.op \in Nat
      /\ d \in CoreState
      /\ safe_copy \in CopyType /\ initial_sync_master \in BOOLEAN
      /\ (initial_sync_master <=> c.loc \in {"act_pc", "act_wfi"})
  <2>1. initial_sync_master \in BOOLEAN
    BY DEF Base, TypeOK
  <2> QED BY <2>1, HartIs DEF Base, TypeOK, CoreState, AloneStep, ProgramStays, Saving
<1>2. initial_sync_master' = Loaded(wr, "INITIAL_SYNC_MASTER", initial_sync_master)
  BY <1>1, ClockConfig
<1>3. \A n, md : Leads(n, md)' <=> Leads(n, md)
  BY <1>1, PlacesStay
<1>4. wr.reg # "MASTER_CORE" => initial_sync_master' \in BOOLEAN
  BY DEF AloneStep, Base, TypeOK
<1> SUFFICES /\ wr.reg \in {"NONE", "INITIAL_SYNC_MASTER"}
             /\ d.op = c.op /\ ~d.ack
             /\ d.loc \in {"act_context", "act_sync", "act_pc", "act_wfi"}
             /\ d.mode = "run" \/ (d.mode = "sleep" /\ d.loc = "act_wfi")
             /\ initial_sync_master' <=> d.loc \in {"act_pc", "act_wfi"}
             /\ d.loc # "act_context" => safe_copy'.context = c.op
             /\ d.loc = "act_wfi" => safe_copy'.pc = c.op /\ safe_copy'.loc = "act_pc"
             /\ c.mode = "sleep" => d.mode = "sleep"
  BY <1>3, <1>4 DEF Saving
<1>5. CASE d = c /\ Silently(wr, safe_copy')
  <2>1. wr.reg = "NONE" /\ safe_copy' = safe_copy
    BY <1>5, Writes
  <2>2. initial_sync_master' = initial_sync_master
    BY <1>2, <2>1 DEF Loaded
  <2> QED BY <1>1, <1>5, <2>1, <2>2 DEF Saving
<1>6. CASE Does(c, d, wr, safe_copy')
  <2>1. CASE c.loc = "act_context"
    <3>1. d = Goes(c, "act_sync") /\ Keeping(wr, safe_copy', [safe_copy EXCEPT !.context = c.op])
          /\ c.mode = "run"
      BY <1>6, <2>1, ActivateAt
    <3>2. wr.reg = "NONE" /\ safe_copy' = [safe_copy EXCEPT !.context = c.op]
      BY <3>1, Writes
    <3>3. safe_copy'.context = c.op
      BY <1>1, <3>2 DEF CopyType
    <3>4. d.mode = "run" /\ d.loc = "act_sync" /\ d.op = c.op /\ d.ack = c.ack
      BY <1>1, <3>1, GoesTyped DEF Loc, ProgramLoc
    <3> QED BY <1>1, <1>2, <2>1, <3>2, <3>3, <3>4 DEF Saving, Loaded
  <2>2. CASE c.loc = "act_sync"
    <3>1. d = Goes(c, "act_pc") /\ Raising(wr, safe_copy', "INITIAL_SYNC_MASTER") /\ c.mode = "run"
      BY <1>6, <2>2, ActivateAt
    <3>2. wr.reg = "INITIAL_SYNC_MASTER" /\ wr.val = TRUE /\ safe_copy' = safe_copy
      BY <3>1, Writes
    <3>3. initial_sync_master'
      BY <1>2, <3>2 DEF Loaded
    <3>4. d.mode = "run" /\ d.loc = "act_pc" /\ d.op = c.op /\ d.ack = c.ack
      BY <1>1, <3>1, GoesTyped DEF Loc, ProgramLoc
    <3>5. safe_copy.context = c.op /\ ~c.ack
      BY <2>2 DEF Saving
    <3>6. wr.reg \in {"NONE", "INITIAL_SYNC_MASTER"} /\ safe_copy'.context = c.op /\ c.mode # "sleep"
      BY <3>1, <3>2, <3>5
    <3> QED BY <3>3, <3>4, <3>5, <3>6
  <2>3. CASE c.loc = "act_pc"
    <3>1. d = Goes(c, "act_wfi") /\ c.mode = "run"
          /\ Keeping(wr, safe_copy', [safe_copy EXCEPT !.pc = c.op, !.loc = "act_pc"])
      BY <1>6, <2>3, ActivateAt
    <3>2. wr.reg = "NONE" /\ safe_copy' = [safe_copy EXCEPT !.pc = c.op, !.loc = "act_pc"]
      BY <3>1, Writes
    <3>3. safe_copy'.context = safe_copy.context /\ safe_copy'.pc = c.op /\ safe_copy'.loc = "act_pc"
      BY <1>1, <3>2 DEF CopyType
    <3>4. d.mode = "run" /\ d.loc = "act_wfi" /\ d.op = c.op /\ d.ack = c.ack
      BY <1>1, <3>1, GoesTyped DEF Loc, ProgramLoc
    <3> QED BY <1>1, <1>2, <2>3, <3>2, <3>3, <3>4 DEF Saving, Loaded
  <2>4. CASE c.loc = "act_wfi"
    <3>1. d = Dozes(c) /\ Silently(wr, safe_copy')
      BY <1>6, <2>4, ActivateAt
    <3>2. wr.reg = "NONE" /\ safe_copy' = safe_copy
      BY <3>1, Writes
    <3>3. d.mode = "sleep" /\ d.loc = "act_wfi" /\ d.op = c.op /\ d.ack = c.ack
      BY <1>1, <2>4, <3>1, DozesTyped
    <3> QED BY <1>1, <1>2, <2>4, <3>2, <3>3 DEF Saving, Loaded
  <2> QED BY <2>1, <2>2, <2>3, <2>4 DEF Saving
<1>7. (d = c /\ Silently(wr, safe_copy')) \/ Does(c, d, wr, safe_copy')
  BY MovesDoes DEF AloneStep
<1> QED BY <1>5, <1>6, <1>7

LEMMA FromLeaving ==
  ASSUME NEW m, Base(m), Common0, Leaving(m), Next, VotedUse
  PROVE  \E n \in Hart : Base(n)' /\ Phase(n)'
<1>1. /\ safe = "TMR_MODE" /\ single = "SINGLE_TO_TMR" /\ AllIn("TMR_IDLE") /\ master_core = {m} /\ m \in Hart
      /\ DualOff /\ OthersRest(m) /\ Saving(core[m]) /\ TypeOK /\ Going /\ safe_configuration = 1
      /\ master_core_ff = {m}
      /\ core \in [Hart -> CoreState]
  BY HartIs DEF Base, TypeOK, CoreState, Common0, Leaving, General
<1>2. /\ NoHalt /\ NoInterrupt /\ \A h \in Hart : tmr[h] = "TMR_IDLE"
      /\ FSM!Interrupt_Halt = {} /\ FSM!Interrupt_Sync = {} /\ FSM!Interrupt_swResync = {}
      /\ ~FSM!Start_Boot /\ ~Voting /\ ~FSM!halt_req
      /\ FSM!Switch_TMRtoSingle = {} /\ FSM!Switch_SingletoTMR = {}
  BY <1>1, AllInSignals DEF NoHalt, NoInterrupt, FSM!TmrVoting
<1>3. host = "wait" /\ ~irq /\ start /\ ~end_sw_routine
  BY <1>1, Waits
<1>4. PICK wr : AloneStep(m, wr)
  BY <1>1, <1>2, <1>3, AloneTurns
<1>5. /\ Saving(core[m])' /\ wr.reg \in {"NONE", "INITIAL_SYNC_MASTER"}
      /\ core[m].mode = "sleep" => core'[m].mode = "sleep"
  BY <1>1, <1>2, <1>4, SavingNext
<1>6. Clock(wr) /\ OthersRest(m)' /\ Base(m)' /\ Ticks(wr)
  BY <1>4, <1>5 DEF AloneStep, Ordinary
<1>7. Going'
  BY <1>1, <1>3, <1>6, TicksPulse
<1>8. safe_configuration' = 1 /\ master_core_ff' = {m} /\ external_debug_req' = 0
  BY <1>1, <1>2, <1>5, <1>6, ClockConfig DEF Loaded
<1>9. General("TMR_MODE", "SINGLE_TO_TMR")'
  <2>1. FSM!SafeNext = "TMR_MODE"
    BY <1>1, <1>2, <1>3 DEF FSM!SafeNext
  <2>2. FSM!SingleNext = "SINGLE_TO_TMR"
    BY <1>1, <1>2 DEF FSM!SingleNext, FSM!Hart
  <2> QED BY <1>6, <2>1, <2>2, ClockMachines DEF General
<1>10. CASE core[m].mode # "sleep"
  <2>1. \A h \in Hart : ~FSM!MayShare(h)
    BY <1>1, <1>2, <1>10, HartSignals DEF FSM!MayShare
  <2>2. \A h \in Hart : FSM!TmrNext(h) = "TMR_IDLE"
    BY <1>1, <1>2, <2>1 DEF FSM!TmrNext, FSM!Enable_Switch
  <2>3. AllIn("TMR_IDLE")'
    BY <1>6, <2>2, ClockMachines DEF AllIn
  <2>4. Leaving(m)'
    BY <1>5, <1>6, <1>7, <1>8, <1>9, <2>3 DEF Leaving
  <2> QED BY <1>1, <1>6, <2>4 DEF Phase
<1>11. CASE core[m].mode = "sleep"
  <2>1. initial_sync_master
    BY <1>1, <1>11 DEF Saving
  <2>2. \A h \in Hart : FSM!MayShare(h) <=> h = m
    BY <1>1, <1>2, <1>11, <2>1, HartSignals DEF FSM!MayShare
  <2>3. \A h \in Hart : FSM!TmrNext(h) = IF h = m THEN "TMR_SH_HALT" ELSE "TMR_IDLE"
    BY <1>1, <1>2, <1>3, <2>2 DEF FSM!TmrNext, FSM!Enable_Switch
  <2>4. OnlyIn(m, "TMR_SH_HALT")'
    BY <1>6, <2>3, ClockMachines DEF OnlyIn
  <2>5. MasterWaits(m)'
    BY <1>5, <1>6, <1>7, <1>8, <1>9, <1>11, <2>4 DEF MasterWaits, Saved
  <2> QED BY <1>1, <1>6, <2>5 DEF Phase
<1> QED BY <1>10, <1>11

\* Nobody wakes a sleeping hart.
Still(m, wr) ==
  /\ Clock(wr) /\ Ticks(wr) /\ wr.reg = "NONE"
  /\ Base(m)' /\ safe_copy' = safe_copy /\ ~mismatch' /\ ProgramStays
  /\ \A h \in Hart : core'[h] = core[h]

LEMMA SleepTurn ==
  ASSUME NEW m, Base(m), Common0, VotedUse, Next, host = "wait", ~irq,
         Asleep3, NoHalt, NoInterrupt
  PROVE  \E wr : Still(m, wr)
<1>1. PICK G, d, wr : Turn(G, d, wr)
  BY HostWaits, NextTurns
<1>3. /\ \A h \in Hart : core'[h] = core[h]
      /\ wr.reg = "NONE" /\ ~mismatch' /\ safe_copy' = safe_copy
  BY <1>1, AsleepTurn
<1>4. Clock(wr) /\ Ticks(wr) /\ ProgramStays
  BY <1>1, <1>3, TurnTicks DEF Ordinary, ProgramStays
<1>5. Base(m)'
  BY <1>1, <1>3, TurnStays
<1>6. Still(m, wr)
  BY <1>3, <1>4, <1>5 DEF Still
<1> QED BY <1>6

\* Whether the harts other than the master are halted.
LEMMA SlavesHalted ==
  ASSUME NEW m \in Hart
  PROVE  /\ Halted = {} => ~FSM!TmrSlavesHalted
         /\ Halted = Hart \ {m} => FSM!TmrSlavesHalted
<1>1. Cardinality({}) = 0
  BY FS_EmptySet
<1>2. Cardinality(Hart \ {m}) = 2
  <2>1. PICK g, h : g # h /\ Hart \ {m} = {g, h}
    <3>1. CASE m = 0
      <4>1. Hart \ {m} = {1, 2} /\ 1 # 2
        BY <3>1, HartIs
      <4> QED BY <4>1
    <3>2. CASE m = 1
      <4>1. Hart \ {m} = {0, 2} /\ 0 # 2
        BY <3>2, HartIs
      <4> QED BY <4>1
    <3>3. CASE m = 2
      <4>1. Hart \ {m} = {0, 1} /\ 0 # 1
        BY <3>3, HartIs
      <4> QED BY <4>1
    <3> QED BY <3>1, <3>2, <3>3, HartIs
  <2>2. IsFiniteSet({}) /\ IsFiniteSet({g}) /\ Cardinality({g}) = 1
    BY FS_EmptySet, FS_Singleton
  <2>3. Cardinality({g} \cup {h}) = 2
    BY <2>1, <2>2, FS_AddElement
  <2>4. {g, h} = {g} \cup {h}
    OBVIOUS
  <2> QED BY <2>1, <2>3, <2>4
<1>3. \A S : FSM!Cardinality(S) = Cardinality(S)
  BY DEF FSM!Cardinality, Cardinality
<1> QED BY <1>1, <1>2, <1>3 DEF FSM!TmrSlavesHalted

LEMMA FromMasterWaits ==
  ASSUME NEW m, Base(m), Common0, MasterWaits(m), Next, VotedUse
  PROVE  \E n \in Hart : Base(n)' /\ Phase(n)'
<1>1. /\ safe = "TMR_MODE" /\ single = "SINGLE_TO_TMR" /\ OnlyIn(m, "TMR_SH_HALT") /\ master_core = {m}
      /\ m \in Hart /\ DualOff /\ OthersRest(m) /\ Saved(core[m]) /\ TypeOK /\ Going /\ safe_configuration = 1
      /\ master_core_ff = {m}
  BY DEF Base, Common0, MasterWaits, General
<1>2. /\ NoHalt /\ NoInterrupt /\ \A h \in Hart : tmr[h] = IF h = m THEN "TMR_SH_HALT" ELSE "TMR_IDLE"
      /\ ~FSM!Start_Boot /\ FSM!halt_req
      /\ FSM!Switch_TMRtoSingle = {} /\ FSM!Switch_SingletoTMR = {m} /\ FSM!TmrIn({"TMR_IDLE"}) # Hart
  BY <1>1, OnlyInSignals DEF NoHalt, NoInterrupt
<1>3. host = "wait" /\ ~irq /\ start /\ ~end_sw_routine
  BY <1>1, Waits
<1>4. Asleep3
  BY <1>1 DEF Asleep3, OthersRest, Resting, Saved
<1>5. PICK wr : Still(m, wr)
  BY <1>2, <1>3, <1>4, SleepTurn
<1>6. Clock(wr) /\ Ticks(wr) /\ wr.reg = "NONE" /\ Base(m)' /\ core'[m] = core[m] /\ ProgramStays
      /\ safe_copy' = safe_copy /\ OthersRest(m)'
  BY <1>1, <1>5 DEF Still, OthersRest, Resting
<1>7. Going'
  BY <1>1, <1>3, <1>6, TicksPulse
<1>8. /\ safe_configuration' = 1 /\ master_core_ff' = {m} /\ external_debug_req' = 0
      /\ initial_sync_master' = initial_sync_master
  BY <1>1, <1>2, <1>6, ClockConfig DEF Loaded
<1>9. Saved(core[m])'
  BY <1>1, <1>6, <1>8, PlacesStay DEF Saved, Saving
<1>10. General("TMR_MODE", "SINGLE_TO_TMR")'
  <2>1. FSM!SafeNext = "TMR_MODE"
    BY <1>1, <1>2, <1>3 DEF FSM!SafeNext
  <2>2. {m} # FSM!Hart
    BY <1>1, HartIs
  <2>3. FSM!SingleNext = "SINGLE_TO_TMR"
    BY <1>1, <1>2, <2>2 DEF FSM!SingleNext
  <2> QED BY <1>6, <2>1, <2>3, ClockMachines DEF General
<1>11. AllIn("TMR_SH_HALT")'
  <2>1. Halted = {}
    BY <1>4, HartSignals DEF Asleep3
  <2>2. ~FSM!TmrSlavesHalted
    BY <1>1, <2>1, SlavesHalted
  <2>3. \A h \in Hart : h # m => FSM!MayShare(h)
    BY <1>1, <1>2 DEF FSM!MayShare
  <2>4. \A h \in Hart : FSM!TmrNext(h) = "TMR_SH_HALT"
    BY <1>1, <1>2, <1>3, <2>1, <2>2, <2>3 DEF FSM!TmrNext, FSM!Enable_Switch
  <2> QED BY <1>6, <2>4, ClockMachines DEF AllIn
<1>12. Calling(m)'
  BY <1>6, <1>7, <1>8, <1>9, <1>10, <1>11 DEF Calling
<1> QED BY <1>1, <1>6, <1>12 DEF Phase

\* While the master sleeps: the others move together, or nobody does.
Alike(m) == \A g, h \in Hart \ {m} : core[g].mode = core[h].mode

OthersStep(m, wr) ==
  /\ Clock(wr) /\ ProgramStays
  /\ Ordinary(wr) => Ticks(wr)
  /\ core'[m] = core[m] /\ core' \in [Hart -> CoreState]
  /\ wr.reg # "MASTER_CORE" => Base(m)'
  /\ \/ Silently(wr, safe_copy') /\ \A h \in Hart \ {m} : core'[h] = core[h]
     \/ \E d : \A h \in Hart \ {m} : core'[h] = d /\ Moves(h, core[h], d, wr)

LEMMA OthersTurn ==
  ASSUME NEW m, Base(m), Common0, VotedUse, Next, host = "wait", ~irq, Voting,
         Alike(m), core[m].mode = "sleep", NoInterrupt,
         FSM!Interrupt_Halt = {} \/ FSM!Interrupt_Halt = Hart \ {m}
  PROVE  \E wr : OthersStep(m, wr)
<1>1. PICK G, d, wr : Turn(G, d, wr)
  BY HostWaits, NextTurns
<1>2. m \in Hart
  BY DEF Base
<1>3. m \notin G
  <2>1. m \in G => Does(core[m], d, wr, safe_copy')
    BY <1>1, <1>2 DEF Turn, Moves, NoInterrupt
  <2> QED BY <2>1, RomAt
<1>4. G = {} \/ G = Hart \ {m}
  <2> SUFFICES ASSUME G # {} PROVE G = Hart \ {m}
    OBVIOUS
  <2>1. PICK S \in Movable : G = Hart \cap S
    BY <1>1 DEF Turn
  <2>2. S = Awake \/ S = FSM!Interrupt_Halt \ Halted
    BY <2>1 DEF Movable, NoInterrupt
  <2>3. \A h \in Hart : h \in S <=> h # m
    <3>1. PICK g \in Hart : g \in S /\ g # m
      BY <1>3, <2>1
    <3>2. CASE S = Awake
      <4>1. \A h \in Hart : h \in S <=> core[h].mode # "sleep"
        BY <3>2, HartIs DEF Awake
      <4> QED BY <3>1, <4>1 DEF Alike
    <3>3. CASE S = FSM!Interrupt_Halt \ Halted
      <4>1. \A h \in Hart : h \in S <=> h # m /\ core[h].mode # "debug"
        BY <3>1, <3>3, HartSignals
      <4> QED BY <3>1, <4>1 DEF Alike
    <3> QED BY <2>2, <3>2, <3>3
  <2> QED BY <2>1, <2>3
<1>5. /\ Clock(wr) /\ ProgramStays /\ (Ordinary(wr) => Ticks(wr))
      /\ core' \in [Hart -> CoreState] /\ (wr.reg # "MASTER_CORE" => Base(m)')
  BY <1>1, TurnTicks, TurnStays DEF ProgramStays
<1>6. core'[m] = core[m]
  BY <1>1, <1>2, <1>3, TurnEach
<1>7. \/ Silently(wr, safe_copy') /\ \A h \in Hart \ {m} : core'[h] = core[h]
      \/ \E e : \A h \in Hart \ {m} : core'[h] = e /\ Moves(h, core[h], e, wr)
  <2>1. CASE G = {}
    BY <1>1, <2>1, TurnEach DEF Turn
  <2>2. CASE G = Hart \ {m}
    <3>1. \A h \in Hart \ {m} : core'[h] = d /\ Moves(h, core[h], d, wr)
      BY <1>1, <2>2, TurnEach
    <3> QED BY <3>1
  <2> QED BY <1>4, <2>1, <2>2
<1>8. OthersStep(m, wr)
  BY <1>5, <1>6, <1>7 DEF OthersStep
<1> QED BY <1>8

LEMMA Another == ASSUME NEW m \in Hart PROVE \E h \in Hart : h # m
BY HartIs

\* The sleeping others are called.
LEMMA OthersHalt ==
  ASSUME NEW m \in Hart, NEW wr, OthersStep(m, wr), OthersRest(m), NoInterrupt
  PROVE  /\ wr.reg = "NONE" /\ safe_copy' = safe_copy
         /\ \/ OthersRest(m)'
            \/ OthersAgree(m)' /\ \A h \in Hart \ {m} : Halting(core'[h], {"debug_entry"})
<1>1. CASE Silently(wr, safe_copy') /\ \A h \in Hart \ {m} : core'[h] = core[h]
  <2>1. wr.reg = "NONE" /\ safe_copy' = safe_copy
    BY <1>1, Writes
  <2> QED BY <1>1, <2>1 DEF OthersRest, Resting
<1>2. ASSUME NEW d, \A h \in Hart \ {m} : core'[h] = d /\ Moves(h, core[h], d, wr)
      PROVE  /\ wr.reg = "NONE" /\ safe_copy' = safe_copy
             /\ OthersAgree(m)' /\ \A h \in Hart \ {m} : Halting(core'[h], {"debug_entry"})
  <2>1. \A h \in Hart \ {m} : d = HaltedAs /\ Silently(wr, safe_copy')
    BY <1>2, RomAt DEF OthersRest, Resting, Moves, NoInterrupt
  <2>2. wr.reg = "NONE" /\ safe_copy' = safe_copy /\ d = HaltedAs
    BY <2>1, Another, Writes
  <2>3. Halting(d, {"debug_entry"})
    BY <2>2 DEF Halting, HaltedAs, Rec
  <2> QED BY <1>2, <2>2, <2>3 DEF OthersAgree
<1> QED BY <1>1, <1>2 DEF OthersStep

\* What the master has saved stays while it sleeps.
LEMMA SavedStays ==
  ASSUME NEW m, Saved(core[m]), core'[m] = core[m], ProgramStays,
         initial_sync_master' = initial_sync_master,
         safe_copy'.context = safe_copy.context, safe_copy'.pc = safe_copy.pc,
         safe_copy'.loc = safe_copy.loc
  PROVE  Saved(core[m])'
BY PlacesStay DEF Saved, Saving

LEMMA FromCalling ==
  ASSUME NEW m, Base(m), Common0, Calling(m), Next, VotedUse
  PROVE  \E n \in Hart : Base(n)' /\ Phase(n)'
<1>1. /\ safe = "TMR_MODE" /\ single = "SINGLE_TO_TMR" /\ AllIn("TMR_SH_HALT") /\ master_core = {m}
      /\ m \in Hart /\ DualOff /\ OthersRest(m) /\ Saved(core[m]) /\ TypeOK /\ Going /\ safe_configuration = 1
      /\ master_core_ff = {m}
  BY DEF Base, Common0, Calling, General
<1>2. /\ NoInterrupt /\ FSM!Interrupt_Halt = Hart \ {m} /\ \A h \in Hart : tmr[h] = "TMR_SH_HALT"
      /\ Voting /\ ~FSM!Start_Boot
      /\ FSM!Switch_TMRtoSingle = {} /\ FSM!Switch_SingletoTMR = Hart
  BY <1>1, AllInSignals DEF NoInterrupt, FSM!TmrVoting
<1>3. host = "wait" /\ ~irq /\ start /\ ~end_sw_routine
  BY <1>1, Waits
<1>4. core[m].mode = "sleep" /\ Alike(m)
  BY <1>1 DEF Saved, OthersRest, Resting, Alike
<1>5. PICK wr : OthersStep(m, wr)
  BY <1>2, <1>3, <1>4, OthersTurn
<1>6. /\ wr.reg = "NONE" /\ safe_copy' = safe_copy
      /\ \/ OthersRest(m)'
         \/ OthersAgree(m)' /\ \A h \in Hart \ {m} : Halting(core[h], {"debug_entry"})'
  <2>1. /\ wr.reg = "NONE" /\ safe_copy' = safe_copy
        /\ \/ OthersRest(m)'
           \/ OthersAgree(m)' /\ \A h \in Hart \ {m} : Halting(core'[h], {"debug_entry"})
    BY <1>1, <1>2, <1>5, OthersHalt
  <2> QED BY <2>1 DEF Halting
<1>7. Clock(wr) /\ Ticks(wr) /\ Base(m)' /\ core'[m] = core[m] /\ ProgramStays
  BY <1>5, <1>6 DEF OthersStep, Ordinary
<1>8. Going'
  BY <1>1, <1>3, <1>7, TicksPulse
<1>9. /\ safe_configuration' = 1 /\ master_core_ff' = {m} /\ external_debug_req' = 0
      /\ initial_sync_master' = initial_sync_master
  BY <1>1, <1>2, <1>6, <1>7, ClockConfig DEF Loaded
<1>10. Saved(core[m])'
  BY <1>1, <1>6, <1>7, <1>9, SavedStays
<1>11. General("TMR_MODE", "SINGLE_IDLE")'
  <2>1. FSM!SafeNext = "TMR_MODE"
    BY <1>1, <1>2, <1>3 DEF FSM!SafeNext
  <2>2. FSM!SingleNext = "SINGLE_IDLE"
    BY <1>1, <1>2, HartIs DEF FSM!SingleNext
  <2> QED BY <1>7, <2>1, <2>2, ClockMachines DEF General
<1>12. AllIn("TMR_SH_HALT")'
  <2>1. Halted = {}
    BY <1>1, <1>4, HartSignals DEF OthersRest, Resting
  <2>2. \A h \in Hart : FSM!TmrNext(h) = "TMR_SH_HALT"
    BY <1>1, <1>2, <2>1, SlavesHalted DEF FSM!TmrNext
  <2> QED BY <1>7, <2>2, ClockMachines DEF AllIn
<1>13. HaltOthers(m)'
  BY <1>6, <1>8, <1>9, <1>10, <1>11, <1>12 DEF HaltOthers
<1> QED BY <1>1, <1>7, <1>13 DEF Phase

LEMMA FromHaltOthers ==
  ASSUME NEW m, Base(m), Common0, HaltOthers(m), Next, VotedUse
  PROVE  \E n \in Hart : Base(n)' /\ Phase(n)'
<1>1. /\ safe = "TMR_MODE" /\ single = "SINGLE_IDLE" /\ AllIn("TMR_SH_HALT") /\ master_core = {m}
      /\ m \in Hart /\ DualOff /\ Saved(core[m]) /\ TypeOK /\ Going /\ safe_configuration = 1
      /\ master_core_ff = {m} /\ external_debug_req = 0
      /\ core \in [Hart -> CoreState]
  BY HartIs DEF Base, TypeOK, CoreState, Common0, HaltOthers, General
<1>2. /\ NoInterrupt /\ FSM!Interrupt_Halt = Hart \ {m} /\ \A h \in Hart : tmr[h] = "TMR_SH_HALT"
      /\ Voting /\ ~FSM!Start_Boot /\ FSM!Switch_TMRtoSingle = {}
  BY <1>1, AllInSignals DEF NoInterrupt, FSM!TmrVoting
<1>3. host = "wait" /\ ~irq /\ start /\ ~end_sw_routine
  BY <1>1, Waits
<1>4. core[m].mode = "sleep" /\ Alike(m)
  BY <1>1 DEF Saved, OthersRest, Resting, Alike, HaltOthers, Halting
<1>5. PICK wr : OthersStep(m, wr)
  BY <1>2, <1>3, <1>4, OthersTurn
<1>6. General("TMR_MODE", "SINGLE_IDLE")'
  <2>1. FSM!SafeNext = "TMR_MODE"
    BY <1>1, <1>2, <1>3 DEF FSM!SafeNext
  <2>2. FSM!SingleNext = "SINGLE_IDLE"
    BY <1>1 DEF FSM!SingleNext, FSM!SingleMayStart
  <2> QED BY <1>5, <2>1, <2>2, ClockMachines DEF General, OthersStep
<1>7. ASSUME wr.reg = "NONE", safe_copy' = safe_copy
      PROVE  /\ Clock(wr) /\ Base(m)' /\ Going' /\ Saved(core[m])' /\ core'[m] = core[m]
             /\ safe_configuration' = 1 /\ master_core_ff' = {m} /\ external_debug_req' = 0
  <2>1. Clock(wr) /\ Ticks(wr) /\ Base(m)' /\ core'[m] = core[m] /\ ProgramStays
    BY <1>5, <1>7 DEF OthersStep, Ordinary
  <2>2. Going'
    BY <1>1, <1>3, <2>1, TicksPulse
  <2>3. /\ safe_configuration' = 1 /\ master_core_ff' = {m} /\ external_debug_req' = 0
        /\ initial_sync_master' = initial_sync_master
    BY <1>1, <1>2, <1>7, <2>1, ClockConfig DEF Loaded
  <2>4. Saved(core[m])'
    BY <1>1, <1>7, <2>1, <2>3, SavedStays
  <2> QED BY <2>1, <2>2, <2>3, <2>4
<1>8. CASE OthersRest(m)
  <2>1. /\ wr.reg = "NONE" /\ safe_copy' = safe_copy
        /\ \/ OthersRest(m)'
           \/ OthersAgree(m)' /\ \A h \in Hart \ {m} : Halting(core[h], {"debug_entry"})'
    <3>1. /\ wr.reg = "NONE" /\ safe_copy' = safe_copy
          /\ \/ OthersRest(m)'
             \/ OthersAgree(m)' /\ \A h \in Hart \ {m} : Halting(core'[h], {"debug_entry"})
      BY <1>1, <1>2, <1>5, <1>8, OthersHalt
    <3> QED BY <3>1 DEF Halting
  <2>2. AllIn("TMR_SH_HALT")'
    <3>1. Halted = {}
      BY <1>4, <1>8, HartSignals DEF OthersRest, Resting
    <3>2. \A h \in Hart : FSM!TmrNext(h) = "TMR_SH_HALT"
      BY <1>1, <1>2, <3>1, SlavesHalted DEF FSM!TmrNext
    <3> QED BY <1>7, <2>1, <3>2, ClockMachines DEF AllIn
  <2>3. HaltOthers(m)'
    BY <1>6, <1>7, <2>1, <2>2 DEF HaltOthers
  <2> QED BY <1>1, <1>7, <2>1, <2>3 DEF Phase
<1>9. CASE OthersAgree(m) /\ \A h \in Hart \ {m} : Halting(core[h], {"debug_entry"})
  <2>1. Halted = Hart \ {m}
    <3>1. \A h \in Hart : h \in Halted <=> h # m
      BY <1>4, <1>9, HartSignals DEF Halting
    <3> QED BY <1>1, <3>1, HartIs DEF Halted
  <2>2. /\ wr.reg = "NONE" /\ safe_copy' = safe_copy /\ OthersAgree(m)'
        /\ \A h \in Hart \ {m} : Halting(core'[h], {"debug_entry", "halt_boot"})
    <3>1. CASE Silently(wr, safe_copy') /\ \A h \in Hart \ {m} : core'[h] = core[h]
      <4>1. wr.reg = "NONE" /\ safe_copy' = safe_copy
        BY <3>1, Writes
      <4> QED BY <1>9, <3>1, <4>1 DEF OthersAgree, Halting
    <3>2. ASSUME NEW d, \A h \in Hart \ {m} : core'[h] = d /\ Moves(h, core[h], d, wr)
          PROVE  /\ wr.reg = "NONE" /\ safe_copy' = safe_copy /\ OthersAgree(m)'
                 /\ \A h \in Hart \ {m} : Halting(core'[h], {"debug_entry", "halt_boot"})
      <4>1. \A h \in Hart \ {m} : Does(core[h], d, wr, safe_copy')
        BY <1>2, <2>1, <3>2 DEF Moves, NoInterrupt
      <4>2. \A h \in Hart \ {m} : d = Goes(core[h], "halt_boot") /\ Silently(wr, safe_copy')
        BY <1>1, <1>9, <4>1, RomAt DEF Halting, Entry
      <4>3. wr.reg = "NONE" /\ safe_copy' = safe_copy
        BY <1>1, <4>2, Another, Writes
      <4>4. \A h \in Hart \ {m} : Halting(Goes(core[h], "halt_boot"), {"halt_boot"})
        BY <1>1, <1>9, GoesTyped DEF Halting, Loc, RomLoc
      <4> QED BY <3>2, <4>2, <4>3, <4>4 DEF OthersAgree, Halting
    <3> QED BY <1>5, <3>1, <3>2 DEF OthersStep
  <2>3. AllIn("TMR_WAIT_SH")'
    <3>1. \A h \in Hart : FSM!TmrNext(h) = "TMR_WAIT_SH"
      BY <1>1, <1>2, <2>1, SlavesHalted DEF FSM!TmrNext
    <3> QED BY <1>7, <2>2, <3>1, ClockMachines DEF AllIn
  <2>4. \A h \in Hart \ {m} : Joining(core[h], core[m].op)'
    BY <1>7, <2>2 DEF Joining, Halting
  <2>5. Join(m)'
    BY <1>6, <1>7, <2>2, <2>3, <2>4 DEF Join
  <2> QED BY <1>1, <1>7, <2>2, <2>5 DEF Phase
<1> QED BY <1>8, <1>9 DEF HaltOthers

\* The harts that join restore the state, and do what is left of Safe_Activate.
LEMMA JoiningDoes ==
  ASSUME NEW c \in CoreState, NEW d, NEW wr, NEW n \in Nat, Joining(c, n),
         Does(c, d, wr, safe_copy'), safe_copy \in CopyType,
         safe_copy.pc = n, safe_copy.loc = "act_pc", external_debug_req' = 0
  PROVE  /\ wr.reg = "NONE" /\ d \in CoreState
         /\ safe_copy'.context = safe_copy.context /\ safe_copy'.pc = n /\ safe_copy'.loc = "act_pc"
         /\ \/ Halting(d, {"halt_boot"})
            \/ Doing(d, "act_pc") /\ d.op = n
            \/ Doing(d, "act_wfi") /\ d.op = n
            \/ Dozing(d, "act_wfi") /\ d.op = n
<1>1. c.mode # "sleep"
  BY RomAt
<1>2. CASE Halting(c, {"debug_entry"}) /\ external_debug_req = 0
  <2>1. d = Goes(c, "halt_boot") /\ Silently(wr, safe_copy')
    BY <1>2, RomAt DEF Halting, Entry
  <2>2. Halting(d, {"halt_boot"}) /\ d \in CoreState
    BY <1>2, <2>1, GoesTyped DEF Halting, Loc, RomLoc
  <2> QED BY <2>1, <2>2, Writes
<1>3. CASE Halting(c, {"halt_boot"})
  <2>1. d = Rec("run", safe_copy.loc, safe_copy.pc, c.ret, c.ack) /\ Silently(wr, safe_copy')
    BY <1>3, RomAt DEF Halting
  <2>2. Doing(d, "act_pc") /\ d.op = n /\ d \in CoreState
    <3>1. "act_pc" \in Loc
      BY DEF Loc, ProgramLoc
    <3> QED BY <1>3, <2>1, <3>1, RecTyped, CoreTyped DEF Halting, Doing
  <2> QED BY <2>1, <2>2, Writes
<1>4. CASE Doing(c, "act_pc") /\ c.op = n
  <2>1. d = Goes(c, "act_wfi") /\ Keeping(wr, safe_copy', [safe_copy EXCEPT !.pc = c.op, !.loc = "act_pc"])
    BY <1>4, ActivateAt DEF Doing
  <2>2. wr.reg = "NONE" /\ safe_copy' = [safe_copy EXCEPT !.pc = c.op, !.loc = "act_pc"]
    BY <2>1, Writes
  <2>3. safe_copy'.context = safe_copy.context /\ safe_copy'.pc = n /\ safe_copy'.loc = "act_pc"
    BY <1>4, <2>2 DEF CopyType
  <2>4. Doing(d, "act_wfi") /\ d.op = n /\ d \in CoreState
    BY <1>4, <2>1, GoesTyped DEF Doing, Loc, ProgramLoc
  <2> QED BY <2>2, <2>3, <2>4
<1>5. CASE Doing(c, "act_wfi") /\ c.op = n
  <2>1. d = Dozes(c) /\ Silently(wr, safe_copy')
    BY <1>5, ActivateAt DEF Doing
  <2>2. Dozing(d, "act_wfi") /\ d.op = n /\ d \in CoreState
    BY <1>5, <2>1, DozesTyped DEF Doing, Dozing
  <2> QED BY <2>1, <2>2, Writes
<1> QED BY <1>1, <1>2, <1>3, <1>4, <1>5 DEF Joining, Dozing

LEMMA FromJoin ==
  ASSUME NEW m, Base(m), Common0, Join(m), Next, VotedUse
  PROVE  \E n \in Hart : Base(n)' /\ Phase(n)'
<1>1. /\ safe = "TMR_MODE" /\ single = "SINGLE_IDLE" /\ AllIn("TMR_WAIT_SH") /\ master_core = {m}
      /\ m \in Hart /\ DualOff /\ Saved(core[m]) /\ TypeOK /\ Going /\ safe_configuration = 1
      /\ master_core_ff = {m} /\ OthersAgree(m)
      /\ \A h \in Hart \ {m} : Joining(core[h], core[m].op)
      /\ core \in [Hart -> CoreState] /\ safe_copy \in CopyType
      /\ \A h \in Hart : Returnable(core[h])
  BY HartIs DEF Base, TypeOK, CoreState, Common0, Join, General
<1>2. /\ NoInterrupt /\ NoHalt /\ FSM!Interrupt_Halt = {} /\ \A h \in Hart : tmr[h] = "TMR_WAIT_SH"
      /\ Voting /\ ~FSM!Start_Boot /\ FSM!Switch_TMRtoSingle = {}
  BY <1>1, AllInSignals DEF NoInterrupt, NoHalt, FSM!TmrVoting
<1>3. host = "wait" /\ ~irq /\ start /\ ~end_sw_routine
  BY <1>1, Waits
<1>4. core[m].mode = "sleep" /\ core[m].loc = "act_wfi" /\ core[m].op \in Nat /\ Alike(m)
      /\ safe_copy.pc = core[m].op /\ safe_copy.loc = "act_pc" /\ initial_sync_master
  <2>1. core[m].mode = "sleep" /\ core[m].loc = "act_wfi"
    BY <1>1 DEF Saved, Saving
  <2> QED BY <1>1, <2>1, CoreTyped DEF Saved, Saving, OthersAgree, Alike
<1>5. PICK wr : OthersStep(m, wr)
  BY <1>2, <1>3, <1>4, OthersTurn
<1>6. Clock(wr) /\ ProgramStays /\ core'[m] = core[m] /\ external_debug_req' = 0
  BY <1>1, <1>2, <1>5, ClockConfig DEF OthersStep
<1>7. General("TMR_MODE", "SINGLE_IDLE")'
  <2>1. FSM!SafeNext = "TMR_MODE"
    BY <1>1, <1>2, <1>3 DEF FSM!SafeNext
  <2>2. FSM!SingleNext = "SINGLE_IDLE"
    BY <1>1 DEF FSM!SingleNext, FSM!SingleMayStart
  <2> QED BY <1>6, <2>1, <2>2, ClockMachines DEF General
<1>8. /\ wr.reg = "NONE"
      /\ safe_copy'.context = safe_copy.context /\ safe_copy'.pc = safe_copy.pc
      /\ safe_copy'.loc = safe_copy.loc
      /\ OthersAgree(m)' /\ \A h \in Hart \ {m} : Joining(core[h], core[m].op)'
      /\ (\A h \in Hart \ {m} : core[h].mode = "sleep") => \A h \in Hart : core'[h] = core[h]
  <2>1. CASE Silently(wr, safe_copy') /\ \A h \in Hart \ {m} : core'[h] = core[h]
    <3>1. wr.reg = "NONE" /\ safe_copy' = safe_copy
      BY <2>1, Writes
    <3>2. \A h \in Hart \ {m} : Joining(core[h], core[m].op)'
      BY <1>1, <1>6, <2>1 DEF Joining, Halting, Doing, Dozing
    <3>3. OthersAgree(m)'
      BY <1>1, <2>1 DEF OthersAgree
    <3> QED BY <1>6, <2>1, <3>1, <3>2, <3>3
  <2>2. ASSUME NEW d, \A h \in Hart \ {m} : core'[h] = d /\ Moves(h, core[h], d, wr)
        PROVE  /\ wr.reg = "NONE"
               /\ safe_copy'.context = safe_copy.context /\ safe_copy'.pc = safe_copy.pc
               /\ safe_copy'.loc = safe_copy.loc
               /\ OthersAgree(m)' /\ \A h \in Hart \ {m} : Joining(core[h], core[m].op)'
               /\ ~ \A h \in Hart \ {m} : core[h].mode = "sleep"
    <3>1. \A h \in Hart \ {m} : Does(core[h], d, wr, safe_copy')
      BY <1>2, <2>2, MovesDoes
    <3>2. PICK g \in Hart : g # m
      BY <1>1, Another
    <3>3. Does(core[g], d, wr, safe_copy') /\ Joining(core[g], core[m].op) /\ core[g] \in CoreState
      BY <1>1, <3>1, <3>2
    <3>4. /\ wr.reg = "NONE" /\ d \in CoreState
          /\ safe_copy'.context = safe_copy.context /\ safe_copy'.pc = safe_copy.pc
          /\ safe_copy'.loc = safe_copy.loc
          /\ \/ Halting(d, {"halt_boot"})
             \/ Doing(d, "act_pc") /\ d.op = core[m].op
             \/ Doing(d, "act_wfi") /\ d.op = core[m].op
             \/ Dozing(d, "act_wfi") /\ d.op = core[m].op
      BY <1>1, <1>4, <1>6, <3>3, JoiningDoes
    <3>5. core[g].mode # "sleep"
      BY <3>3, RomAt
    <3>6. \A h \in Hart \ {m} : Joining(core[h], core[m].op)'
      BY <1>6, <2>2, <3>4 DEF Joining, Halting, Doing, Dozing
    <3> QED BY <2>2, <3>2, <3>4, <3>5, <3>6 DEF OthersAgree
  <2> QED BY <1>5, <2>1, <2>2 DEF OthersStep
<1>9. Ticks(wr) /\ Base(m)'
  BY <1>5, <1>8 DEF OthersStep, Ordinary
<1>10. Going'
  BY <1>1, <1>3, <1>9, TicksPulse
<1>11. /\ safe_configuration' = 1 /\ master_core_ff' = {m}
       /\ initial_sync_master' = initial_sync_master
  BY <1>1, <1>6, <1>8, ClockConfig DEF Loaded
<1>12. CASE ~FSM!AllAsleep
  <2>1. AllIn("TMR_WAIT_SH")'
    <3>1. \A h \in Hart : FSM!TmrNext(h) = "TMR_WAIT_SH"
      BY <1>1, <1>2, <1>12 DEF FSM!TmrNext, FSM!Joined
    <3> QED BY <1>6, <3>1, ClockMachines DEF AllIn
  <2>2. Saved(core[m])'
    BY <1>1, <1>6, <1>8, <1>11, SavedStays
  <2>3. Join(m)'
    BY <1>7, <1>8, <1>10, <1>11, <2>1, <2>2 DEF Join
  <2> QED BY <1>1, <1>9, <2>3 DEF Phase
<1>13. CASE FSM!AllAsleep
  <2>1. AllIn("TMR_MS_INTRSYNC")'
    <3>1. \A h \in Hart : FSM!TmrNext(h) = "TMR_MS_INTRSYNC"
      BY <1>1, <1>2, <1>13 DEF FSM!TmrNext, FSM!Joined
    <3> QED BY <1>6, <3>1, ClockMachines DEF AllIn
  <2>2. \A h \in Hart : core[h].mode = "sleep" /\ core'[h] = core[h]
    BY <1>8, <1>13, HartSignals
  <2>3. \A h \in Hart : /\ core[h].mode = "sleep" /\ core[h].loc = "act_wfi"
                        /\ core[h].op = core[m].op /\ ~core[h].ack
    BY <1>1, <1>4, <2>2 DEF Joining, Halting, Doing, Dozing, Saved, Saving
  <2>4. \A g, h \in Hart : core[g].ack = core[h].ack
    BY <1>1, <2>3, CoreTyped
  <2>5. \A h \in Hart : core[h] = Rec("sleep", "act_wfi", core[m].op, "none", core[h].ack)
    <3>1. "act_wfi" \notin HandlerLoc
      BY DEF HandlerLoc
    <3> QED BY <1>1, <2>3, <3>1 DEF Returnable, CoreState, Rec
  <2>6. Together'
    <3>1. \A g, h \in Hart : core[g] = core[h]
      BY <2>4, <2>5
    <3> QED BY <2>2, <3>1 DEF Together
  <2>7. 0 \in Hart /\ Dozing(core'[0], "act_wfi") /\ core'[0].op = core[m].op
    BY <2>2, <2>3, HartIs DEF Dozing
  <2>8. Leads(core[0].op, 1)'
    <3>1. Leads(core[m].op, 1)
      BY <1>1 DEF Saved, Saving
    <3>2. \A n : Leads(n, 1)' <=> Leads(n, 1)
      BY <1>6, PlacesStay
    <3> QED BY <2>7, <3>1, <3>2
  <2>9. Joined(m)'
    BY <1>4, <1>7, <1>10, <1>11, <2>1, <2>6, <2>7, <2>8 DEF Joined, Dozing
  <2> QED BY <1>1, <1>9, <2>9 DEF Phase
<1> QED BY <1>12, <1>13

(***************************************************************************)
(* From one phase to the next: all harts together.                         *)
(***************************************************************************)
AllStep(m, wr) ==
  /\ Clock(wr) /\ ProgramStays
  /\ Ordinary(wr) => Ticks(wr)
  /\ core' \in [Hart -> CoreState]
  /\ \E n \in Hart : Base(n)'
  /\ wr.reg # "MASTER_CORE" => Base(m)'
  /\ Going /\ wr.reg = "END_SW_ROUTINE" => Protocol!Ending'
  /\ mismatch' => \E h \in Hart : /\ core[h].mode # "sleep"
                                  /\ core[h].loc \notin {"stop_wfi", "exit_wfi"}
  /\ \/ Silently(wr, safe_copy') /\ \A h \in Hart : core'[h] = core[h]
     \/ ~mismatch' /\ \E d : \A h \in Hart : core'[h] = d /\ Moves(h, core[h], d, wr)

LEMMA AllTurns ==
  ASSUME NEW m, Base(m), Common0, VotedUse, Next, host = "wait", ~irq, Voting,
         \A g, h \in Hart : core[g].mode = core[h].mode,
         Together \/ NoInterrupt,
         FSM!Interrupt_Halt = {} \/ FSM!Interrupt_Halt = Hart,
         FSM!Interrupt_Sync = {} \/ FSM!Interrupt_Sync = Hart,
         FSM!Interrupt_swResync = {} \/ FSM!Interrupt_swResync = Hart
  PROVE  \E wr : AllStep(m, wr)
<1>1. PICK G, d, wr : Turn(G, d, wr)
  BY HostWaits, NextTurns
<1>2. G = {} \/ G = Hart
  <2> SUFFICES ASSUME G # {} PROVE G = Hart
    OBVIOUS
  <2>1. PICK S \in Movable : G = Hart \cap S
    BY <1>1 DEF Turn
  <2>2. \A g, h \in Hart : g \in S => h \in S
    <3>1. CASE S = Awake
      BY <3>1, HartIs DEF Awake
    <3>2. CASE S = FSM!Interrupt_Halt \ Halted
      BY <3>2, HartSignals
    <3>3. CASE S = FSM!Interrupt_Sync \cap Interruptible
      BY <3>3, HartIs DEF Together, NoInterrupt, Interruptible
    <3>4. CASE S = FSM!Interrupt_swResync \cap Interruptible
      BY <3>4, HartIs DEF Together, NoInterrupt, Interruptible
    <3> QED BY <2>1, <3>1, <3>2, <3>3, <3>4 DEF Movable
  <2>3. PICK g \in Hart : g \in S
    BY <2>1
  <2> QED BY <2>1, <2>2, <2>3
<1>3. /\ Clock(wr) /\ ProgramStays /\ (Ordinary(wr) => Ticks(wr))
      /\ core' \in [Hart -> CoreState] /\ (wr.reg # "MASTER_CORE" => Base(m)')
      /\ \E n \in Hart : Base(n)'
  BY <1>1, TurnTicks, TurnStays DEF ProgramStays
<1>4. Going /\ wr.reg = "END_SW_ROUTINE" => Protocol!Ending'
  <2> SUFFICES ASSUME Going, wr.reg = "END_SW_ROUTINE" PROVE Protocol!Ending'
    OBVIOUS
  <2>1. wr = EndWrite /\ G # {} /\ \A h \in G : core[h].mode = "run"
    BY <1>1, TurnEnding
  <2>2. ~FSM!AllAsleep
    BY <1>2, <2>1, HartSignals
  <2>3. TypeOK
    BY DEF Base
  <2> QED BY <1>1, <2>1, <2>2, <2>3, TurnEnds
<1>5. mismatch' => \E h \in Hart : /\ core[h].mode # "sleep"
                                   /\ core[h].loc \notin {"stop_wfi", "exit_wfi"}
  BY <1>1 DEF Turn, Disturbs
<1>6. \/ Silently(wr, safe_copy') /\ \A h \in Hart : core'[h] = core[h]
      \/ ~mismatch' /\ \E e : \A h \in Hart : core'[h] = e /\ Moves(h, core[h], e, wr)
  <2>1. CASE G = {}
    BY <1>1, <2>1, TurnEach DEF Turn
  <2>2. CASE G = Hart
    <3>1. \A h \in Hart : core'[h] = d /\ Moves(h, core[h], d, wr)
      BY <1>1, <2>2, TurnEach
    <3>2. ~mismatch'
      BY <1>1, <2>2, HartIs DEF Turn, Disturbs
    <3> QED BY <3>1, <3>2
  <2> QED BY <1>2, <2>1, <2>2
<1>7. AllStep(m, wr)
  BY <1>3, <1>4, <1>5, <1>6 DEF AllStep
<1> QED BY <1>7

\* One hart stands for all.
OneStep(wr) ==
  /\ Together' /\ core'[0] \in CoreState
  /\ \/ core'[0] = core[0] /\ Silently(wr, safe_copy')
     \/ ~mismatch' /\ Moves(0, core[0], core'[0], wr)
  /\ mismatch' => /\ core'[0] = core[0] /\ Silently(wr, safe_copy')
                  /\ core[0].mode # "sleep" /\ core[0].loc \notin {"stop_wfi", "exit_wfi"}

LEMMA AllAsOne ==
  ASSUME NEW m, NEW wr, AllStep(m, wr), Together
  PROVE  OneStep(wr)
<1>1. 0 \in Hart /\ core'[0] \in CoreState
  BY HartIs DEF AllStep
<1>2. Together'
  BY DEF AllStep, Together
<1>3. \/ core'[0] = core[0] /\ Silently(wr, safe_copy')
      \/ ~mismatch' /\ Moves(0, core[0], core'[0], wr)
  BY <1>1 DEF AllStep
<1>4. mismatch' => /\ core'[0] = core[0] /\ Silently(wr, safe_copy')
                   /\ core[0].mode # "sleep" /\ core[0].loc \notin {"stop_wfi", "exit_wfi"}
  BY <1>1 DEF AllStep, Together
<1> QED BY <1>1, <1>2, <1>3, <1>4 DEF OneStep

\* Where the harts are after an instruction that all execute.
VotedAfter(c, d, wr) ==
  \/ /\ Going /\ safe_configuration = 1 /\ ~initial_sync_master
     /\ Doing(d, d.loc) /\ Within1(d.loc, d.op, 1)
     /\ wr.reg = "NONE" \/ (wr.reg \in {"CRITICAL_SECTION", "DMR_MASK"} /\ d.loc = "main")
  \/ /\ Going /\ safe_configuration = 1 /\ wr.reg = "INITIAL_SYNC_MASTER" /\ wr.val = FALSE
     /\ Doing(d, "act_reset_ack") /\ Leads(d.op, 1)
  \/ /\ Going /\ safe_configuration = 1 /\ ~initial_sync_master /\ IsCall(d.op, Stop)
     /\ \/ wr.reg = "NONE" /\ Doing(d, "stop_critical")
        \/ wr.reg = "NONE" /\ ~critical_section /\ Doing(d, "stop_master")
        \/ wr.reg = "CRITICAL_SECTION" /\ wr.val = FALSE /\ Doing(d, "stop_master")
        \/ wr.reg = "MASTER_CORE" /\ ~critical_section /\ Doing(d, "stop_conf")
        \/ /\ wr.reg = "SAFE_CONFIGURATION" /\ wr.val = 0 /\ ~critical_section
           /\ Doing(d, "stop_wfi")
  \/ /\ Going /\ safe_configuration = 0 /\ ~initial_sync_master /\ ~critical_section
     /\ IsCall(d.op, Stop)
     /\ wr.reg = "NONE" /\ c.loc = "stop_wfi" /\ Dozing(d, "stop_wfi")
  \/ /\ Going /\ safe_configuration = 1 /\ ~initial_sync_master
     /\ wr.reg = "END_SW_ROUTINE" /\ Doing(d, "exit_wfi")
  \/ /\ Over /\ safe_configuration = 1 /\ ~initial_sync_master
     /\ wr.reg = "NONE" /\ c.loc = "exit_wfi" /\ Dozing(d, "exit_wfi")
  \/ /\ wr.reg = "NONE" /\ Handling(d, HandlerLoc) /\ d.ret # "crt0" /\ Voted(d.ret, d.op)
  \/ wr.reg = "NONE" /\ Doing(d, d.loc) /\ Voted(d.loc, d.op)

LEMMA VotedMain ==
  ASSUME NEW m, Base(m), NEW c \in CoreState, NEW d, NEW wr, safe_configuration = 1,
         ~initial_sync_master,
         Does(c, d, wr, safe_copy'), Doing(c, "main"), Within1("main", c.op, 1), Going
  PROVE  VotedAfter(c, d, wr)
<1>1. /\ MainDoes(c, d, wr, safe_copy') /\ c.op \in Nat /\ ModeAt(c.op) = 1 /\ ~c.ack
      /\ c.mode = "run"
  BY MainAt, CoreTyped DEF Doing, Within1
<1>2. \A l \in {"stop_critical", "stop_master", "ckpt_regs", "exit_wfi"} :
        Doing(Goes(c, l), l) /\ Goes(c, l).op = c.op /\ Goes(c, l).loc = l
  <2>1. {"stop_critical", "stop_master", "ckpt_regs", "exit_wfi"} \subseteq Loc
    BY DEF Loc, ProgramLoc
  <2> QED BY <1>1, <2>1, GoesTyped DEF Doing
<1>3. CASE d = Returns(c) /\ Leads(c.op, 1) /\ wr.reg \in {"NONE", "CRITICAL_SECTION", "DMR_MASK"}
  <2>1. Within1("main", c.op + 1, 1)
    BY <1>1, <1>3, CallsLead
  <2>2. Doing(d, d.loc) /\ d.loc = "main" /\ d.op = c.op + 1
    BY <1>1, <1>3, ReturnsTyped DEF Doing
  <2> QED BY <1>3, <2>1, <2>2 DEF VotedAfter
<1>4. CASE CallAt(c.op)[1] = Activate
  <2>1. d = Returns(c) /\ wr.reg = "NONE"
    BY <1>1, <1>4, WritesRegister DEF MainDoes, Activate, Stop, Checkpoint, Work, Critical, SetMask
  <2>2. Leads(c.op, 1)
    BY <1>1, <1>4, CallsLead
  <2> QED BY <1>3, <2>1, <2>2
<1>5. CASE CallAt(c.op)[1] = Stop
  <2>1. /\ wr.reg = "NONE"
        /\ d = Goes(c, "stop_critical") \/ (~critical_section /\ d = Goes(c, "stop_master"))
    BY <1>1, <1>5, WritesRegister DEF MainDoes, Activate, Stop, Checkpoint, Work, Critical, SetMask
  <2>2. IsCall(c.op, Stop)
    BY <1>1, <1>5, CallsLead
  <2> QED BY <1>2, <2>1, <2>2 DEF VotedAfter
<1>6. CASE CallAt(c.op)[1] \in {Work, Critical, SetMask}
  <2>1. d = Returns(c) /\ wr.reg \in {"NONE", "CRITICAL_SECTION", "DMR_MASK"}
    BY <1>1, <1>6, WritesRegister DEF MainDoes, Activate, Stop, Checkpoint, Work, Critical, SetMask
  <2>2. Leads(c.op, 1)
    BY <1>1, <1>6, CallsLead
  <2> QED BY <1>3, <2>1, <2>2
<1>7. CASE CallAt(c.op)[1] = Checkpoint
  <2>1. d = Goes(c, "ckpt_regs") /\ wr.reg = "NONE"
    BY <1>1, <1>7, WritesRegister DEF MainDoes, Activate, Stop, Checkpoint, Work, Critical, SetMask
  <2>2. Within1("ckpt_regs", c.op, 1)
    BY <1>1, <1>7, CallsLead
  <2> QED BY <1>2, <2>1, <2>2 DEF VotedAfter
<1>8. CASE CallAt(c.op)[1] = "return"
  <2>1. d = Goes(c, "exit_wfi") /\ wr.reg = "END_SW_ROUTINE"
    BY <1>1, <1>8, WritesRegister DEF MainDoes, Activate, Stop, Checkpoint, Work, Critical, SetMask
  <2> QED BY <1>2, <2>1 DEF VotedAfter
<1> QED BY <1>1, <1>4, <1>5, <1>6, <1>7, <1>8 DEF MainDoes

\* In the handlers.
LEMMA VotedHandler ==
  ASSUME NEW c \in CoreState, NEW d, NEW wr, NEW cp, Does(c, d, wr, cp), Handling(c, HandlerLoc),
         Returnable(c)
  PROVE  /\ wr.reg = "NONE" /\ cp = safe_copy /\ d.op = c.op
         /\ c.loc # "mret" => Handling(d, HandlerLoc) /\ d.ret = c.ret
         /\ c.loc = "mret" => Doing(d, d.loc) /\ d.loc = c.ret
         /\ c.loc = "sync_ack" => d.loc = "sync_unack"
         /\ c.loc \in {"sync_unack", "resync_unack"} => d.loc = "mret"
<1>1. c.mode = "run" /\ Silently(wr, cp) /\ c.loc \in HandlerLoc
  BY HandlerAt DEF Handling
<1>2. wr.reg = "NONE" /\ cp = safe_copy
  BY <1>1, Writes
<1>3. {"sync_unack", "resync_unack", "mret"} \subseteq Loc \cap HandlerLoc
  BY DEF Loc, HandlerLoc
<1>4. CASE c.loc = "sync_ack"
  <2>1. d = Sets(c, "sync_unack")
    BY <1>1, <1>4, HandlerAt
  <2>2. /\ d \in CoreState /\ d.mode = "run" /\ d.loc = "sync_unack" /\ d.op = c.op
        /\ d.ret = c.ret /\ d.ack
    BY <1>1, <1>3, <2>1, SetsTyped
  <2> QED BY <1>2, <1>3, <1>4, <2>2, HandlingIs
<1>5. CASE c.loc = "resync_ack"
  <2>1. d = Sets(c, "resync_unack")
    BY <1>1, <1>5, HandlerAt
  <2>2. /\ d \in CoreState /\ d.mode = "run" /\ d.loc = "resync_unack" /\ d.op = c.op
        /\ d.ret = c.ret /\ d.ack
    BY <1>1, <1>3, <2>1, SetsTyped
  <2> QED BY <1>2, <1>3, <1>5, <2>2, HandlingIs
<1>6. CASE c.loc \in {"sync_unack", "resync_unack"}
  <2>1. d = Clears(c, "mret")
    BY <1>1, <1>6, HandlerAt
  <2>2. /\ d \in CoreState /\ d.mode = "run" /\ d.loc = "mret" /\ d.op = c.op
        /\ d.ret = c.ret /\ ~d.ack
    BY <1>1, <1>3, <2>1, ClearsTyped
  <2> QED BY <1>2, <1>3, <1>6, <2>2, HandlingIs
<1>7. CASE c.loc = "mret"
  <2>1. d = Rec(c.mode, c.ret, c.op, "none", c.ack)
    BY <1>1, <1>7, HandlerAt
  <2>2. ~c.ack
    BY <1>7, HandlingIs
  <2> QED BY <1>1, <1>2, <1>7, <2>1, <2>2 DEF Doing, Rec
<1> QED BY <1>1, <1>4, <1>5, <1>6, <1>7 DEF HandlerLoc

LEMMA VotedDoes ==
  ASSUME NEW m, Base(m), NEW c \in CoreState, Returnable(c), NEW d, NEW wr,
         Does(c, d, wr, safe_copy'), VotedRun(c)
  PROVE  VotedAfter(c, d, wr)
<1>1. c.mode # "sleep" /\ c.op \in Nat
  BY RomAt, CoreTyped
<1>2. CASE Handling(c, HandlerLoc) /\ c.ret # "crt0" /\ Voted(c.ret, c.op)
  <2>1. /\ wr.reg = "NONE" /\ d.op = c.op
        /\ c.loc # "mret" => Handling(d, HandlerLoc) /\ d.ret = c.ret
        /\ c.loc = "mret" => Doing(d, d.loc) /\ d.loc = c.ret
    BY <1>2, VotedHandler
  <2> QED BY <1>2, <2>1 DEF VotedAfter
<1>3. CASE Doing(c, c.loc) /\ Voted(c.loc, c.op)
  <2>0. c.mode = "run" /\ ~c.ack
    BY <1>3 DEF Doing
  <2>1. CASE c.loc = "crt0" /\ Going /\ safe_configuration = 1 /\ c.op = 1 /\ job.conf = 1
             /\ ~initial_sync_master
    <3>1. d = Goes(c, "main") /\ wr.reg = "NONE"
      BY <2>1, RomAt, WritesRegister
    <3>2. Doing(d, d.loc) /\ d.op = 1 /\ d.loc = "main"
      BY <1>3, <2>1, <3>1, GoesTyped DEF Doing, Loc, ProgramLoc
    <3>3. Within1("main", 1, 1)
      BY <1>1, <2>1, CallsLead DEF Within1
    <3> QED BY <2>1, <3>1, <3>2, <3>3 DEF VotedAfter
  <2>2. CASE Going /\ safe_configuration = 1 /\ Within1(c.loc, c.op, 1) /\ ~initial_sync_master
    <3>1. CASE c.loc = "main"
      BY <1>3, <2>2, <3>1, VotedMain
    <3>2. CASE c.loc = "ckpt_regs"
      <4>1. d = Goes(c, "ckpt_pc") /\ wr.reg = "NONE"
        BY <3>2, CheckpointAt, WritesRegister
      <4>2. Within1("ckpt_pc", c.op, 1)
        BY <2>2, <3>2 DEF Within1
      <4>3. Doing(d, d.loc) /\ d.loc = "ckpt_pc" /\ d.op = c.op
        BY <2>0, <4>1, GoesTyped DEF Doing, Loc, ProgramLoc
      <4> QED BY <2>2, <4>1, <4>2, <4>3 DEF VotedAfter
    <3>3. CASE c.loc = "ckpt_pc"
      <4>1. d = Goes(c, "call_end") /\ wr.reg = "NONE"
        BY <3>3, CheckpointAt, WritesRegister
      <4>2. Within1("call_end", c.op, 1)
        BY <2>2, <3>3 DEF Within1
      <4>3. Doing(d, d.loc) /\ d.loc = "call_end" /\ d.op = c.op
        BY <2>0, <4>1, GoesTyped DEF Doing, Loc, ProgramLoc
      <4> QED BY <2>2, <4>1, <4>2, <4>3 DEF VotedAfter
    <3>4. CASE c.loc = "call_end"
      <4>1. d = Returns(c) /\ wr.reg = "NONE"
        BY <3>4, CheckpointAt, WritesRegister
      <4>2. Leads(c.op, 1)
        BY <2>2, <3>4 DEF Within1
      <4>3. Within1("main", c.op + 1, 1)
        BY <1>1, <4>2, CallsLead
      <4>4. Doing(d, d.loc) /\ d.loc = "main" /\ d.op = c.op + 1
        BY <2>0, <4>1, ReturnsTyped DEF Doing
      <4> QED BY <2>2, <4>1, <4>3, <4>4 DEF VotedAfter
    <3> QED BY <2>2, <3>1, <3>2, <3>3, <3>4 DEF Within1
  <2>3. CASE /\ c.loc \in {"act_reset_sync", "act_reset_ack"} /\ Leads(c.op, 1)
             /\ Going /\ safe_configuration = 1
             /\ c.loc = "act_reset_ack" => ~initial_sync_master
    <3>1. CASE c.loc = "act_reset_sync"
      <4>1. d = Goes(c, "act_reset_ack") /\ Lowering(wr, safe_copy', "INITIAL_SYNC_MASTER")
        BY <3>1, ActivateAt
      <4>2. wr.reg = "INITIAL_SYNC_MASTER" /\ wr.val = FALSE
        BY <4>1, Writes
      <4>3. Doing(d, "act_reset_ack") /\ d.op = c.op
        BY <2>0, <4>1, GoesTyped DEF Doing, Loc, ProgramLoc
      <4> QED BY <2>3, <4>2, <4>3 DEF VotedAfter
    <3>2. CASE c.loc = "act_reset_ack"
      <4>1. d = Resets(c) /\ wr.reg = "NONE"
        BY <3>2, ActivateAt, WritesRegister
      <4>2. Doing(d, d.loc) /\ d.loc = "main" /\ d.op = c.op + 1
        BY <2>0, <4>1, ResetsTyped DEF Doing
      <4>3. Within1("main", c.op + 1, 1)
        BY <1>1, <2>3, CallsLead
      <4> QED BY <2>3, <3>2, <4>1, <4>2, <4>3 DEF VotedAfter
    <3> QED BY <2>3, <3>1, <3>2
  <2>4. CASE /\ Going /\ safe_configuration = 1 /\ ~initial_sync_master /\ IsCall(c.op, Stop)
             /\ \/ c.loc = "stop_critical"
                \/ c.loc \in {"stop_master", "stop_conf"} /\ ~critical_section
    <3>0. \A l \in {"stop_master", "stop_conf", "stop_wfi"} : Doing(Goes(c, l), l) /\ Goes(c, l).op = c.op
      <4>1. {"stop_master", "stop_conf", "stop_wfi"} \subseteq Loc
        BY DEF Loc, ProgramLoc
      <4>2. \A l \in Loc : Doing(Goes(c, l), l) /\ Goes(c, l).op = c.op
        BY <2>0, GoesTyped DEF Doing
      <4> QED BY <4>1, <4>2
    <3>1. CASE c.loc = "stop_critical"
      <4>1. d = Goes(c, "stop_master") /\ Lowering(wr, safe_copy', "CRITICAL_SECTION")
        BY <3>1, StopAt
      <4>2. wr.reg = "CRITICAL_SECTION" /\ wr.val = FALSE
        BY <4>1, Writes
      <4> QED BY <2>4, <3>0, <4>1, <4>2 DEF VotedAfter
    <3>2. CASE c.loc = "stop_master"
      <4>1. d = Goes(c, "stop_conf") /\ wr.reg = "MASTER_CORE"
        BY <3>2, StopAt, WritesRegister
      <4> QED BY <2>4, <3>0, <3>2, <4>1 DEF VotedAfter
    <3>3. CASE c.loc = "stop_conf"
      <4>1. d = Goes(c, "stop_wfi") /\ Storing(wr, safe_copy', "SAFE_CONFIGURATION", 0)
        BY <3>3, StopAt
      <4>2. wr.reg = "SAFE_CONFIGURATION" /\ wr.val = 0
        BY <4>1, Writes
      <4> QED BY <2>4, <3>0, <3>3, <4>1, <4>2 DEF VotedAfter
    <3> QED BY <2>4, <3>1, <3>2, <3>3
  <2>5. CASE /\ Going /\ safe_configuration = 0 /\ ~initial_sync_master /\ IsCall(c.op, Stop)
             /\ c.loc = "stop_wfi" /\ ~critical_section
    <3>1. d = Dozes(c) /\ wr.reg = "NONE"
      BY <2>5, StopAt, WritesRegister
    <3>2. Dozing(d, "stop_wfi") /\ d.op = c.op
      BY <2>0, <2>5, <3>1, DozesTyped DEF Dozing
    <3> QED BY <2>5, <3>1, <3>2 DEF VotedAfter
  <2>6. CASE c.loc = "exit_wfi" /\ ~initial_sync_master /\ Over /\ safe_configuration = 1
    <3>1. d = Dozes(c) /\ wr.reg = "NONE"
      BY <2>6, StopAt, WritesRegister
    <3>2. Dozing(d, "exit_wfi")
      BY <2>0, <2>6, <3>1, DozesTyped DEF Dozing
    <3> QED BY <2>6, <3>1, <3>2 DEF VotedAfter
  <2> QED BY <1>3, <2>1, <2>2, <2>3, <2>4, <2>5, <2>6 DEF Voted
<1> QED BY <1>2, <1>3 DEF VotedRun

\* A place that all harts execute together stays one while nobody writes.
LEMMA VotedStays ==
  ASSUME TypeOK, NEW wr, Ticks(wr), ProgramStays, wr.reg = "NONE", ~FSM!AllAsleep
  PROVE  \A p, n : Voted(p, n) => Voted(p, n)'
<1>1. /\ safe_configuration' = safe_configuration /\ initial_sync_master' = initial_sync_master
      /\ critical_section' = critical_section /\ job' = job
  BY ClockConfig DEF Ticks, Loaded, ProgramStays
<1>2. Going => Going'
  BY TicksPulse
<1>3. Over => Over'
  <2>1. Over => Protocol!Ended'
    BY TicksPulse
  <2> QED BY <2>1 DEF Over
<1>4. /\ \A n, md : Leads(n, md)' <=> Leads(n, md)
      /\ \A n, f : IsCall(n, f)' <=> IsCall(n, f)
      /\ \A p, n, md : Within1(p, n, md)' <=> Within1(p, n, md)
  BY PlacesStay
<1> QED BY <1>1, <1>2, <1>3, <1>4 DEF Voted

LEMMA VotedRunIs ==
  ASSUME NEW c \in CoreState
  PROVE  /\ VotedRun(c) => c.mode = "run"
         /\ VotedRun(c) /\ c.ack => c.loc \in {"sync_unack", "resync_unack"}
         /\ VotedRun(c) /\ c.loc \in {"sync_unack", "resync_unack"} => c.ack \/ Doing(c, c.loc)
         /\ VotedSleep(c) => c.mode = "sleep" /\ c.loc \in {"stop_wfi", "exit_wfi"}
<1> QED BY HandlingIs DEF VotedRun, VotedSleep, Doing, Dozing

LEMMA VotedGoes ==
  ASSUME NEW m, Base(m), NEW wr, AllStep(m, wr),
         core[0] \in CoreState, Returnable(core[0]), VotedRun(core[0]),
         Does(core[0], core'[0], wr, safe_copy')
  PROVE  /\ \/ VotedRun(core[0])'
            \/ VotedSleep(core[0])' /\ core[0].loc \in {"stop_wfi", "exit_wfi"}
         /\ wr.reg = "CRITICAL_SECTION" =>
              core'[0].mode = "run" /\ core'[0].loc \in {"main", "stop_master"}
<1> DEFINE c == core[0]
           d == core'[0]
<1>1. VotedAfter(c, d, wr)
  BY VotedDoes
<1>2. TypeOK /\ ~FSM!AllAsleep /\ Clock(wr) /\ ProgramStays
  <2>1. c.mode = "run" /\ 0 \in Hart
    BY VotedRunIs, HartIs
  <2> QED BY <2>1, HartSignals DEF Base, AllStep
<1>3. wr.reg \in {"NONE", "CRITICAL_SECTION", "DMR_MASK", "INITIAL_SYNC_MASTER", "MASTER_CORE",
                  "SAFE_CONFIGURATION", "END_SW_ROUTINE"}
  BY <1>1 DEF VotedAfter
<1>4. wr.reg # "END_SW_ROUTINE" => Ticks(wr) /\ (Going => Going')
  <2>1. wr.reg # "END_SW_ROUTINE" => Ordinary(wr)
    BY <1>3 DEF Ordinary
  <2> QED BY <1>2, <2>1, TicksPulse DEF AllStep
<1>5. /\ safe_configuration' = IF wr.reg = "SAFE_CONFIGURATION" THEN wr.val ELSE safe_configuration
      /\ initial_sync_master' = IF wr.reg = "INITIAL_SYNC_MASTER" THEN wr.val ELSE initial_sync_master
      /\ critical_section' = IF wr.reg = "CRITICAL_SECTION" THEN wr.val ELSE critical_section
  BY <1>2, ClockConfig DEF Loaded
<1>6. /\ \A n, md : Leads(n, md)' <=> Leads(n, md)
      /\ \A n, f : IsCall(n, f)' <=> IsCall(n, f)
      /\ \A p, n, md : Within1(p, n, md)' <=> Within1(p, n, md)
  BY <1>2, PlacesStay
<1>7. CASE /\ Going /\ safe_configuration = 1 /\ ~initial_sync_master
           /\ Doing(d, d.loc) /\ Within1(d.loc, d.op, 1)
           /\ wr.reg = "NONE" \/ (wr.reg \in {"CRITICAL_SECTION", "DMR_MASK"} /\ d.loc = "main")
  <2>1. Going' /\ safe_configuration' = 1 /\ ~initial_sync_master' /\ Within1(core[0].loc, core[0].op, 1)'
    BY <1>4, <1>5, <1>6, <1>7
  <2>2. VotedRun(core[0])'
    BY <1>7, <2>1 DEF VotedRun, Voted, Doing
  <2> QED BY <1>7, <2>2 DEF Doing
<1>8. CASE /\ Going /\ safe_configuration = 1 /\ wr.reg = "INITIAL_SYNC_MASTER" /\ wr.val = FALSE
           /\ Doing(d, "act_reset_ack") /\ Leads(d.op, 1)
  <2>1. Going' /\ safe_configuration' = 1 /\ ~initial_sync_master' /\ Leads(core[0].op, 1)'
    BY <1>4, <1>5, <1>6, <1>8
  <2>2. VotedRun(core[0])'
    BY <1>8, <2>1 DEF VotedRun, Voted, Doing
  <2> QED BY <1>8, <2>2
<1>9. CASE /\ Going /\ safe_configuration = 1 /\ ~initial_sync_master /\ IsCall(d.op, Stop)
           /\ \/ wr.reg = "NONE" /\ Doing(d, "stop_critical")
              \/ wr.reg = "NONE" /\ ~critical_section /\ Doing(d, "stop_master")
              \/ wr.reg = "CRITICAL_SECTION" /\ wr.val = FALSE /\ Doing(d, "stop_master")
              \/ wr.reg = "MASTER_CORE" /\ ~critical_section /\ Doing(d, "stop_conf")
              \/ /\ wr.reg = "SAFE_CONFIGURATION" /\ wr.val = 0 /\ ~critical_section
                 /\ Doing(d, "stop_wfi")
  <2>1. Going' /\ ~initial_sync_master' /\ IsCall(core[0].op, Stop)'
    BY <1>4, <1>5, <1>6, <1>9
  <2>2. /\ wr.reg # "SAFE_CONFIGURATION" => safe_configuration' = 1
        /\ wr.reg = "SAFE_CONFIGURATION" => safe_configuration' = 0
        /\ Doing(d, "stop_critical") \/ ~critical_section'
    BY <1>5, <1>9
  <2>3. VotedRun(core[0])'
    BY <1>9, <2>1, <2>2 DEF VotedRun, Voted, Doing
  <2> QED BY <1>9, <2>3 DEF Doing
<1>10. CASE /\ Going /\ safe_configuration = 0 /\ ~initial_sync_master /\ ~critical_section
            /\ IsCall(d.op, Stop)
            /\ wr.reg = "NONE" /\ c.loc = "stop_wfi" /\ Dozing(d, "stop_wfi")
  <2>1. /\ Going' /\ ~initial_sync_master' /\ IsCall(core[0].op, Stop)' /\ ~critical_section'
        /\ safe_configuration' = 0
    BY <1>4, <1>5, <1>6, <1>10
  <2>2. VotedSleep(core[0])'
    BY <1>10, <2>1 DEF VotedSleep, Voted, Dozing
  <2> QED BY <1>10, <2>2
<1>11. CASE /\ Going /\ safe_configuration = 1 /\ ~initial_sync_master
            /\ wr.reg = "END_SW_ROUTINE" /\ Doing(d, "exit_wfi")
  <2>1. Over' /\ safe_configuration' = 1 /\ ~initial_sync_master'
    BY <1>5, <1>11 DEF AllStep, Over
  <2>2. VotedRun(core[0])'
    BY <1>11, <2>1 DEF VotedRun, Voted, Doing
  <2> QED BY <1>11, <2>2
<1>12. CASE /\ Over /\ safe_configuration = 1 /\ ~initial_sync_master
            /\ wr.reg = "NONE" /\ c.loc = "exit_wfi" /\ Dozing(d, "exit_wfi")
  <2>1. Protocol!Ended' /\ safe_configuration' = 1 /\ ~initial_sync_master'
    <3>1. Protocol!Ended'
      BY <1>2, <1>4, <1>12, TicksPulse
    <3> QED BY <1>5, <1>12, <3>1
  <2>2. VotedSleep(core[0])'
    BY <1>12, <2>1 DEF VotedSleep, Voted, Dozing, Over
  <2> QED BY <1>12, <2>2
<1>13. CASE wr.reg = "NONE" /\ Handling(d, HandlerLoc) /\ d.ret # "crt0" /\ Voted(d.ret, d.op)
  <2>1. \A p, n : Voted(p, n) => Voted(p, n)'
    BY <1>2, <1>4, <1>13, VotedStays
  <2>2. VotedRun(core[0])'
    BY <1>13, <2>1 DEF VotedRun, Handling
  <2> QED BY <1>13, <2>2
<1>14. CASE wr.reg = "NONE" /\ Doing(d, d.loc) /\ Voted(d.loc, d.op)
  <2>1. \A p, n : Voted(p, n) => Voted(p, n)'
    BY <1>2, <1>4, <1>14, VotedStays
  <2>2. VotedRun(core[0])'
    BY <1>14, <2>1 DEF VotedRun, Doing
  <2> QED BY <1>14, <2>2
<1> QED BY <1>1, <1>7, <1>8, <1>9, <1>10, <1>11, <1>12, <1>13, <1>14 DEF VotedAfter

\* Nobody moves.
LEMMA VotedWaits ==
  ASSUME NEW m, Base(m), NEW wr, AllStep(m, wr), wr.reg = "NONE", core'[0] = core[0],
         ~FSM!AllAsleep, VotedRun(core[0])
  PROVE  VotedRun(core[0])'
<1>1. TypeOK /\ Ticks(wr) /\ ProgramStays
  BY DEF Base, AllStep, Ordinary
<1>2. \A p, n : Voted(p, n) => Voted(p, n)'
  BY <1>1, VotedStays
<1> QED BY <1>2 DEF VotedRun, Doing, Handling

LEMMA VotedHost ==
  ASSUME NEW c, VotedRun(c) \/ VotedSleep(c)
  PROVE  host = "wait" /\ ~irq /\ (Going \/ Over)
<1>1. \A p, n : Voted(p, n) => Going \/ Over
  BY DEF Voted
<1> QED BY <1>1, Waits DEF VotedRun, VotedSleep

\* The general machines stay in the voted mode.
LEMMA VotedGeneral ==
  ASSUME NEW m \in Hart, master_core = {m}, DualOff, NEW t, AllIn(t),
         t \in FSM!TmrVoting, NEW wr, Clock(wr), General("TMR_MODE", "SINGLE_IDLE")
  PROVE  General("TMR_MODE", "SINGLE_IDLE")'
<1>1. safe = "TMR_MODE" /\ single = "SINGLE_IDLE"
  BY DEF General
<1>2. FSM!TmrIn({"TMR_IDLE"}) = {} /\ FSM!Switch_TMRtoSingle = {}
  BY AllInSignals DEF FSM!TmrVoting
<1>3. FSM!SafeNext = "TMR_MODE"
  BY <1>1, <1>2, HartIs DEF FSM!SafeNext
<1>4. FSM!SingleNext = "SINGLE_IDLE"
  BY <1>1 DEF FSM!SingleNext, FSM!SingleMayStart
<1> QED BY <1>3, <1>4, ClockMachines DEF General

\* An error is remembered only in a critical section.
LEMMA ErrorNext ==
  ASSUME DualOff, AllIn("TMR_SYNC"), NEW m \in Hart, master_core = {m}, TypeOK,
         NEW wr, Clock(wr), ~FSM!tmr_error_s, ~critical_section
  PROVE  ~tmr_error_ff'.pending
<1>1. FSM!TmrIn({"TMR_SYNC"}) = Hart /\ FSM!Hart = Hart
  BY AllInSignals, HartIs
<1>2. mismatch \in BOOLEAN /\ tmr_error_ff.pending \in BOOLEAN /\ tmr_error_ff.seen \in BOOLEAN
  BY DEF TypeOK, FSM!FsmTypeOK
<1>3. mismatch = FALSE /\ tmr_error_ff.pending = FALSE
  BY <1>2 DEF FSM!tmr_error_s
<1>4. FSM!TmrErrorNext = [seen |-> FALSE, pending |-> FALSE]
  BY <1>1, <1>3 DEF FSM!TmrErrorNext
<1> QED BY <1>4, ClockMachines

\* What the repair of an error is started by.
LEMMA ErrorIs ==
  ASSUME FSM!tmr_error_s, TypeOK
  PROVE  mismatch \/ (tmr_error_ff.pending /\ ~critical_section)
<1>1. /\ mismatch \in BOOLEAN /\ tmr_error_ff.pending \in BOOLEAN /\ tmr_error_ff.seen \in BOOLEAN
      /\ critical_section \in BOOLEAN
  BY DEF TypeOK, FSM!FsmTypeOK
<1> QED BY <1>1 DEF FSM!tmr_error_s

LEMMA FromSync ==
  ASSUME NEW m, Base(m), Common0, Sync(m), Next, VotedUse
  PROVE  \E n \in Hart : Base(n)' /\ Phase(n)'
<1>1. /\ General("TMR_MODE", "SINGLE_IDLE") /\ AllIn("TMR_SYNC") /\ Together
      /\ m \in Hart /\ master_core = {m} /\ DualOff /\ TypeOK /\ 0 \in Hart
      /\ core[0] \in CoreState /\ Returnable(core[0])
      /\ safe = "TMR_MODE" /\ single = "SINGLE_IDLE"
      /\ critical_section \in BOOLEAN /\ safe_configuration \in {0, 1}
      /\ VotedRun(core[0]) \/ VotedSleep(core[0])
  BY HartIs DEF Base, TypeOK, CoreState, Common0, Sync, General
<1>2. /\ NoInterrupt /\ NoHalt /\ FSM!Interrupt_Halt = {} /\ \A h \in Hart : tmr[h] = "TMR_SYNC"
      /\ Voting /\ FSM!TmrIn({"TMR_IDLE"}) = {} /\ FSM!Switch_TMRtoSingle = {}
  BY <1>1, AllInSignals DEF NoInterrupt, NoHalt, FSM!TmrVoting
<1>3. host = "wait" /\ ~irq
  BY <1>1, VotedHost
<1>4. CASE VotedSleep(core[0])
  <2>1. Asleep3 /\ FSM!AllAsleep
    BY <1>1, <1>4, VotedRunIs, HartSignals DEF Asleep3, Together
  <2>2. PICK wr : Still(m, wr)
    BY <1>2, <1>3, <2>1, SleepTurn
  <2>3. /\ Clock(wr) /\ Ticks(wr) /\ wr.reg = "NONE" /\ Base(m)' /\ ProgramStays
        /\ \A h \in Hart : core'[h] = core[h]
    BY <2>2 DEF Still
  <2>4. General("TMR_MODE", "SINGLE_IDLE")'
    BY <1>1, <2>3, VotedGeneral DEF FSM!TmrVoting
  <2>5. /\ safe_configuration' = safe_configuration /\ initial_sync_master' = initial_sync_master
        /\ master_core_ff' = {m} /\ FSM!AllAsleep'
    BY <1>1, <2>1, <2>3, ClockConfig, HartSignals DEF Loaded, Asleep3
  <2>6. /\ Going => Going'
        /\ Protocol!Ended /\ interrupt_controler.enable => Pulse'
    BY <1>1, <2>1, <2>3, <2>5, TicksPulse
  <2>7. CASE Dozing(core[0], "stop_wfi") /\ Voted("stop_wfi", core[0].op)
    <3>1. /\ Going /\ ~end_sw_routine /\ safe_configuration = 0 /\ ~initial_sync_master
          /\ IsCall(core[0].op, Stop)
      BY <2>7, Waits DEF Voted, Within1
    <3>2. \A h \in Hart : FSM!TmrNext(h) = "TMR_END_SYNC"
      BY <1>2, <2>1, <3>1, HartIs DEF FSM!TmrNext, FSM!Ends, FSM!TCLS
    <3>3. AllIn("TMR_END_SYNC")'
      BY <2>3, <3>2, ClockMachines DEF AllIn
    <3>4. Leads(core[0].op, 0)
      BY <1>1, <3>1, CallsLead, CoreTyped
    <3>5. \A h \in Hart : Dozing(core'[h], "stop_wfi") /\ core'[h].op = core[0].op
      BY <1>1, <2>3, <2>7 DEF Together
    <3>6. Leads(core[m].op, 0)'
      <4>1. \A n : Leads(n, 0)' <=> Leads(n, 0)
        BY <2>3, PlacesStay
      <4> QED BY <1>1, <3>4, <3>5, <4>1
    <3>7. Parting(m)'
      BY <2>4, <2>5, <2>6, <3>1, <3>3, <3>5, <3>6 DEF Parting, Dozing, Unsynced
    <3> QED BY <1>1, <2>3, <3>7 DEF Phase
  <2>8. CASE Dozing(core[0], "exit_wfi") /\ Voted("exit_wfi", core[0].op) /\ Protocol!Ended
    <3>1. end_sw_routine /\ ~initial_sync_master
      BY <2>8, RegisterFacts DEF Voted, Within1, Over
    <3>2. \A h \in Hart : FSM!TmrNext(h) = "TMR_IDLE"
      BY <1>2, <2>1, <3>1, HartIs DEF FSM!TmrNext, FSM!Ends
    <3>3. AllIn("TMR_IDLE")'
      BY <2>3, <3>2, ClockMachines DEF AllIn
    <3>4. \A h \in Hart : Dozing(core'[h], "exit_wfi")
      BY <1>1, <2>3, <2>8 DEF Together
    <3>5. Pulse'
      BY <1>3, <2>6, <2>8 DEF Base
    <3>6. VotedEnd(m)'
      BY <2>4, <2>5, <3>1, <3>3, <3>4, <3>5 DEF VotedEnd, Dozing, Unsynced
    <3> QED BY <1>1, <2>3, <3>6 DEF Phase
  <2> QED BY <1>4, <2>7, <2>8 DEF VotedSleep
<1>5. CASE VotedRun(core[0])
  <2>1. core[0].mode = "run" /\ ~FSM!AllAsleep /\ \A g, h \in Hart : core[g].mode = core[h].mode
    BY <1>1, <1>5, VotedRunIs, HartSignals DEF Together
  <2>2. PICK wr : AllStep(m, wr)
    BY <1>1, <1>2, <1>3, <2>1, AllTurns DEF NoInterrupt
  <2>3. OneStep(wr) /\ Clock(wr)
    BY <1>1, <2>2, AllAsOne DEF AllStep
  <2>4. PICK n \in Hart : Base(n)'
    BY <2>2 DEF AllStep
  <2>5. General("TMR_MODE", "SINGLE_IDLE")'
    BY <1>1, <2>3, VotedGeneral DEF FSM!TmrVoting
  <2>6. /\ \/ VotedRun(core[0])'
           \/ VotedSleep(core[0])' /\ ~mismatch' /\ core[0].loc \in {"stop_wfi", "exit_wfi"}
        /\ mismatch' => core'[0] = core[0] /\ core[0].loc \notin {"stop_wfi", "exit_wfi"}
        /\ wr.reg = "CRITICAL_SECTION" =>
             core'[0].mode = "run" /\ core'[0].loc \in {"main", "stop_master"}
    <3>1. CASE core'[0] = core[0] /\ Silently(wr, safe_copy')
      <4>1. wr.reg = "NONE"
        BY <3>1, WritesRegister
      <4>2. VotedRun(core[0])'
        BY <1>5, <2>1, <2>2, <3>1, <4>1, VotedWaits
      <4> QED BY <2>3, <4>1, <4>2 DEF OneStep
    <3>2. CASE ~mismatch' /\ Moves(0, core[0], core'[0], wr)
      <4>1. Does(core[0], core'[0], wr, safe_copy')
        BY <1>2, <3>2, MovesDoes
      <4> QED BY <1>1, <1>5, <2>2, <3>2, <4>1, VotedGoes
    <3> QED BY <2>3, <3>1, <3>2 DEF OneStep
  <2>7. CASE FSM!tmr_error_s
    <3>1. core[0].loc \notin {"stop_wfi", "exit_wfi"}
      BY <1>1, <2>7, ErrorIs DEF Sync
    <3>2. \A h \in Hart : FSM!TmrNext(h) = "TMR_SYNCINTC"
      BY <1>2, <2>1, <2>7, HartIs DEF FSM!TmrNext, FSM!Ends
    <3>3. AllIn("TMR_SYNCINTC")'
      BY <2>3, <3>2, ClockMachines DEF AllIn
    <3>4. Repair(n)'
      BY <2>3, <2>5, <2>6, <3>1, <3>3 DEF Repair, OneStep
    <3> QED BY <2>4, <3>4 DEF Phase
  <2>8. CASE ~FSM!tmr_error_s
    <3>1. \A h \in Hart : FSM!TmrNext(h) = "TMR_SYNC"
      BY <1>2, <2>1, <2>8, HartIs DEF FSM!TmrNext, FSM!Ends
    <3>2. AllIn("TMR_SYNC")'
      BY <2>3, <3>1, ClockMachines DEF AllIn
    <3>3. mismatch' => core'[0].mode = "run" /\ core'[0].loc \notin {"stop_wfi", "exit_wfi"}
      BY <2>1, <2>6
    <3>4. tmr_error_ff'.pending /\ ~critical_section' =>
            core'[0].mode = "run" /\ core'[0].loc \in {"main", "stop_master"}
      <4>1. ~critical_section => ~tmr_error_ff'.pending
        BY <1>1, <2>3, <2>8, ErrorNext
      <4>2. critical_section /\ ~critical_section' => wr.reg = "CRITICAL_SECTION"
        BY <2>3, ClockConfig DEF Loaded
      <4> QED BY <1>1, <2>6, <4>1, <4>2
    <3>5. Sync(n)'
      BY <2>3, <2>5, <2>6, <3>2, <3>3, <3>4 DEF Sync, OneStep
    <3> QED BY <2>4, <3>5 DEF Phase
  <2> QED BY <2>7, <2>8
<1> QED BY <1>1, <1>4, <1>5

\* The repair.
LEMMA FromRepair ==
  ASSUME NEW m, Base(m), Common0, Repair(m), Next, VotedUse
  PROVE  \E n \in Hart : Base(n)' /\ Phase(n)'
<1>1. /\ General("TMR_MODE", "SINGLE_IDLE") /\ AllIn("TMR_SYNCINTC") /\ Together
      /\ m \in Hart /\ master_core = {m} /\ DualOff /\ TypeOK /\ 0 \in Hart
      /\ core[0] \in CoreState /\ Returnable(core[0])
      /\ safe = "TMR_MODE" /\ single = "SINGLE_IDLE" /\ VotedRun(core[0])
  BY HartIs DEF Base, TypeOK, CoreState, Common0, Repair, General
<1>2. /\ FSM!Interrupt_Sync = {} /\ FSM!Interrupt_swResync = Hart /\ FSM!Interrupt_Halt = {}
      /\ \A h \in Hart : tmr[h] = "TMR_SYNCINTC"
      /\ Voting
  BY <1>1, AllInSignals DEF FSM!TmrVoting
<1>3. host = "wait" /\ ~irq
  BY <1>1, VotedHost
<1>4. core[0].mode = "run" /\ ~FSM!AllAsleep /\ \A g, h \in Hart : core[g].mode = core[h].mode
  BY <1>1, VotedRunIs, HartSignals DEF Together
<1>5. PICK wr : AllStep(m, wr)
  BY <1>1, <1>2, <1>3, <1>4, AllTurns
<1>6. OneStep(wr) /\ Clock(wr)
  BY <1>1, <1>5, AllAsOne DEF AllStep
<1>7. PICK n \in Hart : Base(n)'
  BY <1>5 DEF AllStep
<1>8. General("TMR_MODE", "SINGLE_IDLE")'
  BY <1>1, <1>6, VotedGeneral DEF FSM!TmrVoting
<1>9. /\ VotedRun(core[0])'
      /\ core[0].ack => core'[0].loc \in {"sync_unack", "resync_unack", "mret"}
  <2>0. core[0].ack => Handling(core[0], HandlerLoc) /\ core[0].loc \in {"sync_unack", "resync_unack"}
    BY <1>1, VotedRunIs DEF VotedRun, Doing
  <2>1. CASE core'[0] = core[0] /\ Silently(wr, safe_copy')
    <3>1. wr.reg = "NONE"
      BY <2>1, WritesRegister
    <3>2. VotedRun(core[0])'
      BY <1>1, <1>4, <1>5, <2>1, <3>1, VotedWaits
    <3> QED BY <2>0, <2>1, <3>2
  <2>2. CASE Moves(0, core[0], core'[0], wr)
    <3>1. CASE 0 \notin Diverted /\ Does(core[0], core'[0], wr, safe_copy')
      <4>1. core[0].loc \notin ProgramLoc
        BY <1>1, <1>2, <1>4, <3>1, HartIs DEF Diverted, Interruptible
      <4>2. core[0].loc \notin {"stop_wfi", "exit_wfi"}
        BY <4>1 DEF ProgramLoc
      <4>3. VotedRun(core[0])'
        BY <1>1, <1>5, <3>1, <4>2, VotedGoes
      <4>4. core[0].ack => core'[0].loc = "mret"
        BY <1>1, <2>0, <3>1, VotedHandler
      <4> QED BY <4>3, <4>4
    <3>2. CASE /\ 0 \in FSM!Interrupt_swResync \cap Interruptible
               /\ core'[0] = Interrupted(core[0], "resync_ack") /\ Silently(wr, safe_copy')
      <4>1. core[0].loc \in ProgramLoc
        BY <3>2 DEF Interruptible
      <4>2. core[0].loc \notin HandlerLoc /\ core[0].loc # "crt0"
        BY <4>1, Locs DEF RomLoc
      <4>3. Doing(core[0], core[0].loc) /\ Voted(core[0].loc, core[0].op)
        BY <1>1, <4>2 DEF VotedRun, Handling
      <4>4. Interrupted(core[0], "resync_ack") = Rec("run", "resync_ack", core[0].op, core[0].loc, core[0].ack)
        BY <1>4 DEF Interrupted, Resumption
      <4>5. /\ core'[0].mode = "run" /\ core'[0].loc = "resync_ack" /\ core'[0].op = core[0].op
            /\ core'[0].ret = core[0].loc /\ core'[0].ack = core[0].ack
        BY <3>2, <4>4 DEF Rec
      <4>6. ~core[0].ack
        BY <4>3 DEF Doing
      <4>7. Handling(core'[0], HandlerLoc)
        <5>1. core'[0] \in CoreState
          BY <1>6 DEF OneStep
        <5>2. "resync_ack" \in HandlerLoc
          BY DEF HandlerLoc
        <5> QED BY <4>5, <4>6, <5>1, <5>2, HandlingIs
      <4>8. wr.reg = "NONE" /\ Ticks(wr) /\ ProgramStays
        BY <1>5, <3>2, WritesRegister DEF AllStep, Ordinary
      <4>9. \A p, k : Voted(p, k) => Voted(p, k)'
        BY <1>1, <1>4, <4>8, VotedStays
      <4>10. VotedRun(core[0])'
        BY <4>2, <4>3, <4>5, <4>7, <4>9 DEF VotedRun, Handling
      <4> QED BY <4>6, <4>10
    <3> QED BY <1>2, <2>2, <3>1, <3>2 DEF Moves
  <2> QED BY <1>6, <2>1, <2>2 DEF OneStep
<1>10. CASE FSM!AllAck
  <2>1. AllIn("TMR_SWSYNC")'
    <3>1. \A h \in Hart : FSM!TmrNext(h) = "TMR_SWSYNC"
      BY <1>2, <1>10, HartIs DEF FSM!TmrNext
    <3> QED BY <1>6, <3>1, ClockMachines DEF AllIn
  <2>2. core[0].ack
    BY <1>1, <1>10, HartSignals
  <2>3. Repaired(n)'
    BY <1>6, <1>8, <1>9, <2>1, <2>2 DEF Repaired, OneStep
  <2> QED BY <1>7, <2>3 DEF Phase
<1>11. CASE ~FSM!AllAck
  <2>1. AllIn("TMR_SYNCINTC")'
    <3>1. \A h \in Hart : FSM!TmrNext(h) = "TMR_SYNCINTC"
      BY <1>2, <1>11, HartIs DEF FSM!TmrNext
    <3> QED BY <1>6, <3>1, ClockMachines DEF AllIn
  <2>2. Repair(n)'
    BY <1>6, <1>8, <1>9, <2>1 DEF Repair, OneStep
  <2> QED BY <1>7, <2>2 DEF Phase
<1> QED BY <1>10, <1>11

LEMMA FromRepaired ==
  ASSUME NEW m, Base(m), Common0, Repaired(m), Next, VotedUse
  PROVE  \E n \in Hart : Base(n)' /\ Phase(n)'
<1>1. /\ General("TMR_MODE", "SINGLE_IDLE") /\ AllIn("TMR_SWSYNC") /\ Together
      /\ m \in Hart /\ master_core = {m} /\ DualOff /\ TypeOK /\ 0 \in Hart
      /\ core[0] \in CoreState /\ Returnable(core[0])
      /\ safe = "TMR_MODE" /\ single = "SINGLE_IDLE" /\ VotedRun(core[0])
      /\ core[0].loc \in {"sync_unack", "resync_unack", "mret"}
  BY HartIs DEF Base, TypeOK, CoreState, Common0, Repaired, General
<1>2. /\ FSM!Interrupt_Sync = {} /\ FSM!Interrupt_swResync = Hart /\ FSM!Interrupt_Halt = {}
      /\ \A h \in Hart : tmr[h] = "TMR_SWSYNC"
      /\ Voting /\ FSM!TmrErrorNext = [seen |-> FALSE, pending |-> FALSE]
  BY <1>1, AllInSignals DEF FSM!TmrVoting
<1>3. host = "wait" /\ ~irq
  BY <1>1, VotedHost
<1>4. /\ core[0].mode = "run" /\ ~FSM!AllAsleep /\ \A g, h \in Hart : core[g].mode = core[h].mode
      /\ Handling(core[0], HandlerLoc) /\ core[0].loc \notin ProgramLoc
      /\ core[0].loc \notin {"stop_wfi", "exit_wfi"}
  <2>1. core[0].loc \in HandlerLoc
    BY <1>1 DEF HandlerLoc
  <2>2. core[0].loc \notin ProgramLoc /\ core[0].loc \notin RomLoc
    BY <2>1, Locs
  <2>3. \A n : ~Voted(core[0].loc, n)
    BY <2>1, <2>2 DEF Voted, Within1, ProgramLoc, RomLoc
  <2>4. Handling(core[0], HandlerLoc)
    BY <1>1, <2>3 DEF VotedRun
  <2> QED BY <1>1, <2>2, <2>4, VotedRunIs, HartSignals DEF Together, ProgramLoc
<1>5. PICK wr : AllStep(m, wr)
  BY <1>1, <1>2, <1>3, <1>4, AllTurns
<1>6. OneStep(wr) /\ Clock(wr)
  BY <1>1, <1>5, AllAsOne DEF AllStep
<1>7. PICK n \in Hart : Base(n)'
  BY <1>5 DEF AllStep
<1>8. General("TMR_MODE", "SINGLE_IDLE")'
  BY <1>1, <1>6, VotedGeneral DEF FSM!TmrVoting
<1>9. /\ VotedRun(core[0])'
      /\ core[0].ack => core'[0].loc \in {"sync_unack", "resync_unack", "mret"}
      /\ mismatch' => core'[0].loc \notin {"stop_wfi", "exit_wfi"}
  <2>1. CASE core'[0] = core[0] /\ Silently(wr, safe_copy')
    <3>1. wr.reg = "NONE"
      BY <2>1, WritesRegister
    <3>2. VotedRun(core[0])'
      BY <1>1, <1>4, <1>5, <2>1, <3>1, VotedWaits
    <3> QED BY <1>1, <2>1, <3>2
  <2>2. CASE ~mismatch' /\ Moves(0, core[0], core'[0], wr)
    <3>1. Does(core[0], core'[0], wr, safe_copy')
      BY <1>2, <1>4, <2>2 DEF Moves, Interruptible
    <3>2. VotedRun(core[0])'
      BY <1>1, <1>4, <1>5, <3>1, VotedGoes
    <3>3. core[0].ack => core[0].loc \in {"sync_unack", "resync_unack"}
      BY <1>1, VotedRunIs
    <3>4. core[0].ack => core'[0].loc = "mret"
      BY <1>1, <1>4, <3>1, <3>3, VotedHandler
    <3> QED BY <2>2, <3>2, <3>4
  <2> QED BY <1>6, <2>1, <2>2 DEF OneStep
<1>10. CASE Acked = {}
  <2>1. AllIn("TMR_SYNC")'
    <3>1. \A h \in Hart : FSM!TmrNext(h) = "TMR_SYNC"
      BY <1>2, <1>10, HartIs DEF FSM!TmrNext
    <3> QED BY <1>6, <3>1, ClockMachines DEF AllIn
  <2>2. ~tmr_error_ff'.pending
    BY <1>2, <1>6, ClockMachines
  <2>3. core'[0].mode = "run"
    <3>1. core'[0] \in CoreState
      BY <1>6 DEF OneStep
    <3> QED BY <1>9, <3>1 DEF VotedRun, Doing, Handling
  <2>4. Sync(n)'
    BY <1>6, <1>8, <1>9, <2>1, <2>2, <2>3 DEF Sync, OneStep
  <2> QED BY <1>7, <2>4 DEF Phase
<1>11. CASE Acked # {}
  <2>1. AllIn("TMR_SWSYNC")'
    <3>1. \A h \in Hart : FSM!TmrNext(h) = "TMR_SWSYNC"
      BY <1>2, <1>11, HartIs DEF FSM!TmrNext
    <3> QED BY <1>6, <3>1, ClockMachines DEF AllIn
  <2>2. core[0].ack
    BY <1>1, <1>11, HartSignals DEF Together
  <2>3. Repaired(n)'
    BY <1>6, <1>8, <1>9, <2>1, <2>2 DEF Repaired, OneStep
  <2> QED BY <1>7, <2>3 DEF Phase
<1> QED BY <1>10, <1>11

\* A hart is woken behind its wfi instruction at l, and acknowledges.
Behind(l) == IF l = "act_wfi" THEN "act_reset_sync" ELSE "call_end"
Waking(c, l) == \/ Dozing(c, l)
                \/ Handling(c, {"sync_ack", "sync_unack"}) /\ c.ret = Behind(l)

LEMMA Woken ==
  ASSUME NEW h \in Hart, core[h] \in CoreState, Returnable(core[h]), NEW d \in CoreState, NEW wr,
         Moves(h, core[h], d, wr), NoHalt, FSM!Interrupt_swResync = {}, h \in FSM!Interrupt_Sync,
         NEW l \in {"act_wfi", "stop_wfi"}, Waking(core[h], l)
  PROVE  /\ wr.reg = "NONE" /\ safe_copy' = safe_copy /\ d.op = core[h].op
         /\ Handling(d, HandlerLoc) /\ d.ret = Behind(l)
         /\ Dozing(core[h], l) => d.loc = "sync_ack"
         /\ core[h].loc = "sync_ack" => d.loc = "sync_unack"
         /\ core[h].loc = "sync_unack" => d.loc = "mret"
<1> DEFINE c == core[h]
           r == Behind(l)
<1>1. {"sync_ack", "sync_unack"} \subseteq HandlerLoc /\ l \in ProgramLoc \ HandlerLoc
  BY DEF HandlerLoc, ProgramLoc
<1>0. \/ Dozing(c, l)
      \/ Handling(c, {"sync_ack", "sync_unack"}) /\ c.ret = r
  BY DEF Waking
<1>2. CASE h \notin Diverted /\ Does(c, d, wr, safe_copy')
  <2>1. Handling(c, HandlerLoc) /\ c.loc \in {"sync_ack", "sync_unack"} /\ c.ret = r
    <3>1. c.mode # "sleep"
      BY <1>2, RomAt
    <3> QED BY <1>0, <1>1, <3>1 DEF Handling, Dozing
  <2>2. ~Dozing(c, l)
    BY <2>1 DEF Handling, Dozing
  <2> QED BY <1>2, <2>1, <2>2, VotedHandler
<1>3. CASE /\ h \in FSM!Interrupt_Sync \cap Interruptible
           /\ d = Interrupted(c, "sync_ack") /\ Silently(wr, safe_copy')
  <2>1. c.loc \in ProgramLoc
    BY <1>3 DEF Interruptible
  <2>2. Dozing(c, l) /\ c.loc = l
    BY <1>0, <1>1, <2>1, Locs DEF Handling, Dozing
  <2>3. Interrupted(c, "sync_ack") = Rec("run", "sync_ack", c.op, r, c.ack)
    BY <2>2 DEF Interrupted, Resumption, Dozing, Behind
  <2>4. d.mode = "run" /\ d.loc = "sync_ack" /\ d.op = c.op /\ d.ret = r /\ d.ack = c.ack
    BY <1>3, <2>3 DEF Rec
  <2>5. Handling(d, HandlerLoc)
    <3>1. ~c.ack
      BY <2>2 DEF Dozing
    <3> QED BY <1>1, <2>4, <3>1, HandlingIs
  <2>6. c.loc \notin {"sync_ack", "sync_unack"}
    BY <1>1, <2>2
  <2> QED BY <1>3, <2>4, <2>5, <2>6, Writes
<1> QED BY <1>2, <1>3 DEF Moves, NoHalt

\* All harts have restored the state, and are woken together.
LEMMA FromJoined ==
  ASSUME NEW m, Base(m), Common0, Joined(m), Next, VotedUse
  PROVE  \E n \in Hart : Base(n)' /\ Phase(n)'
<1>1. /\ General("TMR_MODE", "SINGLE_IDLE") /\ AllIn("TMR_MS_INTRSYNC") /\ Together
      /\ m \in Hart /\ master_core = {m} /\ DualOff /\ TypeOK /\ 0 \in Hart
      /\ core[0] \in CoreState /\ Returnable(core[0]) /\ core[0].op \in Nat
      /\ safe = "TMR_MODE" /\ single = "SINGLE_IDLE"
      /\ Leads(core[0].op, 1) /\ Going /\ safe_configuration = 1 /\ initial_sync_master
      /\ master_core_ff = {m}
      /\ \/ Dozing(core[0], "act_wfi")
         \/ Handling(core[0], {"sync_ack", "sync_unack"}) /\ core[0].ret = "act_reset_sync"
  BY HartIs DEF Base, TypeOK, CoreState, Common0, Joined, General
<1>2. /\ FSM!Interrupt_Sync = Hart /\ FSM!Interrupt_swResync = {} /\ FSM!Interrupt_Halt = {}
      /\ \A h \in Hart : tmr[h] = "TMR_MS_INTRSYNC"
      /\ Voting /\ FSM!TmrErrorNext = [seen |-> FALSE, pending |-> FALSE]
  BY <1>1, AllInSignals DEF FSM!TmrVoting
<1>3. host = "wait" /\ ~irq /\ ~end_sw_routine
  BY <1>1, Waits
<1>4. \A g, h \in Hart : core[g].mode = core[h].mode
  BY <1>1 DEF Together
<1>5. PICK wr : AllStep(m, wr)
  BY <1>1, <1>2, <1>3, <1>4, AllTurns
<1>6. OneStep(wr) /\ Clock(wr)
  BY <1>1, <1>5, AllAsOne DEF AllStep
<1>7. {"sync_ack", "sync_unack", "mret"} \subseteq HandlerLoc
  BY DEF HandlerLoc
\* What the harts do.
<1>8. /\ wr.reg = "NONE" /\ core'[0].op = core[0].op
      /\ \/ Dozing(core'[0], "act_wfi") /\ core'[0] = core[0]
         \/ /\ Handling(core'[0], HandlerLoc) /\ core'[0].ret = "act_reset_sync"
            /\ \/ core'[0] = core[0]
               \/ core'[0].loc \in {"sync_ack", "sync_unack"}
               \/ core[0].loc = "sync_unack"
  <2>1. CASE core'[0] = core[0] /\ Silently(wr, safe_copy')
    BY <1>1, <1>7, <2>1, WritesRegister DEF Handling
  <2>2. CASE Moves(0, core[0], core'[0], wr)
    <3>1. /\ wr.reg = "NONE" /\ core'[0].op = core[0].op
          /\ Handling(core'[0], HandlerLoc) /\ core'[0].ret = "act_reset_sync"
          /\ Dozing(core[0], "act_wfi") => core'[0].loc = "sync_ack"
          /\ core[0].loc = "sync_ack" => core'[0].loc = "sync_unack"
      <4>1. core'[0] \in CoreState
        BY <1>6 DEF OneStep
      <4>2. NoHalt /\ 0 \in FSM!Interrupt_Sync
        BY <1>1, <1>2 DEF NoHalt
      <4>3. Waking(core[0], "act_wfi") /\ Behind("act_wfi") = "act_reset_sync"
        BY <1>1 DEF Waking, Behind
      <4>4. core[0] \in CoreState /\ Returnable(core[0]) /\ 0 \in Hart /\ FSM!Interrupt_swResync = {}
        BY <1>1, <1>2
      <4> QED BY <2>2, <4>1, <4>2, <4>3, <4>4, Woken
    <3> QED BY <1>1, <3>1 DEF Handling
  <2> QED BY <1>6, <2>1, <2>2 DEF OneStep
<1>9. /\ Ticks(wr) /\ Base(m)' /\ ProgramStays
      /\ safe_configuration' = 1 /\ initial_sync_master' = initial_sync_master
  BY <1>1, <1>5, <1>6, <1>8, ClockConfig DEF AllStep, Ordinary, Loaded
<1>10. Going'
  BY <1>1, <1>3, <1>9, TicksPulse
<1>11. Leads(core[0].op, 1)'
  <2>1. \A n : Leads(n, 1)' <=> Leads(n, 1)
    BY <1>9, PlacesStay
  <2> QED BY <1>1, <1>8, <2>1
<1>12. General("TMR_MODE", "SINGLE_IDLE")'
  BY <1>1, <1>6, VotedGeneral DEF FSM!TmrVoting
<1>13. master_core_ff' = {m}
  BY <1>1, <1>6, ClockConfig
<1>14. CASE FSM!AllAck
  <2>1. AllIn("TMR_SYNC")'
    <3>1. \A h \in Hart : FSM!TmrNext(h) = "TMR_SYNC"
      BY <1>2, <1>14, HartIs DEF FSM!TmrNext
    <3> QED BY <1>6, <3>1, ClockMachines DEF AllIn
  <2>2. core[0].ack
    BY <1>1, <1>14, HartSignals
  <2>3. Handling(core'[0], HandlerLoc) /\ core'[0].ret = "act_reset_sync"
    <3>1. ~Dozing(core[0], "act_wfi")
      BY <2>2 DEF Dozing
    <3> QED BY <1>8, <3>1
  <2>4. VotedRun(core[0])'
    BY <1>9, <1>10, <1>11, <1>1, <2>3 DEF VotedRun, Voted, Handling
  <2>5. core'[0].mode = "run" /\ core'[0].loc \notin {"stop_wfi", "exit_wfi"}
    BY <2>3 DEF Handling, HandlerLoc
  <2>6. ~tmr_error_ff'.pending
    BY <1>2, <1>6, ClockMachines
  <2>7. Sync(m)'
    BY <1>6, <1>12, <2>1, <2>4, <2>5, <2>6 DEF Sync, OneStep
  <2> QED BY <1>1, <1>9, <2>7 DEF Phase
<1>15. CASE ~FSM!AllAck
  <2>1. AllIn("TMR_MS_INTRSYNC")'
    <3>1. \A h \in Hart : FSM!TmrNext(h) = "TMR_MS_INTRSYNC"
      BY <1>2, <1>15, HartIs DEF FSM!TmrNext
    <3> QED BY <1>6, <3>1, ClockMachines DEF AllIn
  <2>2. ~core[0].ack
    BY <1>1, <1>15, HartSignals DEF Together
  <2>3. core[0].loc # "sync_unack"
    BY <1>1, <2>2 DEF Handling, Dozing
  <2>4. \/ Dozing(core'[0], "act_wfi")
        \/ Handling(core'[0], {"sync_ack", "sync_unack"}) /\ core'[0].ret = "act_reset_sync"
    <3>1. CASE Dozing(core'[0], "act_wfi")
      BY <3>1
    <3>2. CASE /\ Handling(core'[0], HandlerLoc) /\ core'[0].ret = "act_reset_sync"
               /\ core'[0].loc \in {"sync_ack", "sync_unack"}
      BY <3>2 DEF Handling
    <3>3. CASE Handling(core'[0], HandlerLoc) /\ core'[0] = core[0]
      BY <1>1, <3>3 DEF Handling, Dozing
    <3> QED BY <1>8, <2>3, <3>1, <3>2, <3>3
  <2>5. Joined(m)'
    BY <1>1, <1>6, <1>9, <1>10, <1>11, <1>12, <1>13, <2>1, <2>4 DEF Joined, OneStep, Dozing, Handling
  <2> QED BY <1>1, <1>9, <2>5 DEF Phase
<1> QED BY <1>14, <1>15

\* The master of the next mode is woken from the end of the voted one.
LEMMA MasterWoken ==
  ASSUME NEW m \in Hart, core[m] \in CoreState, Returnable(core[m]), NEW wr, AloneStep(m, wr),
         NoHalt, FSM!Interrupt_swResync = {}, FSM!Interrupt_Sync = {m},
         Waking(core[m], "stop_wfi")
  PROVE  /\ wr.reg = "NONE" /\ core'[m].op = core[m].op
         /\ \/ Dozing(core'[m], "stop_wfi") /\ core'[m] = core[m]
            \/ /\ Handling(core'[m], HandlerLoc) /\ core'[m].ret = "call_end"
               /\ Dozing(core[m], "stop_wfi") => core'[m].loc = "sync_ack"
               /\ core[m].loc = "sync_ack" => core'[m].loc \in {"sync_ack", "sync_unack"}
               /\ core[m].loc = "sync_unack" => core'[m].loc \in {"sync_unack", "mret"}
<1>1. Behind("stop_wfi") = "call_end" /\ {"sync_ack", "sync_unack"} \subseteq HandlerLoc
  BY DEF Behind, HandlerLoc
<1>2. CASE core'[m] = core[m] /\ Silently(wr, safe_copy')
  <2>1. wr.reg = "NONE"
    BY <1>2, WritesRegister
  <2>2. \/ Dozing(core[m], "stop_wfi")
        \/ /\ Handling(core[m], HandlerLoc) /\ core[m].ret = "call_end"
           /\ ~Dozing(core[m], "stop_wfi")
    BY <1>1 DEF Waking, Handling, Dozing
  <2> QED BY <1>2, <2>1, <2>2
<1>3. CASE Moves(m, core[m], core'[m], wr)
  <2>1. core'[m] \in CoreState /\ m \in FSM!Interrupt_Sync
    BY DEF AloneStep
  <2> QED BY <1>1, <1>3, <2>1, Woken
<1> QED BY <1>2, <1>3 DEF AloneStep

\* The end of the voted mode.
LEMMA FromParting ==
  ASSUME NEW m, Base(m), Common0, Parting(m), Next, VotedUse
  PROVE  \E n \in Hart : Base(n)' /\ Phase(n)'
<1>1. /\ safe = "TMR_MODE" /\ single = "SINGLE_IDLE" /\ AllIn("TMR_END_SYNC")
      /\ m \in Hart /\ master_core = {m} /\ DualOff /\ TypeOK /\ Going
      /\ core \in [Hart -> CoreState] /\ \A h \in Hart : Returnable(core[h])
      /\ \A h \in Hart : Dozing(core[h], "stop_wfi")
      /\ Leads(core[m].op, 0) /\ master_core_ff = {m} /\ safe_configuration = 0
      /\ ~initial_sync_master
  BY HartIs DEF Base, TypeOK, CoreState, Common0, Parting, General, Unsynced
<1>2. /\ FSM!Interrupt_Sync = {m} /\ FSM!Interrupt_swResync = {} /\ FSM!Interrupt_Halt = {}
      /\ \A h \in Hart : tmr[h] = "TMR_END_SYNC"
      /\ ~Voting /\ NoHalt /\ FSM!TmrIn({"TMR_IDLE"}) = {} /\ FSM!Switch_TMRtoSingle = {m}
  BY <1>1, AllInSignals DEF FSM!TmrVoting, NoHalt
<1>3. host = "wait" /\ ~irq /\ start /\ ~end_sw_routine
  BY <1>1, Waits
<1>4. OthersRest(m)
  BY <1>1 DEF OthersRest, Resting, Dozing
<1>5. PICK wr : AloneStep(m, wr)
  BY <1>2, <1>3, <1>4, AloneTurns
<1>6. /\ wr.reg = "NONE" /\ core'[m].op = core[m].op
      /\ \/ Dozing(core'[m], "stop_wfi")
         \/ Handling(core'[m], {"sync_ack"}) /\ core'[m].ret = "call_end"
  <2>1. Waking(core[m], "stop_wfi")
    BY <1>1 DEF Waking
  <2>2. /\ wr.reg = "NONE" /\ core'[m].op = core[m].op
        /\ \/ Dozing(core'[m], "stop_wfi")
           \/ /\ Handling(core'[m], HandlerLoc) /\ core'[m].ret = "call_end"
              /\ core'[m].loc = "sync_ack"
    BY <1>1, <1>2, <1>5, <2>1, MasterWoken
  <2> QED BY <2>2 DEF Handling
<1>7. Clock(wr) /\ Ticks(wr) /\ Base(m)' /\ ProgramStays /\ OthersRest(m)'
  BY <1>5, <1>6 DEF AloneStep, Ordinary, ProgramStays
<1>8. /\ Going' /\ safe_configuration' = 0 /\ ~initial_sync_master' /\ master_core_ff' = {m}
  BY <1>1, <1>3, <1>6, <1>7, TicksPulse, ClockConfig DEF Loaded
<1>9. Leads(core[m].op, 0)'
  <2>1. \A n : Leads(n, 0)' <=> Leads(n, 0)
    BY <1>7, PlacesStay
  <2> QED BY <1>1, <1>6, <2>1
<1>10. General("SINGLE_MODE", "SINGLE_IDLE")'
  <2>1. FSM!SafeNext = "SINGLE_MODE"
    BY <1>1, <1>2, <1>3, HartIs DEF FSM!SafeNext
  <2>2. FSM!SingleNext = "SINGLE_IDLE"
    BY <1>1 DEF FSM!SingleNext, FSM!SingleMayStart
  <2> QED BY <1>7, <2>1, <2>2, ClockMachines DEF General
<1>11. OnlyIn(m, "TMR_END_SYNC")'
  <2>1. \A h \in Hart : h \in Asleep /\ h \notin Acked
    BY <1>1, HartSignals DEF Dozing
  <2>2. \A h \in Hart : FSM!TmrNext(h) = IF h = m THEN "TMR_END_SYNC" ELSE "TMR_IDLE"
    BY <1>1, <1>2, <2>1 DEF FSM!TmrNext, FSM!Leaves
  <2> QED BY <1>7, <2>2, ClockMachines DEF OnlyIn
<1>12. HandedOver(m, "SINGLE_IDLE", {"sync_ack"})'
  BY <1>6, <1>7, <1>8, <1>9, <1>10, <1>11 DEF HandedOver, Dozing, Handling, Unsynced
<1>13. Handover(m)'
  BY <1>12 DEF Handover
<1> QED BY <1>1, <1>7, <1>13 DEF Phase

\* The general machine of the single mode.
LEMMA HandoverGeneral ==
  ASSUME NEW m \in Hart, master_core = {m}, DualOff, OnlyIn(m, "TMR_END_SYNC"),
         NEW wr, Clock(wr), safe = "SINGLE_MODE", single \in {"SINGLE_IDLE", "SINGLE_RUN"},
         start, ~end_sw_routine, safe_configuration = 0
  PROVE  General("SINGLE_MODE", "SINGLE_RUN")'
<1>1. FSM!SafeNext = "SINGLE_MODE"
  BY DEF FSM!SafeNext, FSM!TCLS, FSM!Dual, FSM!DCLS, FSM!LOCKSTEP
<1>2. FSM!SwitchToSingle # {}
  BY OnlyInSignals
<1>3. FSM!SingleNext = "SINGLE_RUN"
  BY <1>2 DEF FSM!SingleNext, FSM!SingleMayStart, FSM!Ends, FSM!RunStopped, FSM!RunToTmr,
              FSM!RunToDmr, FSM!TCLS, FSM!Dual, FSM!DCLS, FSM!LOCKSTEP
<1> QED BY <1>1, <1>3, ClockMachines DEF General

LEMMA FromHandover ==
  ASSUME NEW m, Base(m), Common0, Handover(m), Next, VotedUse
  PROVE  \E n \in Hart : Base(n)' /\ Phase(n)'
<1>1. /\ safe = "SINGLE_MODE" /\ single \in {"SINGLE_IDLE", "SINGLE_RUN"} /\ OnlyIn(m, "TMR_END_SYNC")
      /\ m \in Hart /\ master_core = {m} /\ DualOff /\ TypeOK /\ Going
      /\ core \in [Hart -> CoreState] /\ Returnable(core[m]) /\ OthersRest(m)
      /\ Leads(core[m].op, 0) /\ master_core_ff = {m} /\ safe_configuration = 0
      /\ ~initial_sync_master
      /\ \/ Dozing(core[m], "stop_wfi")
         \/ Handling(core[m], {"sync_ack", "sync_unack"}) /\ core[m].ret = "call_end"
      /\ single = "SINGLE_IDLE" => core[m].loc # "sync_unack"
  BY HartIs DEF Base, TypeOK, CoreState, Common0, Handover, HandedOver, General, Unsynced,
                Dozing, Handling
<1>2. /\ FSM!Interrupt_Sync = {m} /\ FSM!Interrupt_swResync = {} /\ FSM!Interrupt_Halt = {}
      /\ \A h \in Hart : tmr[h] = IF h = m THEN "TMR_END_SYNC" ELSE "TMR_IDLE"
      /\ ~Voting /\ NoHalt
  BY <1>1, OnlyInSignals DEF FSM!TmrVoting, NoHalt
<1>3. host = "wait" /\ ~irq /\ start /\ ~end_sw_routine
  BY <1>1, Waits
<1>4. Waking(core[m], "stop_wfi") /\ core[m] \in CoreState
  BY <1>1 DEF Waking, Behind
<1>5. PICK wr : AloneStep(m, wr)
  BY <1>1, <1>2, <1>3, AloneTurns
<1>6. /\ wr.reg = "NONE" /\ core'[m].op = core[m].op
      /\ \/ Dozing(core'[m], "stop_wfi") /\ core'[m] = core[m]
         \/ /\ Handling(core'[m], HandlerLoc) /\ core'[m].ret = "call_end"
            /\ Dozing(core[m], "stop_wfi") => core'[m].loc = "sync_ack"
            /\ core[m].loc = "sync_ack" => core'[m].loc \in {"sync_ack", "sync_unack"}
            /\ core[m].loc = "sync_unack" => core'[m].loc \in {"sync_unack", "mret"}
  BY <1>1, <1>2, <1>4, <1>5, MasterWoken
<1>7. Clock(wr) /\ Ticks(wr) /\ Base(m)' /\ ProgramStays /\ OthersRest(m)'
  BY <1>5, <1>6 DEF AloneStep, Ordinary, ProgramStays
<1>8. /\ Going' /\ safe_configuration' = 0 /\ ~initial_sync_master' /\ master_core_ff' = {m}
  BY <1>1, <1>3, <1>6, <1>7, TicksPulse, ClockConfig DEF Loaded
<1>9. Leads(core[m].op, 0)'
  <2>1. \A n : Leads(n, 0)' <=> Leads(n, 0)
    BY <1>7, PlacesStay
  <2> QED BY <1>1, <1>6, <2>1
<1>10. General("SINGLE_MODE", "SINGLE_RUN")'
  BY <1>1, <1>3, <1>7, HandoverGeneral
<1>11. CASE core[m].ack
  <2>1. core[m].loc = "sync_unack"
    BY <1>1, <1>11 DEF Dozing, Handling
  <2>2. AllIn("TMR_IDLE")'
    <3>1. m \in Acked
      BY <1>1, <1>11, HartSignals
    <3>2. \A h \in Hart : FSM!TmrNext(h) = "TMR_IDLE"
      BY <1>1, <1>2, <3>1 DEF FSM!TmrNext, FSM!Leaves
    <3> QED BY <1>7, <3>2, ClockMachines DEF AllIn
  <2>3. Handling(core'[m], {"sync_unack", "mret"}) /\ core'[m].ret = "call_end"
    <3>1. ~Dozing(core[m], "stop_wfi")
      BY <1>11 DEF Dozing
    <3> QED BY <1>6, <2>1, <3>1 DEF Handling
  <2>4. Alone(core[m])'
    BY <1>8, <1>9, <2>3 DEF Alone, Handling
  <2>5. SingleRun(m)'
    BY <1>7, <1>8, <1>10, <2>2, <2>4 DEF SingleRun, Unsynced
  <2> QED BY <1>1, <1>7, <2>5 DEF Phase
<1>12. CASE ~core[m].ack
  <2>1. OnlyIn(m, "TMR_END_SYNC")'
    <3>1. m \notin Acked
      BY <1>1, <1>12, HartSignals
    <3>2. \A h \in Hart : FSM!TmrNext(h) = IF h = m THEN "TMR_END_SYNC" ELSE "TMR_IDLE"
      BY <1>1, <1>2, <3>1 DEF FSM!TmrNext, FSM!Leaves
    <3> QED BY <1>7, <3>2, ClockMachines DEF OnlyIn
  <2>2. Dozing(core[m], "stop_wfi") \/ core[m].loc = "sync_ack"
    BY <1>1, <1>12 DEF Handling
  <2>3. \/ Dozing(core'[m], "stop_wfi")
        \/ Handling(core'[m], {"sync_ack", "sync_unack"}) /\ core'[m].ret = "call_end"
    BY <1>6, <2>2 DEF Handling
  <2>4. HandedOver(m, "SINGLE_RUN", {"sync_ack", "sync_unack"})'
    BY <1>7, <1>8, <1>9, <1>10, <2>1, <2>3 DEF HandedOver, Dozing, Handling, Unsynced
  <2>5. Handover(m)'
    BY <2>4 DEF Handover
  <2> QED BY <1>1, <1>7, <2>5 DEF Phase
<1> QED BY <1>11, <1>12

\* A program that starts in the voted mode.
LEMMA FromVotedStart ==
  ASSUME NEW m, Base(m), Common0, VotedStart(m), Next, VotedUse
  PROVE  \E n \in Hart : Base(n)' /\ Phase(n)'
<1>1. /\ General("TMR_MODE", "SINGLE_IDLE") /\ AllIn("TMR_START")
      /\ safe = "TMR_MODE" /\ single = "SINGLE_IDLE"
      /\ m \in Hart /\ master_core = {m} /\ DualOff /\ TypeOK /\ 0 \in Hart
      /\ core \in [Hart -> CoreState] /\ master_core_ff = {m} /\ Going /\ ~initial_sync_master
      /\ safe_configuration = 1 /\ job.conf = 1
      /\ \/ AllRest
         \/ Together /\ Halting(core[0], {"debug_entry"}) /\ external_debug_req = 2
  BY HartIs DEF Base, TypeOK, CoreState, Common0, VotedStart, General, Unsynced
<1>2. /\ FSM!Interrupt_Sync = {} /\ FSM!Interrupt_swResync = {} /\ FSM!Interrupt_Halt = Hart
      /\ \A h \in Hart : tmr[h] = "TMR_START"
      /\ Voting /\ FSM!Start_Boot /\ NoInterrupt
  BY <1>1, AllInSignals DEF FSM!TmrVoting, NoInterrupt
<1>3. host = "wait" /\ ~irq /\ ~end_sw_routine
  BY <1>1, Waits
<1>4. \A g, h \in Hart : core[g].mode = core[h].mode
  BY <1>1 DEF Together, AllRest, Resting
<1>5. PICK wr : AllStep(m, wr)
  BY <1>2, <1>3, <1>4, AllTurns
<1>6. Clock(wr)
  BY <1>5 DEF AllStep
<1>7. General("TMR_MODE", "SINGLE_IDLE")'
  BY <1>1, <1>6, VotedGeneral DEF FSM!TmrVoting
<1>8. external_debug_req' = 2
  BY <1>1, <1>2, <1>6, ClockConfig
\* With a write to no register.
<1>9. ASSUME wr.reg = "NONE"
      PROVE  /\ Base(m)' /\ Going' /\ safe_configuration' = 1 /\ ~initial_sync_master'
             /\ master_core_ff' = {m} /\ job' = job
  <2>1. Ticks(wr) /\ Base(m)' /\ job' = job
    BY <1>5, <1>9 DEF AllStep, Ordinary, ProgramStays
  <2> QED BY <1>1, <1>3, <1>6, <1>9, <2>1, TicksPulse, ClockConfig DEF Loaded
<1>10. CASE AllRest
  <2>1. /\ wr.reg = "NONE"
        /\ \/ AllRest'
           \/ Together' /\ Halting(core'[0], {"debug_entry"})
    <3>1. CASE Silently(wr, safe_copy') /\ \A h \in Hart : core'[h] = core[h]
      BY <1>10, <3>1, WritesRegister DEF AllRest, Resting
    <3>2. ASSUME NEW d, \A h \in Hart : core'[h] = d /\ Moves(h, core[h], d, wr)
          PROVE  wr.reg = "NONE" /\ Together' /\ Halting(core'[0], {"debug_entry"})
      <4>1. Moves(0, core[0], d, wr) /\ core[0].mode = "sleep"
        BY <1>1, <1>10, <3>2 DEF AllRest, Resting
      <4>2. ~Does(core[0], d, wr, safe_copy')
        BY <4>1, RomAt
      <4>3. d = HaltedAs /\ Silently(wr, safe_copy')
        BY <1>2, <4>1, <4>2 DEF Moves
      <4>4. Halting(d, {"debug_entry"})
        BY <4>3 DEF HaltedAs, Rec, Halting
      <4> QED BY <1>1, <3>2, <4>3, <4>4, WritesRegister DEF Together
    <3> QED BY <1>5, <3>1, <3>2 DEF AllStep
  <2>2. AllIn("TMR_START")'
    <3>1. \A h \in Hart : h \notin Halted
      BY <1>10, HartSignals DEF AllRest, Resting
    <3>2. \A h \in Hart : FSM!TmrNext(h) = "TMR_START"
      BY <1>2, <3>1 DEF FSM!TmrNext
    <3> QED BY <1>6, <3>2, ClockMachines DEF AllIn
  <2>3. VotedStart(m)'
    BY <1>1, <1>7, <1>8, <1>9, <2>1, <2>2 DEF VotedStart, Halting, Unsynced
  <2> QED BY <1>1, <1>9, <2>1, <2>3 DEF Phase
<1>11. CASE Together /\ Halting(core[0], {"debug_entry"}) /\ external_debug_req = 2
  <2>0. OneStep(wr)
    BY <1>5, <1>11, AllAsOne
  <2>1. wr.reg = "NONE" /\ Halting(core'[0], {"debug_entry", "single_boot"})
    <3>1. CASE core'[0] = core[0] /\ Silently(wr, safe_copy')
      BY <1>11, <3>1, WritesRegister DEF Halting
    <3>2. CASE Moves(0, core[0], core'[0], wr)
      <4>1. 0 \in Halted
        BY <1>1, <1>11, HartSignals DEF Halting
      <4>2. Does(core[0], core'[0], wr, safe_copy')
        BY <1>2, <3>2, <4>1 DEF Moves
      <4>3. core'[0] = Goes(core[0], "single_boot") /\ Silently(wr, safe_copy')
        BY <1>11, <4>2, RomAt DEF Halting, Entry
      <4> QED BY <1>1, <1>11, <4>3, WritesRegister, GoesTyped DEF Halting, Loc, RomLoc
    <3> QED BY <2>0, <3>1, <3>2 DEF OneStep
  <2>2. AllIn("TMR_BOOT")'
    <3>1. \A h \in Hart : h \in Halted
      BY <1>1, <1>11, HartSignals DEF Together, Halting
    <3>2. \A h \in Hart : FSM!TmrNext(h) = "TMR_BOOT"
      BY <1>2, <3>1 DEF FSM!TmrNext
    <3> QED BY <1>6, <3>2, ClockMachines DEF AllIn
  <2>3. VotedBoot(m)'
    BY <1>1, <1>7, <1>8, <1>9, <2>0, <2>1, <2>2 DEF VotedBoot, OneStep, Halting, Unsynced
  <2> QED BY <1>1, <1>9, <2>1, <2>3 DEF Phase
<1> QED BY <1>1, <1>10, <1>11

LEMMA FromVotedBoot ==
  ASSUME NEW m, Base(m), Common0, VotedBoot(m), Next, VotedUse
  PROVE  \E n \in Hart : Base(n)' /\ Phase(n)'
<1>1. /\ General("TMR_MODE", "SINGLE_IDLE") /\ AllIn("TMR_BOOT") /\ Together
      /\ safe = "TMR_MODE" /\ single = "SINGLE_IDLE"
      /\ m \in Hart /\ master_core = {m} /\ DualOff /\ TypeOK /\ 0 \in Hart
      /\ core[0] \in CoreState /\ Returnable(core[0])
      /\ master_core_ff = {m} /\ Going /\ ~initial_sync_master
      /\ safe_configuration = 1 /\ job.conf = 1
      /\ \/ Halting(core[0], {"debug_entry", "single_boot"}) /\ external_debug_req = 2
         \/ Doing(core[0], "crt0") /\ core[0].op = 1
  BY HartIs DEF Base, TypeOK, CoreState, Common0, VotedBoot, General, Unsynced
<1>2. /\ FSM!Interrupt_Sync = {} /\ FSM!Interrupt_swResync = {} /\ FSM!Interrupt_Halt = {}
      /\ \A h \in Hart : tmr[h] = "TMR_BOOT"
      /\ Voting /\ FSM!Start_Boot /\ NoInterrupt /\ NoHalt
      /\ FSM!TmrErrorNext = [seen |-> FALSE, pending |-> FALSE]
  BY <1>1, AllInSignals DEF FSM!TmrVoting, NoInterrupt, NoHalt
<1>3. host = "wait" /\ ~irq /\ ~end_sw_routine
  BY <1>1, Waits
<1>4. \A g, h \in Hart : core[g].mode = core[h].mode
  BY <1>1 DEF Together
<1>5. PICK wr : AllStep(m, wr)
  BY <1>2, <1>3, <1>4, AllTurns
<1>6. Clock(wr) /\ OneStep(wr)
  BY <1>1, <1>5, AllAsOne DEF AllStep
<1>7. General("TMR_MODE", "SINGLE_IDLE")'
  BY <1>1, <1>6, VotedGeneral DEF FSM!TmrVoting
<1>8. \/ core'[0] = core[0] /\ Silently(wr, safe_copy')
      \/ ~mismatch' /\ Does(core[0], core'[0], wr, safe_copy')
  BY <1>2, <1>6, MovesDoes DEF OneStep
<1>9. CASE Halting(core[0], {"debug_entry", "single_boot"}) /\ external_debug_req = 2
  <2>1. /\ wr.reg = "NONE"
        /\ \/ Halting(core'[0], {"debug_entry", "single_boot"})
           \/ Doing(core'[0], "crt0") /\ core'[0].op = 1
    <3>1. CASE core'[0] = core[0] /\ Silently(wr, safe_copy')
      BY <1>9, <3>1, WritesRegister
    <3>2. CASE Does(core[0], core'[0], wr, safe_copy') /\ core[0].loc = "debug_entry"
      <4>1. core'[0] = Goes(core[0], "single_boot") /\ Silently(wr, safe_copy')
        BY <1>9, <3>2, RomAt DEF Entry
      <4> QED BY <1>1, <1>9, <4>1, WritesRegister, GoesTyped DEF Halting, Loc, RomLoc
    <3>3. CASE Does(core[0], core'[0], wr, safe_copy') /\ core[0].loc = "single_boot"
      <4>1. core'[0] = Rec("run", "crt0", 1, core[0].ret, core[0].ack) /\ wr.reg = "NONE"
        BY <3>3, RomAt, WritesRegister
      <4>2. Doing(core'[0], "crt0") /\ core'[0].op = 1
        BY <1>9, <4>1 DEF Rec, Halting, Doing
      <4> QED BY <4>1, <4>2
    <3> QED BY <1>8, <1>9, <3>1, <3>2, <3>3 DEF Halting
  <2>2. AllIn("TMR_BOOT")'
    <3>1. \A h \in Hart : h \in Halted
      BY <1>1, <1>9, HartSignals DEF Together, Halting
    <3>2. \A h \in Hart : FSM!TmrNext(h) = "TMR_BOOT"
      BY <1>2, <3>1 DEF FSM!TmrNext
    <3> QED BY <1>6, <3>2, ClockMachines DEF AllIn
  <2>3. Ticks(wr) /\ Base(m)' /\ job' = job
    BY <1>5, <2>1 DEF AllStep, Ordinary, ProgramStays
  <2>4. /\ Going' /\ safe_configuration' = 1 /\ ~initial_sync_master'
        /\ master_core_ff' = {m} /\ external_debug_req' = 2
    BY <1>1, <1>2, <1>3, <1>6, <2>1, <2>3, TicksPulse, ClockConfig DEF Loaded
  <2>5. VotedBoot(m)'
    BY <1>1, <1>6, <1>7, <2>1, <2>2, <2>3, <2>4 DEF VotedBoot, OneStep, Halting, Doing, Unsynced
  <2> QED BY <1>1, <2>3, <2>5 DEF Phase
<1>10. CASE Doing(core[0], "crt0") /\ core[0].op = 1
  <2>1. VotedRun(core[0]) /\ ~FSM!AllAsleep /\ core[0].loc \notin {"stop_wfi", "exit_wfi"}
    <3>1. core[0].mode = "run" /\ core[0].loc = "crt0"
      BY <1>10 DEF Doing
    <3>2. VotedRun(core[0])
      BY <1>1, <1>10, <3>1 DEF VotedRun, Voted
    <3> QED BY <1>1, <3>1, <3>2, HartSignals
  <2>2. /\ VotedRun(core[0])'
        /\ mismatch' => core'[0] = core[0]
    <3>1. CASE core'[0] = core[0] /\ Silently(wr, safe_copy')
      <4>1. VotedRun(core[0])'
        BY <1>5, <2>1, <3>1, VotedWaits, WritesRegister
      <4> QED BY <3>1, <4>1
    <3>2. CASE ~mismatch' /\ Does(core[0], core'[0], wr, safe_copy')
      BY <1>1, <1>5, <2>1, <3>2, VotedGoes
    <3> QED BY <1>8, <3>1, <3>2
  <2>3. AllIn("TMR_SYNC")'
    <3>1. \A h \in Hart : h \notin Halted
      BY <1>1, <1>10, HartSignals DEF Together, Doing
    <3>2. \A h \in Hart : FSM!TmrNext(h) = "TMR_SYNC"
      BY <1>2, <3>1 DEF FSM!TmrNext
    <3> QED BY <1>6, <3>2, ClockMachines DEF AllIn
  <2>4. ~tmr_error_ff'.pending
    BY <1>2, <1>6, ClockMachines
  <2>5. mismatch' => core'[0].mode = "run" /\ core'[0].loc \notin {"stop_wfi", "exit_wfi"}
    BY <1>10, <2>1, <2>2 DEF Doing
  <2>6. PICK n \in Hart : Base(n)'
    BY <1>5 DEF AllStep
  <2>7. Sync(n)'
    BY <1>6, <1>7, <2>2, <2>3, <2>4, <2>5 DEF Sync, OneStep
  <2> QED BY <2>6, <2>7 DEF Phase
<1> QED BY <1>1, <1>9, <1>10

(***************************************************************************)
(* The invariant.                                                          *)
(***************************************************************************)
LEMMA VotedInit == Init => VotedInv
<1> SUFFICES ASSUME Init PROVE Base(0) /\ Phase(0)
  BY VotedIs, HartIs
<1>1. WrapperInit /\ SoftwareInit /\ CtrlInit /\ FSM!FsmInit
  BY DEF Init, WrapperInit
<1>2. TypeOK
  <2>1. FSM!FsmTypeOK
    BY <1>1 DEF FSM!FsmInit, FSM!FsmTypeOK, FSM!SafeState, FSM!SingleState, FSM!TmrState, FSM!DmrState
  <2>2. core \in [FSM!Hart -> [mode : {"run", "sleep", "debug"}, loc : Loc, op : Nat,
                               ret : ProgramLoc \cup {"none"}, ack : BOOLEAN]]
    BY <1>1 DEF SoftwareInit, Loc, RomLoc
  <2>3. /\ safe_configuration \in FSM!Configuration
        /\ dmr_mask \subseteq FSM!Hart
        /\ \E h \in FSM!Hart : master_core = {h}
        /\ \E h \in FSM!Hart : master_core_ff = {h}
        /\ interrupt_controler \in [enable : BOOLEAN, status : BOOLEAN]
        /\ external_debug_req \in 0..3
    <3>1. master_core = {0} /\ master_core_ff = {0} /\ 0 \in FSM!Hart
      BY <1>1, HartIs DEF CtrlInit, WrapperInit
    <3>2. /\ safe_configuration \in FSM!Configuration
          /\ dmr_mask \subseteq FSM!Hart
          /\ external_debug_req \in 0..3
      BY <1>1 DEF CtrlInit, FSM!Configuration, FSM!SINGLE
    <3>3. interrupt_controler \in [enable : BOOLEAN, status : BOOLEAN]
      BY <1>1 DEF CtrlInit
    <3> QED BY <3>1, <3>2, <3>3
  <2>4. /\ start \in BOOLEAN /\ end_sw_routine \in BOOLEAN /\ dmr_rec \in BOOLEAN
        /\ critical_section \in BOOLEAN /\ initial_sync_master \in BOOLEAN
        /\ Startff \in BOOLEAN /\ Start_Flag \in BOOLEAN /\ en_sw_routineff \in BOOLEAN
        /\ interrupt \in BOOLEAN /\ flag_intc \in BOOLEAN /\ mismatch \in BOOLEAN
        /\ irq \in BOOLEAN /\ host = "choose"
    BY <1>1 DEF CtrlInit, WrapperInit, Init
  <2> QED BY <2>1, <2>2, <2>3, <2>4 DEF TypeOK
<1>3. VotedJob(job)
  <2>1. job.program = <<>> /\ <<>> \in Seq(ProgramCall) /\ Len(<<>>) = 0
    BY DEF Init
  <2> QED BY <2>1, HartIs DEF VotedJob, Init, FSM!SINGLE, FSM!TCLS
<1>4. Base(0)
  BY <1>1, <1>2, <1>3, HartIs
     DEF Base, CtrlInit, SoftwareInit, Init, CopyType, ProgramLoc, Returnable, HandlerLoc, FSM!FsmInit
<1>5. Protocol!Free
  BY <1>1 DEF Protocol!Free, Protocol!Silent, Protocol!status, Init, CtrlInit
<1>6. Reset(0)
  BY <1>1, <1>5, HartIs
     DEF Reset, General, AllIn, Fresh, Unsynced, Init, SoftwareInit, CtrlInit, FSM!FsmInit
<1> QED BY <1>4, <1>6 DEF Phase

LEMMA VotedNext == ASSUME VotedInv, Next, VotedUse PROVE VotedInv'
<1>1. PICK m \in Hart : Base(m) /\ Phase(m)
  BY VotedIs
<1>2. Common0
  BY <1>1, PhasesCommon
<1>3. \E n \in Hart : Base(n)' /\ Phase(n)'
  <2>1. CASE Reset(m) \/ Boot(m) \/ Idle(m)
    BY <1>1, <1>2, <2>1, FromReset, FromBoot, FromIdle
  <2>2. CASE SingleEntry(m) \/ VotedEntry(m) \/ SingleEnd(m) \/ VotedEnd(m)
    BY <1>1, <1>2, <2>2, FromSingleEntry, FromVotedEntry, FromEnd
  <2>3. CASE SingleStart(m) \/ SingleRun(m) \/ Leaving(m)
    BY <1>1, <1>2, <2>3, FromSingleStart, FromSingleRun, FromLeaving
  <2>4. CASE MasterWaits(m) \/ Calling(m) \/ HaltOthers(m)
    BY <1>1, <1>2, <2>4, FromMasterWaits, FromCalling, FromHaltOthers
  <2>5. CASE Join(m) \/ Joined(m) \/ Sync(m)
    BY <1>1, <1>2, <2>5, FromJoin, FromJoined, FromSync
  <2>6. CASE Repair(m) \/ Repaired(m) \/ Parting(m)
    BY <1>1, <1>2, <2>6, FromRepair, FromRepaired, FromParting
  <2>7. CASE Handover(m) \/ VotedStart(m) \/ VotedBoot(m)
    BY <1>1, <1>2, <2>7, FromHandover, FromVotedStart, FromVotedBoot
  <2> QED BY <1>1, <2>1, <2>2, <2>3, <2>4, <2>5, <2>6, <2>7 DEF Phase
<1> QED BY <1>3 DEF VotedInv, Base, CopyType

\* A step that changes nothing leaves a phase and its parts as they are.
LEMMA ProtocolIdle ==
  ASSUME UNCHANGED vars
  PROVE  /\ Protocol!Free' <=> Protocol!Free
         /\ Protocol!Launched' <=> Protocol!Launched
         /\ Early' <=> Early
         /\ Starting' <=> Starting
         /\ Going' <=> Going
         /\ Over' <=> Over
         /\ Protocol!Ended' <=> Protocol!Ended
         /\ Due' <=> Due
         /\ Pulse' <=> Pulse
<1>1. /\ ctrlVars' = ctrlVars /\ configVars' = configVars /\ jobVars' = jobVars
      /\ host' = host /\ irq' = irq /\ job' = job /\ core' = core
  BY DEF vars, wrapperVars, ctrlVars, softwareVars
<1>2. FSM!AllAsleep' <=> FSM!AllAsleep
  BY <1>1 DEF FSM!AllAsleep, Asleep
<1> QED BY <1>1, <1>2
    DEF configVars, jobVars, Protocol!Free, Protocol!Launched, Protocol!Accepted, Protocol!Running,
        Protocol!Ending, Protocol!Ended, Protocol!Signalled, Protocol!Silent, Protocol!status,
        Early, Starting, Going, Over, Due, Pulse

LEMMA BaseIdle ==
  ASSUME NEW m, Base(m), UNCHANGED vars
  PROVE  Base(m)'
<1>1. TypeOK'
  <2>1. TypeOK
    BY DEF Base
  <2> QED BY <2>1, Zenon DEF TypeOK, FSM!FsmTypeOK, vars, wrapperVars, ctrlVars, configVars, jobVars, fsmVars,
                             softwareVars
<1>2. /\ safe' = safe /\ dmr' = dmr /\ delay_ff' = delay_ff /\ dmr_rec' = dmr_rec /\ host' = host
      /\ safe_copy' = safe_copy /\ core' = core /\ program' = program /\ job' = job
      /\ safe_configuration' = safe_configuration /\ interrupt_controler' = interrupt_controler
      /\ master_core' = master_core
  BY DEF vars, wrapperVars, ctrlVars, configVars, jobVars, fsmVars, softwareVars
<1>3. \A h : Returnable(core[h])' <=> Returnable(core[h])
  BY <1>2 DEF Returnable
<1> QED BY <1>1, <1>2, <1>3 DEF Base

LEMMA HartsIdle ==
  ASSUME UNCHANGED vars
  PROVE  /\ \A c : Alone(c)' <=> Alone(c)
         /\ \A c : Saving(c)' <=> Saving(c)
         /\ \A c, n : Joining(c, n)' <=> Joining(c, n)
         /\ \A c : VotedRun(c)' <=> VotedRun(c)
         /\ \A c : VotedSleep(c)' <=> VotedSleep(c)
         /\ \A n, md : Leads(n, md)' <=> Leads(n, md)
<1>1. ProgramStays
  BY DEF vars, softwareVars, ProgramStays
<1>2. /\ external_debug_req' = external_debug_req /\ safe_configuration' = safe_configuration
      /\ initial_sync_master' = initial_sync_master /\ critical_section' = critical_section
      /\ job' = job /\ safe_copy' = safe_copy
  BY DEF vars, wrapperVars, ctrlVars, configVars, softwareVars
<1>3. \A n, md : Leads(n, md)' <=> Leads(n, md)
  BY <1>1, PlacesStay
<1>4. \A p, n : Voted(p, n)' <=> Voted(p, n)
  BY <1>1, <1>2, PlacesStay, ProtocolIdle DEF Voted
<1>5. \A c : Alone(c)' <=> Alone(c)
  BY <1>1, <1>2, PlacesStay, ProtocolIdle DEF Alone
<1>6. \A c : Saving(c)' <=> Saving(c)
  BY <1>2, <1>3 DEF Saving
<1>7. \A c, n : Joining(c, n)' <=> Joining(c, n)
  BY <1>2 DEF Joining
<1>8. \A c : VotedRun(c)' <=> VotedRun(c)
  BY <1>4 DEF VotedRun
<1>9. \A c : VotedSleep(c)' <=> VotedSleep(c)
  BY <1>4, ProtocolIdle DEF VotedSleep
<1> QED BY <1>3, <1>5, <1>6, <1>7, <1>8, <1>9

LEMMA PhaseIdle ==
  ASSUME NEW m, Phase(m), UNCHANGED vars
  PROVE  Phase(m)'
<1>1. /\ safe' = safe /\ single' = single /\ tmr' = tmr /\ dmr' = dmr
      /\ tmr_error_ff' = tmr_error_ff /\ mismatch' = mismatch
      /\ core' = core /\ job' = job /\ program' = program /\ host' = host
      /\ master_core_ff' = master_core_ff /\ external_debug_req' = external_debug_req
      /\ safe_configuration' = safe_configuration
      /\ initial_sync_master' = initial_sync_master /\ critical_section' = critical_section
  BY DEF vars, wrapperVars, ctrlVars, configVars, fsmVars, softwareVars
<1>2. CASE Reset(m) \/ Boot(m) \/ Idle(m) \/ SingleEntry(m) \/ SingleEnd(m)
  <2>1. /\ Reset(m) => Reset(m)'
        /\ Boot(m) => Boot(m)'
        /\ Idle(m) => Idle(m)'
        /\ SingleEntry(m) => SingleEntry(m)'
        /\ SingleEnd(m) => SingleEnd(m)'
    BY <1>1, ProtocolIdle
       DEF Reset, Boot, Idle, SingleEntry, SingleEnd, General, AllIn, Unsynced, AllRest
  <2> QED BY <1>2, <2>1 DEF Phase
<1>3. CASE SingleStart(m) \/ SingleRun(m) \/ Leaving(m) \/ MasterWaits(m) \/ Calling(m)
  <2>1. /\ SingleStart(m) => SingleStart(m)'
        /\ SingleRun(m) => SingleRun(m)'
        /\ Leaving(m) => Leaving(m)'
        /\ MasterWaits(m) => MasterWaits(m)'
        /\ Calling(m) => Calling(m)'
    BY <1>1, ProtocolIdle, HartsIdle
       DEF SingleStart, SingleRun, Leaving, MasterWaits, Calling, General, AllIn, OnlyIn, Unsynced,
           OthersRest, Saved
  <2> QED BY <1>3, <2>1 DEF Phase
<1>4. CASE HaltOthers(m) \/ Join(m) \/ Joined(m)
  <2>1. /\ HaltOthers(m) => HaltOthers(m)'
        /\ Join(m) => Join(m)'
        /\ Joined(m) => Joined(m)'
    BY <1>1, ProtocolIdle, HartsIdle
       DEF HaltOthers, Join, Joined, General, AllIn, OthersRest, OthersAgree, Saved, Together
  <2> QED BY <1>4, <2>1 DEF Phase
<1>5. CASE Sync(m) \/ Repair(m) \/ Repaired(m)
  <2>1. /\ Sync(m) => Sync(m)'
        /\ Repair(m) => Repair(m)'
        /\ Repaired(m) => Repaired(m)'
    BY <1>1, HartsIdle DEF Sync, Repair, Repaired, General, AllIn, Together
  <2> QED BY <1>5, <2>1 DEF Phase
<1>6. CASE Parting(m) \/ Handover(m)
  <2>1. /\ Parting(m) => Parting(m)'
        /\ Handover(m) => Handover(m)'
    BY <1>1, ProtocolIdle, HartsIdle
       DEF Parting, Handover, HandedOver, General, AllIn, OnlyIn, OthersRest, Unsynced
  <2> QED BY <1>6, <2>1 DEF Phase
<1>7. CASE VotedEntry(m) \/ VotedStart(m) \/ VotedBoot(m) \/ VotedEnd(m)
  <2>1. /\ VotedEntry(m) => VotedEntry(m)'
        /\ VotedStart(m) => VotedStart(m)'
        /\ VotedBoot(m) => VotedBoot(m)'
        /\ VotedEnd(m) => VotedEnd(m)'
    BY <1>1, ProtocolIdle
       DEF VotedEntry, VotedStart, VotedBoot, VotedEnd, General, AllIn, AllRest, Together, Unsynced
  <2> QED BY <1>7, <2>1 DEF Phase
<1> QED BY <1>2, <1>3, <1>4, <1>5, <1>6, <1>7 DEF Phase

LEMMA VotedIdle == ASSUME VotedInv, UNCHANGED vars PROVE VotedInv'
<1>1. PICK m \in Hart : Base(m) /\ Phase(m)
  BY VotedIs
<1>2. Base(m)' /\ Phase(m)'
  BY <1>1, BaseIdle, PhaseIdle
<1> QED BY <1>2 DEF VotedInv, Base, CopyType

\* In every reachable state one of the phases holds, however the harts, the
\* host, the faults and the edges of the clock interleave, and however many
\* programs of whatever length the host starts.
THEOREM VotedInvariant ==
  ASSUME VotedUse
  PROVE  Spec => []VotedInv
<1>1. Init => VotedInv
  BY VotedInit
<1>2. VotedInv /\ [Next]_vars => VotedInv'
  BY VotedNext, VotedIdle
<1> QED BY <1>1, <1>2, PTL DEF Spec

(***************************************************************************)
(* What the phases promise.  In most of them nobody executes the program;  *)
(* in the others the master does so alone, or all harts are voted.         *)
(***************************************************************************)
Nobody == \A h \in Hart : /\ core[h].mode = "run" => core[h].loc = "wfi_entry"
                          /\ core[h].loc \notin {"debugger", "single_boot", "halt_boot"}
Lonely(m) == /\ SingleRun(m) \/ Leaving(m) \/ Handover(m)
             /\ OthersRest(m) /\ ~Voting
Joins(m) == Join(m) /\ Voting
AsOne(m) == /\ Joined(m) \/ Sync(m) \/ Repair(m) \/ Repaired(m) \/ VotedBoot(m)
            /\ Together /\ Voting

LEMMA LonelyIs ==
  ASSUME NEW m, Base(m), Common0, SingleRun(m) \/ Leaving(m) \/ Handover(m)
  PROVE  Lonely(m)
<1>1. m \in Hart /\ master_core = {m} /\ DualOff
  BY DEF Base, Common0
<1>2. CASE SingleRun(m) \/ Leaving(m)
  <2>1. AllIn("TMR_IDLE") /\ safe # "BOOT"
    BY <1>2 DEF SingleRun, Leaving, General
  <2> QED BY <1>1, <1>2, <2>1, AllInSignals DEF Lonely, SingleRun, Leaving, FSM!TmrVoting
<1>3. CASE Handover(m)
  <2>1. OnlyIn(m, "TMR_END_SYNC") /\ safe # "BOOT" /\ single # "SINGLE_START" /\ OthersRest(m)
    BY <1>3 DEF Handover, HandedOver, General
  <2> QED BY <1>1, <1>3, <2>1, OnlyInSignals DEF Lonely, FSM!TmrVoting
<1> QED BY <1>2, <1>3

LEMMA Shapes ==
  ASSUME NEW m, Base(m), Common0, Phase(m)
  PROVE  Nobody \/ Lonely(m) \/ Joins(m) \/ AsOne(m)
<1>1. CASE Reset(m) \/ Boot(m) \/ Idle(m) \/ SingleEntry(m) \/ SingleEnd(m) \/ VotedEntry(m) \/ VotedEnd(m)
  BY <1>1 DEF Nobody, Reset, Boot, Idle, SingleEntry, SingleEnd, VotedEntry, VotedEnd, Fresh, AllRest,
              Resting, Dozing
<1>2. CASE SingleStart(m) \/ MasterWaits(m) \/ Calling(m) \/ HaltOthers(m)
  <2>1. \/ core[m].mode # "run" /\ core[m].loc \in {"wfi_entry", "stop_wfi", "exit_wfi", "debug_entry"}
        \/ core[m].mode # "run" /\ core[m].loc = "act_wfi"
    BY <1>2 DEF SingleStart, MasterWaits, Calling, HaltOthers, Saved, Saving, Resting, Halting
  <2>2. \A h \in Hart \ {m} : /\ core[h].mode # "run"
                              /\ core[h].loc \in {"wfi_entry", "stop_wfi", "exit_wfi", "debug_entry"}
    BY <1>2 DEF SingleStart, MasterWaits, Calling, HaltOthers, OthersRest, Resting, Halting
  <2> QED BY <2>1, <2>2 DEF Nobody
<1>3. CASE Parting(m) \/ VotedStart(m)
  <2>1. \A h \in Hart : /\ core[h].mode # "run"
                        /\ core[h].loc \in {"wfi_entry", "stop_wfi", "exit_wfi", "debug_entry"}
    BY <1>3, HartIs DEF Parting, VotedStart, AllRest, Resting, Together, Halting, Dozing
  <2> QED BY <2>1 DEF Nobody
<1>4. m \in Hart /\ master_core = {m} /\ DualOff
  BY DEF Base, Common0
<1>5. CASE SingleRun(m) \/ Leaving(m) \/ Handover(m)
  BY <1>5, LonelyIs
<1>7. CASE Join(m)
  <2>1. AllIn("TMR_WAIT_SH")
    BY <1>7 DEF Join
  <2> QED BY <1>4, <1>7, <2>1, AllInSignals DEF Joins, FSM!TmrVoting
<1>8. CASE Joined(m) \/ Sync(m) \/ Repair(m) \/ Repaired(m) \/ VotedBoot(m)
  <2>1. Together
    BY <1>8 DEF Joined, Sync, Repair, Repaired, VotedBoot
  <2>2. PICK t \in FSM!TmrVoting : AllIn(t)
    BY <1>8 DEF Joined, Sync, Repair, Repaired, VotedBoot, FSM!TmrVoting
  <2> QED BY <1>4, <1>8, <2>1, <2>2, AllInSignals DEF AsOne
<1> QED BY <1>1, <1>2, <1>3, <1>5, <1>7, <1>8 DEF Phase

\* Who executes, and who is in the group.
LEMMA Runners ==
  ASSUME NEW m, Base(m), Common0
  PROVE  /\ \A h : h \in Executing => h \in Hart /\ core[h].mode = "run" /\ core[h].loc # "wfi_entry"
         /\ Voting => Group = Hart
         /\ ~Voting => Group = {}
BY NoDual, HartIs DEF Executing, Common0, ProgramLoc, HandlerLoc

LEMMA StreamHolds ==
  ASSUME NEW m, Base(m), Common0, Phase(m)
  PROVE  OneStream
<1>1. CASE Nobody
  BY <1>1, Runners DEF Nobody, OneStream
<1>2. CASE Lonely(m)
  <2>1. \A h \in Executing : h = m
    BY <1>2, Runners DEF Lonely, OthersRest, Resting
  <2> QED BY <2>1 DEF OneStream
<1>3. CASE Voting
  BY <1>3, Runners DEF OneStream
<1> QED BY <1>1, <1>2, <1>3, Shapes DEF Joins, AsOne

LEMMA RecordsAre ==
  ASSUME NEW c \in CoreState, NEW d \in CoreState,
         c.mode = d.mode, c.loc = d.loc, c.op = d.op, c.ret = d.ret, c.ack = d.ack
  PROVE  c = d
BY DEF CoreState

LEMMA GroupHolds ==
  ASSUME NEW m, Base(m), Common0, Phase(m)
  PROVE  GroupAgrees
<1> SUFFICES ASSUME NEW g \in Hart, NEW h \in Hart, Voting,
                    core[g].mode # "sleep", core[h].mode # "sleep"
             PROVE  core[g] = core[h]
  BY Runners DEF GroupAgrees, Awake
<1>a. \A n \in Hart : core[n] \in CoreState
  BY DEF Base, TypeOK, CoreState, Hart
<1>0. core[g] \in CoreState /\ core[h] \in CoreState /\ m \in Hart /\ master_core = {m} /\ DualOff
  BY <1>a DEF Base, Common0
<1>1. CASE Join(m)
  BY <1>1 DEF Join, OthersAgree, Saved
<1>2. CASE Joined(m) \/ Sync(m) \/ Repair(m) \/ Repaired(m) \/ VotedBoot(m)
  BY <1>2 DEF Joined, Sync, Repair, Repaired, VotedBoot, Together
<1>3. CASE Boot(m)
  <2>1. \A n \in Hart : core[n].mode # "sleep" =>
          /\ core[n].mode = "run" /\ core[n].loc = "wfi_entry" /\ core[n].op = 0
          /\ core[n].ret = "none" /\ core[n].ack = FALSE
    BY <1>3, <1>a DEF Boot, Fresh, CoreState
  <2> QED BY <1>0, <2>1, RecordsAre
<1>4. CASE HaltOthers(m)
  BY <1>4 DEF HaltOthers, Saved, OthersRest, OthersAgree, Resting
<1>5. CASE VotedStart(m)
  BY <1>5 DEF VotedStart, AllRest, Resting, Together
<1>6. CASE Calling(m)
  BY <1>6 DEF Calling, Saved, OthersRest, Resting
<1>7. CASE MasterWaits(m)
  BY <1>7 DEF MasterWaits, Saved, OthersRest, Resting
<1>8. CASE Reset(m) \/ Idle(m) \/ SingleEntry(m) \/ SingleStart(m) \/ SingleEnd(m) \/ Parting(m)
           \/ VotedEntry(m) \/ VotedEnd(m)
  <2>1. safe # "BOOT"
    BY <1>8 DEF Reset, Idle, SingleEntry, SingleStart, SingleEnd, Parting, VotedEntry, VotedEnd, General
  <2>2. PICK t \in {"TMR_RESET", "TMR_IDLE", "TMR_END_SYNC"} : AllIn(t)
    BY <1>8 DEF Reset, Idle, SingleEntry, SingleStart, SingleEnd, Parting, VotedEntry, VotedEnd
  <2>3. t \notin FSM!TmrVoting
    BY DEF FSM!TmrVoting
  <2> QED BY <1>0, <2>1, <2>2, <2>3, AllInSignals
<1>9. CASE SingleRun(m) \/ Leaving(m) \/ Handover(m)
  BY <1>9, LonelyIs DEF Lonely
<1> QED BY <1>1, <1>2, <1>3, <1>4, <1>5, <1>6, <1>7, <1>8, <1>9 DEF Phase

\* A hart between two calls is where the mode of the program has brought it.
LEMMA MainIs ==
  ASSUME NEW m, Base(m), Common0, Phase(m), NEW h \in Executing, core[h].loc = "main"
  PROVE  \/ ModeAt(core[h].op) = 0 /\ Group = {}
         \/ ModeAt(core[h].op) = 1 /\ (AllIn("TMR_SYNC") \/ AllIn("TMR_SYNCINTC"))
<1>1. h \in Hart /\ core[h].mode = "run"
  BY Runners
<1>2. CASE Nobody
  BY <1>1, <1>2 DEF Nobody
<1>3. CASE Lonely(m)
  <2>1. h = m /\ Group = {}
    BY <1>1, <1>3, Runners DEF Lonely, OthersRest, Resting
  <2>2. SingleRun(m)
    BY <1>3, <2>1 DEF Lonely, Leaving, Handover, HandedOver, Saving, Dozing, Handling
  <2>3. ModeAt(core[m].op) = 0
    BY <2>1, <2>2 DEF SingleRun, Alone, Halting, Doing, Dozing, Handling, Within1
  <2> QED BY <2>1, <2>3
<1>4. CASE Joins(m)
  <2>1. h # m
    BY <1>1, <1>4 DEF Joins, Join, Saved
  <2> QED BY <1>1, <1>4, <2>1 DEF Joins, Join, Joining, Halting, Doing, Dozing
<1>5. CASE AsOne(m)
  <2>1. core[h] = core[0]
    BY <1>1, <1>5, HartIs DEF AsOne, Together
  <2>2. Sync(m) \/ Repair(m)
    BY <1>1, <1>5, <2>1 DEF AsOne, Joined, Repaired, VotedBoot, Halting, Doing, Dozing, Handling
  <2>3. VotedRun(core[0]) /\ (AllIn("TMR_SYNC") \/ AllIn("TMR_SYNCINTC"))
    BY <1>1, <2>1, <2>2 DEF Sync, Repair, VotedSleep, Dozing
  <2>4. ModeAt(core[0].op) = 1
    BY <2>1, <2>3 DEF VotedRun, Voted, Within1, Doing, Handling, HandlerLoc
  <2> QED BY <2>1, <2>3, <2>4
<1> QED BY <1>2, <1>3, <1>4, <1>5, Shapes

LEMMA WorkHolds ==
  ASSUME NEW m, Base(m), Common0, Phase(m)
  PROVE  WorkIsProtected
<1> SUFFICES ASSUME NEW h \in Executing, core[h].loc = "main"
             PROVE  LET n == ModeAt(core[h].op) IN
                    CASE n = FSM!SINGLE -> Group = {}
                      [] n = FSM!TCLS -> InSync(tmr, {"TMR_SYNC", "TMR_SYNCINTC", "TMR_SWSYNC"})
                      [] OTHER -> Group = dmr_mask /\ (n = FSM!LOCKSTEP => FSM!Delayed)
  BY DEF WorkIsProtected
<1>1. AllIn("TMR_SYNC") \/ AllIn("TMR_SYNCINTC")
        => InSync(tmr, {"TMR_SYNC", "TMR_SYNCINTC", "TMR_SWSYNC"})
  BY DEF AllIn, InSync
<1> QED BY <1>1, MainIs DEF FSM!SINGLE, FSM!TCLS

LEMMA ModesOf ==
  ASSUME NEW m, Base(m)
  PROVE  \A n \in 1..Len(program) : ModeAt(n + 1) = ModeAfter(program[n], ModeAt(n))
<1>1. /\ program \in Seq(ProgramCall) /\ job.conf \in {0, 1}
      /\ \A n \in 1..Len(program) : program[n][1] = Activate => program[n][2] = 1
  BY DEF Base, VotedJob, FSM!SINGLE, FSM!TCLS
<1> QED BY <1>1, ModesAre

LEMMA StopHolds ==
  ASSUME NEW m, Base(m), Common0, Phase(m)
  PROVE  StopLeaves
<1> SUFFICES ASSUME NEW h \in Executing, core[h].loc = "main",
                    core[h].op > 1, core[h].op <= Len(program) + 1,
                    program[core[h].op - 1][1] = Stop
             PROVE  Group = {}
  BY DEF StopLeaves
<1>1. core[h].op \in Nat /\ Len(program) \in Nat
  <2>1. core \in [Hart -> CoreState] /\ h \in Hart
    BY Runners DEF Base, TypeOK, CoreState, Hart
  <2>2. program \in Seq(ProgramCall)
    BY DEF Base, VotedJob
  <2> QED BY <2>1, <2>2 DEF CoreState
<1>2. ModeAt(core[h].op) = 0
  <2>1. core[h].op - 1 \in 1..Len(program) /\ core[h].op - 1 + 1 = core[h].op
    BY <1>1
  <2> QED BY <2>1, ModesOf DEF ModeAfter, Stop, Activate
<1> QED BY <1>2, MainIs

LEMMA BootHolds ==
  ASSUME NEW m, Base(m), Common0, Phase(m)
  PROVE  BootIsRight /\ RestoresOneState
<1>1. m \in Hart /\ master_core = {m} /\ ~dmr_rec
  BY DEF Base
<1>2. CASE Nobody
  BY <1>2 DEF Nobody, BootIsRight, RestoresOneState, Hart
<1>3. CASE Joins(m)
  <2>1. \A h \in Hart : core[h].loc \notin {"debugger", "single_boot"}
    BY <1>3 DEF Joins, Join, Saved, Saving, Joining, Halting, Doing, Dozing
  <2>2. /\ core[m].mode = "sleep" /\ core[m].loc = "act_wfi" /\ initial_sync_master
        /\ safe_copy.context = core[m].op /\ safe_copy.pc = core[m].op
    BY <1>3 DEF Joins, Join, Saved, Saving
  <2> QED BY <1>1, <2>1, <2>2 DEF BootIsRight, RestoresOneState, Hart
<1>4. CASE Lonely(m) \/ AsOne(m)
  <2>1. /\ \A h \in Hart : core[h].loc \notin {"debugger", "halt_boot"}
        /\ \A h \in Hart : core[h].loc = "single_boot" =>
             \A g \in Hart : core[g].mode # "run" /\ core[g].loc \notin {"act_wfi", "halt_boot"}
    <3>1. CASE Lonely(m)
      <4>1. \A h \in Hart \ {m} : /\ core[h].mode = "sleep"
                                  /\ core[h].loc \in {"wfi_entry", "stop_wfi", "exit_wfi"}
        BY <3>1 DEF Lonely, OthersRest, Resting
      <4>2. /\ core[m].loc \notin {"debugger", "halt_boot"}
            /\ core[m].loc = "single_boot" => core[m].mode = "debug"
        BY <3>1 DEF Lonely, SingleRun, Leaving, Handover, HandedOver, Alone, Within1, Saving,
                    Halting, Doing, Dozing, Handling
      <4> QED BY <4>1, <4>2
    <3>2. CASE AsOne(m)
      <4>1. /\ core[0].loc \notin {"debugger", "halt_boot"}
            /\ core[0].loc = "single_boot" => core[0].mode = "debug"
        BY <3>2 DEF AsOne, Joined, Sync, Repair, Repaired, VotedBoot, VotedRun, VotedSleep, Voted, Within1,
                    Halting, Doing, Dozing, Handling, HandlerLoc
      <4>2. \A h \in Hart : core[h] = core[0]
        BY <3>2, HartIs DEF AsOne, Together
      <4> QED BY <4>1, <4>2
    <3> QED BY <1>4, <3>1, <3>2
  <2>2. (\E h \in Hart : core[h].loc = "single_boot") => Executing = {}
    BY <2>1, Runners
  <2> QED BY <2>1, <2>2 DEF BootIsRight, RestoresOneState, Hart
<1> QED BY <1>2, <1>3, <1>4, Shapes

LEMMA EndHolds ==
  ASSUME NEW m, Base(m), Common0, Phase(m)
  PROVE  InterruptMeansDone
<1> SUFFICES ASSUME interrupt
             PROVE  Asleep = Hart /\ ~start /\ \A n \in master_core_ff : core[n].loc = "exit_wfi"
  BY DEF InterruptMeansDone, Hart
<1>1. CASE SingleEnd(m) \/ VotedEnd(m)
  <2>1. FSM!AllAsleep /\ ~start
    BY <1>1, RegisterFacts DEF SingleEnd, VotedEnd, Pulse
  <2>2. master_core_ff = {m} /\ core[m].loc = "exit_wfi"
    BY <1>1 DEF SingleEnd, VotedEnd, Dozing, Base
  <2> QED BY <2>1, <2>2, HartSignals DEF FSM!AllAsleep, Hart, Asleep
<1>2. ~Going /\ ~Over /\ ~Protocol!Free /\ ~Starting /\ ~Protocol!Launched /\ ~Protocol!Ended /\ ~Due
  BY RegisterFacts DEF Going, Starting, Over
<1>3. CASE Reset(m) \/ Boot(m) \/ Idle(m) \/ SingleEntry(m) \/ VotedEntry(m)
  BY <1>2, <1>3 DEF Reset, Boot, Idle, SingleEntry, VotedEntry, Early
<1>4. CASE SingleStart(m) \/ SingleRun(m) \/ Leaving(m) \/ MasterWaits(m) \/ Calling(m) \/ HaltOthers(m)
  BY <1>2, <1>4 DEF SingleStart, SingleRun, Leaving, MasterWaits, Calling, HaltOthers, Alone
<1>5. CASE Join(m) \/ Joined(m) \/ Parting(m) \/ Handover(m) \/ VotedStart(m) \/ VotedBoot(m)
  BY <1>2, <1>5 DEF Join, Joined, Parting, Handover, HandedOver, VotedStart, VotedBoot
<1>6. CASE Sync(m) \/ Repair(m) \/ Repaired(m)
  BY <1>2, <1>6 DEF Sync, Repair, Repaired, VotedRun, VotedSleep, Voted
<1> QED BY <1>1, <1>3, <1>4, <1>5, <1>6 DEF Phase

LEMMA IdleHolds ==
  ASSUME NEW m, Base(m), Common0, Phase(m)
  PROVE  IdleIsQuiet
<1> SUFFICES ASSUME safe = "IDLE"
             PROVE  Machines = {} /\ single = "SINGLE_IDLE" /\ Asleep = Hart /\ Acked = {}
  BY DEF IdleIsQuiet, Hart
<1>1. Idle(m)
  BY DEF Phase, General, Reset, Boot, SingleEntry, SingleStart, SingleRun, SingleEnd, Leaving, MasterWaits,
         Calling, HaltOthers, Join, Joined, Sync, Repair, Repaired, Parting, Handover, HandedOver,
         VotedEntry, VotedStart, VotedBoot, VotedEnd
<1>2. tmr = [h \in Hart |-> "TMR_IDLE"] /\ dmr = [h \in Hart |-> "DMR_IDLE"] /\ single = "SINGLE_IDLE"
  BY <1>1 DEF Idle, General, AllIn, Base
<1>3. \A h \in Hart : core[h].mode = "sleep" /\ ~core[h].ack
  BY <1>1 DEF Idle, AllRest, Resting
<1> QED BY <1>2, <1>3, HartSignals, HartIs DEF Machines, Asleep, Hart

(***************************************************************************)
(* The rules of HostProtocol.                                              *)
(***************************************************************************)
\* Where the host may write: elsewhere it waits for the interrupt.
LEMMA HostIsBusy ==
  ASSUME NEW m, Base(m), Common0, Phase(m), ~(Early \/ Due)
  PROVE  host = "wait" /\ ~irq
<1>1. CASE Reset(m) \/ Boot(m) \/ Idle(m)
  <2>1. Reset(m) => Early
    BY DEF Reset, Early
  <2>2. Boot(m) => Early
    BY DEF Boot
  <2>3. Idle(m) => Early \/ Due
    BY DEF Idle
  <2> QED BY <1>1, <2>1, <2>2, <2>3
<1>2. Going \/ Over \/ Starting \/ Protocol!Ended \/ Pulse => host = "wait" /\ ~irq
  BY RegisterFacts DEF Going, Starting, Pulse, Over
<1>3. CASE SingleEntry(m) \/ SingleEnd(m) \/ VotedEntry(m) \/ VotedEnd(m)
  BY <1>2, <1>3 DEF SingleEntry, SingleEnd, VotedEntry, VotedEnd
<1>4. CASE SingleStart(m) \/ SingleRun(m) \/ Leaving(m) \/ MasterWaits(m) \/ Calling(m) \/ HaltOthers(m)
  BY <1>2, <1>4 DEF SingleStart, SingleRun, Leaving, MasterWaits, Calling, HaltOthers, Alone
<1>5. CASE Join(m) \/ Joined(m) \/ Parting(m) \/ Handover(m) \/ VotedStart(m) \/ VotedBoot(m)
  BY <1>2, <1>5 DEF Join, Joined, Parting, Handover, HandedOver, VotedStart, VotedBoot
<1>6. CASE Sync(m) \/ Repair(m) \/ Repaired(m)
  BY <1>2, <1>6 DEF Sync, Repair, Repaired, VotedRun, VotedSleep, Voted
<1> QED BY <1>1, <1>3, <1>4, <1>5, <1>6 DEF Phase

\* Who comes to the end of the program is started, and no other place writes
\* END_SW_ROUTINE.
LEMMA MainGoing ==
  ASSUME NEW m, Base(m), Common0, Phase(m), NEW h \in Hart,
         core[h].mode = "run", core[h].loc = "main"
  PROVE  Going
<1>1. CASE Nobody
  BY <1>1 DEF Nobody
<1>2. CASE Lonely(m)
  <2>1. h = m
    BY <1>2 DEF Lonely, OthersRest, Resting
  <2> QED BY <1>2, <2>1 DEF Lonely, SingleRun, Leaving, Handover, HandedOver, Alone, Halting, Doing, Dozing,
                            Handling
<1>3. CASE Joins(m)
  BY <1>3 DEF Joins, Join
<1>4. CASE AsOne(m)
  <2>1. core[0].mode = "run" /\ core[0].loc = "main"
    BY <1>4, HartIs DEF AsOne, Together
  <2> QED BY <1>4, <2>1 DEF AsOne, Joined, Sync, Repair, Repaired, VotedBoot, VotedRun, VotedSleep, Voted,
                            Dozing, Handling, HandlerLoc
<1> QED BY <1>1, <1>2, <1>3, <1>4, Shapes

\* Once all harts sleep and the program is over, they sleep on.
LEMMA SleepOn ==
  ASSUME NEW m, Base(m), Common0, Phase(m), FSM!AllAsleep, host = "wait",
         end_sw_routine, ~start_rises, ~Start_Flag, NEW G, NEW d, NEW wr, Turn(G, d, wr)
  PROVE  FSM!AllAsleep'
<1>1. Asleep3 /\ m \in Hart /\ master_core = {m} /\ DualOff
  BY HartSignals DEF Asleep3, Base, Common0
<1>2. ~Going /\ ~Protocol!Launched /\ ~Starting /\ ~Protocol!Free
  BY RegisterFacts DEF Going, Starting, Protocol!Launched, Protocol!Accepted, start_rises
<1>3. Idle(m) \/ SingleRun(m) \/ SingleEnd(m) \/ Sync(m) \/ VotedEnd(m)
  <2>1. ~(Reset(m) \/ Boot(m) \/ SingleEntry(m) \/ VotedEntry(m))
    BY <1>2 DEF Reset, Boot, SingleEntry, VotedEntry, Early
  <2>2. ~(SingleStart(m) \/ Leaving(m) \/ MasterWaits(m) \/ Calling(m) \/ HaltOthers(m))
    BY <1>2 DEF SingleStart, Leaving, MasterWaits, Calling, HaltOthers
  <2>3. ~(Join(m) \/ Joined(m) \/ Parting(m) \/ Handover(m) \/ VotedStart(m) \/ VotedBoot(m))
    BY <1>2 DEF Join, Joined, Parting, Handover, HandedOver, VotedStart, VotedBoot
  <2>4. ~(Repair(m) \/ Repaired(m))
    BY <1>1, HartIs, VotedRunIs DEF Repair, Repaired, Asleep3, VotedRun, Doing, Handling
  <2> QED BY <2>1, <2>2, <2>3, <2>4 DEF Phase
<1>4. AllIn("TMR_IDLE") \/ AllIn("TMR_SYNC")
  BY <1>3 DEF Idle, SingleRun, SingleEnd, Sync, VotedEnd
<1>5. single # "SINGLE_START"
  BY <1>3 DEF Idle, SingleRun, SingleEnd, Sync, VotedEnd, General
<1>6. NoHalt /\ NoInterrupt
  BY <1>1, <1>4, <1>5, AllInSignals DEF NoHalt, NoInterrupt
<1>7. \A h \in Hart : core'[h] = core[h]
  BY <1>1, <1>6, AsleepTurn
<1> QED BY <1>1, <1>7, HartSignals DEF Asleep3

\* The writes that WriteConfig of HostProtocol allows.
LEMMA ConfigWrites ==
  ASSUME NEW wr, Legal(wr), Ordinary(wr), Registers!Edge(wr), Registers!Sleep, Registers!Pending,
         HostIs' = HostIs
  PROVE  Registers!Quiet \/ Registers!WriteConfig
<1> DEFINE regs == {"SAFE_CONFIGURATION", "DMR_MASK", "MASTER_CORE",
                    "CRITICAL_SECTION", "INITIAL_SYNC_MASTER"}
           vals == [SAFE_CONFIGURATION |-> FSM!Configuration,
                    DMR_MASK |-> SUBSET FSM!Hart,
                    MASTER_CORE |-> {{h} : h \in FSM!Hart},
                    CRITICAL_SECTION |-> BOOLEAN,
                    INITIAL_SYNC_MASTER |-> BOOLEAN]
<1>1. Registers!WriteConfig <=>
        /\ \E r \in regs : \E v \in vals[r] : Registers!Edge(Registers!Write(r, v))
        /\ Registers!Sleep /\ Registers!Pending /\ HostIs' = HostIs
  BY Zenon DEF Registers!WriteConfig, HostIs
<1>2. Registers!Quiet <=> /\ Registers!Edge(Registers!NoWrite) /\ Registers!Sleep /\ Registers!Pending
                          /\ HostIs' = HostIs
  BY Zenon DEF Registers!Quiet, HostIs
<1>3. wr = Registers!NoWrite \/ \E r \in regs : \E v \in vals[r] : wr = Registers!Write(r, v)
  <2>1. CASE wr = NoWrite
    BY <2>1 DEF NoWrite, Registers!NoWrite
  <2>2. CASE \E v \in {0, 1} : wr = Write("SAFE_CONFIGURATION", v)
    BY <2>2 DEF Write, Registers!Write, FSM!Configuration, FSM!SINGLE, FSM!TCLS
  <2>3. CASE \E v \in SUBSET Hart : wr = Write("DMR_MASK", v)
    BY <2>3 DEF Write, Registers!Write, Hart
  <2>4. CASE \E h \in Hart : wr = Write("MASTER_CORE", {h})
    BY <2>4 DEF Write, Registers!Write, Hart
  <2>5. CASE \E v \in BOOLEAN : wr = Write("CRITICAL_SECTION", v)
    BY <2>5 DEF Write, Registers!Write
  <2>6. CASE \E v \in BOOLEAN : wr = Write("INITIAL_SYNC_MASTER", v)
    BY <2>6 DEF Write, Registers!Write
  <2>7. wr.reg \notin {"START", "END_SW_ROUTINE", "INTERRUPT_CONTROLER"}
    BY DEF Ordinary
  <2> QED BY <2>1, <2>2, <2>3, <2>4, <2>5, <2>6, <2>7 DEF Legal, Write
<1> HIDE DEF vals
<1> QED BY <1>1, <1>2, <1>3, Zenon

LEMMA HostObeys ==
  ASSUME NEW m, Base(m), Common0, HostStep, VotedUse, Early \/ Due
  PROVE  Registers!Next
<1> DEFINE on == [enable |-> TRUE, status |-> FALSE]
<1>1. TypeOK /\ core' = core
  BY HostTurns DEF Base
<1>2. FSM!AllAsleep' <=> FSM!AllAsleep
  BY <1>1, HartSignals
<1>3. FSM!AllAsleep' = FSM!AllAsleep
  BY <1>2 DEF FSM!AllAsleep
<1>4. Registers!Sleep
  BY <1>2 DEF Registers!Sleep, Registers!Over, FSM!AllAsleep
<1>5. Pending => Registers!Pending
  BY DEF Registers!Pending, Pending
<1>6. CASE host \in {"choose", "mask", "master"}
  <2>1. PICK wr : /\ Clock(wr) /\ Pending /\ host' \in {"mask", "master", "enable"}
                  /\ \/ wr = Write("SAFE_CONFIGURATION", job'.conf)
                     \/ wr = Write("DMR_MASK", job.mask)
                     \/ wr = Write("MASTER_CORE", {job.master})
    BY <1>6, HostTurns
  <2>2. \E n \in Hart : Base(n)'
    BY HostTurns
  <2>3. VotedJob(job) /\ VotedJob(job)'
    BY <2>2 DEF Base
  <2>4. Legal(wr)
    <3>1. wr = Write("SAFE_CONFIGURATION", job'.conf) => Legal(wr)
      BY <2>3 DEF VotedJob, Legal, FSM!SINGLE, FSM!TCLS
    <3>2. wr = Write("DMR_MASK", job.mask) \/ wr = Write("MASTER_CORE", {job.master}) => Legal(wr)
      BY <2>3 DEF VotedJob, Legal
    <3> QED BY <2>1, <3>1, <3>2
  <2>5. Ordinary(wr)
    BY <2>1 DEF Write, Ordinary
  <2>6. HostIs' = HostIs
    BY <1>6, <2>1 DEF HostIs
  <2>7. Registers!Quiet \/ Registers!WriteConfig
    BY <1>4, <1>5, <2>1, <2>4, <2>5, <2>6, RegistersClock, ConfigWrites
  <2> QED BY <2>7 DEF Registers!Next
<1>7. CASE host = "enable"
  <2>1. PICK wr : /\ Clock(wr) /\ wr = Write("INTERRUPT_CONTROLER", on)
                  /\ Pending /\ host' = "start"
    BY <1>7, HostTurns
  <2>2. Registers!Edge(wr)
    BY <2>1, RegistersClock
  <2>3. Registers!Edge(Registers!Write("INTERRUPT_CONTROLER", on))
    BY <2>1, <2>2, Zenon DEF Write, Registers!Write
  <2>4. HostIs = "free" /\ HostIs' = HostIs
    BY <1>7, <2>1 DEF HostIs
  <2>5. Registers!Enable <=> /\ HostIs = "free" /\ HostIs' = HostIs /\ Registers!Pending
                             /\ Registers!Edge(Registers!Write("INTERRUPT_CONTROLER", on))
                             /\ Registers!Sleep
    BY Zenon DEF Registers!Enable, HostIs
  <2>6. Registers!Enable
    BY <1>4, <1>5, <2>1, <2>3, <2>4, <2>5, Zenon
  <2> QED BY <2>6 DEF Registers!Next
<1>8. CASE host = "start"
  <2>1. PICK wr : Clock(wr) /\ wr = Write("START", TRUE) /\ Pending /\ host' = "wait"
    BY <1>8, HostTurns
  <2>2. Registers!Edge(wr)
    BY <2>1, RegistersClock
  <2>3. Registers!Edge(Registers!Write("START", TRUE))
    BY <2>1, <2>2, Zenon DEF Write, Registers!Write
  <2>4. HostIs = "free" /\ HostIs' = "waiting"
    BY <1>8, <2>1 DEF HostIs
  <2>5. Registers!Start <=> /\ HostIs = "free" /\ HostIs' = "waiting"
                            /\ Registers!Edge(Registers!Write("START", TRUE))
                            /\ Registers!Sleep /\ Registers!Pending
    BY Zenon DEF Registers!Start, HostIs
  <2>6. Registers!Start
    BY <1>4, <1>5, <2>1, <2>3, <2>4, <2>5, Zenon
  <2> QED BY <2>6 DEF Registers!Next
<1>9. CASE host = "wait"
  <2>1. PICK wr : /\ Clock(wr) /\ wr = Write("INTERRUPT_CONTROLER", on)
                  /\ ~irq' /\ irq /\ host' = "choose"
    BY <1>9, HostTurns
  <2>2. Registers!Edge(wr)
    BY <2>1, RegistersClock
  <2>3. Registers!Edge(Registers!Write("INTERRUPT_CONTROLER", on))
    BY <2>1, <2>2, Zenon DEF Write, Registers!Write
  <2>4. irq' \in BOOLEAN
    BY HostTurns DEF Base, TypeOK
  <2>5. HostIs = "waiting" /\ HostIs' = "free" /\ irq' = FALSE /\ irq
    BY <1>9, <2>1, <2>4 DEF HostIs
  <2>6. Registers!Serve <=> /\ HostIs = "waiting" /\ irq /\ irq' = FALSE /\ HostIs' = "free"
                            /\ Registers!Edge(Registers!Write("INTERRUPT_CONTROLER", on))
                            /\ FSM!AllAsleep' = FSM!AllAsleep
    BY Zenon DEF Registers!Serve, HostIs
  <2>7. Registers!Serve
    BY <1>3, <2>3, <2>5, <2>6, Zenon
  <2> QED BY <2>7 DEF Registers!Next
<1> QED BY <1>6, <1>7, <1>8, <1>9, HostTurns DEF Base, TypeOK

LEMMA TurnObeys ==
  ASSUME NEW m, Base(m), Common0, Phase(m), NEW G, NEW d, NEW wr, Turn(G, d, wr)
  PROVE  Registers!Next
<1>1. /\ Clock(wr) /\ Pending /\ host' = host /\ HostIs' = HostIs /\ Legal(wr)
      /\ wr.reg \notin {"START", "INTERRUPT_CONTROLER"}
      /\ wr.reg = "END_SW_ROUTINE" =>
           wr = EndWrite /\ \E h \in Hart : core[h].mode = "run" /\ core[h].loc = "main"
  <2>1. host' = host /\ Pending /\ G \subseteq Hart
    BY DEF Turn
  <2> QED BY <2>1, TurnStays, TurnTicks DEF HostIs
<1>2. Registers!Edge(wr) /\ Registers!Pending
  BY <1>1, RegistersClock DEF Registers!Pending, Pending
<1>3. FSM!AllAsleep' \in BOOLEAN
  BY DEF FSM!AllAsleep
<1>4. CASE Ordinary(wr)
  <2>1. Registers!Sleep
    <3>1. FSM!AllAsleep /\ host = "wait" /\ end_sw_routine /\ ~start_rises /\ ~Start_Flag => FSM!AllAsleep'
      BY SleepOn
    <3>2. HostIs = "waiting" => host = "wait"
      BY DEF HostIs
    <3>3. Registers!Over <=> end_sw_routine /\ ~start_rises /\ ~Start_Flag
      BY DEF Registers!Over, Registers!start_rises, start_rises
    <3>4. Registers!Sleep <=>
            FSM!AllAsleep' \in (IF FSM!AllAsleep /\ HostIs = "waiting" /\ Registers!Over THEN {TRUE} ELSE BOOLEAN)
      BY Zenon DEF Registers!Sleep, HostIs
    <3> QED BY <1>3, <3>1, <3>2, <3>3, <3>4
  <2>2. Registers!Quiet \/ Registers!WriteConfig
    BY <1>1, <1>2, <1>4, <2>1, ConfigWrites
  <2> QED BY <2>2 DEF Registers!Next
<1>5. CASE wr.reg = "END_SW_ROUTINE"
  <2>1. PICK h \in Hart : core[h].mode = "run" /\ core[h].loc = "main"
    BY <1>1, <1>5
  <2>2. Going /\ ~FSM!AllAsleep /\ wr = EndWrite
    BY <1>1, <1>5, <2>1, MainGoing, HartSignals
  <2>3. Registers!Edge(Registers!Write("END_SW_ROUTINE", TRUE))
    BY <1>2, <2>2, Zenon DEF EndWrite, Write, Registers!Write
  <2>4. host = "wait" /\ start /\ Startff /\ ~Start_Flag /\ ~end_sw_routine
    BY <2>2, RegisterFacts DEF Going, Protocol!Running
  <2>5. HostIs = "waiting"
    BY <2>4 DEF HostIs
  <2>6. Registers!Sleep
    BY <2>2 DEF Registers!Sleep, FSM!AllAsleep
  <2>7. Registers!EndRoutine <=>
          /\ \/ HostIs = "waiting" /\ start /\ Startff /\ ~Start_Flag /\ ~end_sw_routine
             \/ HostIs = "withdrawn"
          /\ ~FSM!AllAsleep
          /\ Registers!Edge(Registers!Write("END_SW_ROUTINE", TRUE))
          /\ Registers!Sleep /\ Registers!Pending /\ HostIs' = HostIs
    BY Zenon DEF Registers!EndRoutine, HostIs
  <2>8. Registers!EndRoutine
    BY <1>1, <1>2, <2>2, <2>3, <2>4, <2>5, <2>6, <2>7, Zenon
  <2> QED BY <2>8 DEF Registers!Next
<1> QED BY <1>1, <1>4, <1>5 DEF Ordinary

LEMMA NextObeys == ASSUME VotedInv, Next, VotedUse PROVE Registers!Next
<1>1. PICK m \in Hart : Base(m) /\ Phase(m)
  BY VotedIs
<1>2. Common0
  BY <1>1, PhasesCommon
<1>3. CASE HostStep
  <2>1. Early \/ Due
    <3>1. host = "wait" => irq
      BY <1>1, <1>2, <1>3, HostTurns
    <3> QED BY <1>1, <1>2, <3>1, HostIsBusy
  <2> QED BY <1>1, <1>2, <1>3, <2>1, HostObeys
<1>4. CASE \E G, d, wr : Turn(G, d, wr)
  BY <1>1, <1>2, <1>4, TurnObeys
<1> QED BY <1>1, <1>2, <1>3, <1>4, NextTurns

LEMMA InitObeys == Init => Registers!Init
<1> SUFFICES ASSUME Init PROVE Registers!Init
  OBVIOUS
<1>1. CtrlInit /\ host = "choose" /\ irq = FALSE /\ core[0].mode = "run" /\ 0 \in Hart
  BY HartIs DEF Init, WrapperInit, SoftwareInit, Hart
<1>2. Registers!CtrlInit
  BY <1>1 DEF CtrlInit, Registers!CtrlInit
<1>3. ~FSM!AllAsleep
  BY <1>1, HartSignals
<1>4. FSM!AllAsleep = FALSE
  BY <1>3 DEF FSM!AllAsleep
<1>5. HostIs = "free"
  BY <1>1 DEF HostIs
<1>6. Registers!Init <=> Registers!CtrlInit /\ HostIs = "free" /\ irq = FALSE /\ FSM!AllAsleep = FALSE
  BY Zenon DEF Registers!Init, HostIs
<1> QED BY <1>1, <1>2, <1>4, <1>5, <1>6, Zenon

LEMMA IdleObeys == UNCHANGED vars => UNCHANGED Registers!protocolVars
<1> SUFFICES ASSUME UNCHANGED vars PROVE UNCHANGED Registers!protocolVars
  OBVIOUS
<1>1. ctrlVars' = ctrlVars /\ host' = host /\ irq' = irq /\ core' = core
  BY DEF vars, wrapperVars, softwareVars
<1>2. FSM!AllAsleep' = FSM!AllAsleep
  BY <1>1 DEF FSM!AllAsleep, Asleep
<1>3. HostIs' = HostIs
  BY <1>1 DEF HostIs
<1>4. Registers!ctrlVars' = Registers!ctrlVars
  BY <1>1 DEF ctrlVars, configVars, jobVars, Registers!ctrlVars, Registers!configVars, Registers!jobVars
<1>5. Registers!protocolVars = <<Registers!ctrlVars, HostIs, irq, FSM!AllAsleep>>
  BY Zenon DEF Registers!protocolVars, HostIs
<1>6. Registers!protocolVars' = <<Registers!ctrlVars', HostIs', irq', FSM!AllAsleep'>>
  BY Zenon DEF Registers!protocolVars, HostIs
<1> QED BY <1>1, <1>2, <1>3, <1>4, <1>5, <1>6, Zenon

LEMMA RegistersRun ==
  ASSUME VotedUse
  PROVE  Spec => Registers!Spec
<1>1. Init => Registers!Init
  BY InitObeys
<1>2. VotedInv /\ [Next]_vars => [Registers!Next]_(Registers!protocolVars)
  BY NextObeys, IdleObeys
<1>3. Spec => []VotedInv
  BY VotedInvariant
<1> QED BY <1>1, <1>2, <1>3, PTL DEF Spec, Registers!Spec

\* Both instances of HostProtocol are the same state machine.
LEMMA SameEdge == \A wr : Registers!Edge(wr) <=> Protocol!Edge(wr)
<1>1. \A wr : \A boot, ext, rec \in BOOLEAN :
        Registers!CtrlClock(wr, FSM!AllAsleep, boot, ext, rec)
          <=> Protocol!CtrlClock(wr, FSM!AllAsleep, boot, ext, rec)
  BY DEF Registers!CtrlClock, Protocol!CtrlClock, Registers!ConfigClock, Protocol!ConfigClock,
         Registers!StartEndClock, Protocol!StartEndClock, Registers!InterruptClock, Protocol!InterruptClock,
         Registers!Loaded, Protocol!Loaded, Registers!enable_endSW, Protocol!enable_endSW,
         Registers!start_rises, Protocol!start_rises, Registers!load_intc, Protocol!load_intc
<1> QED BY <1>1, Zenon DEF Registers!Edge, Protocol!Edge

LEMMA SameNext == Registers!Next <=> Protocol!Next
<1>1. Registers!Sleep <=> Protocol!Sleep
  BY DEF Registers!Sleep, Protocol!Sleep, Registers!Over, Protocol!Over, Registers!start_rises,
         Protocol!start_rises
<1>2. Registers!Pending <=> Protocol!Pending
  BY DEF Registers!Pending, Protocol!Pending
<1>3. Registers!NoWrite = Protocol!NoWrite /\ \A r, v : Registers!Write(r, v) = Protocol!Write(r, v)
  BY DEF Registers!NoWrite, Protocol!NoWrite, Registers!Write, Protocol!Write
<1>4. Registers!Quiet <=> Protocol!Quiet
  BY <1>1, <1>2, <1>3, SameEdge, Zenon DEF Registers!Quiet, Protocol!Quiet
<1>5. Registers!WriteConfig <=> Protocol!WriteConfig
  BY <1>1, <1>2, <1>3, SameEdge, Zenon DEF Registers!WriteConfig, Protocol!WriteConfig
<1>6. Registers!Start <=> Protocol!Start
  BY <1>1, <1>2, <1>3, SameEdge, Zenon DEF Registers!Start, Protocol!Start
<1>7. Registers!EndRoutine <=> Protocol!EndRoutine
  BY <1>1, <1>2, <1>3, SameEdge, Zenon DEF Registers!EndRoutine, Protocol!EndRoutine
<1>8. Registers!Withdraw <=> Protocol!Withdraw
  BY <1>1, <1>2, <1>3, SameEdge, Zenon DEF Registers!Withdraw, Protocol!Withdraw
<1>9. Registers!Enable <=> Protocol!Enable
  BY <1>1, <1>2, <1>3, SameEdge, Zenon DEF Registers!Enable, Protocol!Enable
<1>10. Registers!Serve <=> Protocol!Serve
  BY <1>1, <1>2, <1>3, SameEdge, Zenon DEF Registers!Serve, Protocol!Serve
<1> QED BY <1>4, <1>5, <1>6, <1>7, <1>8, <1>9, <1>10, Zenon DEF Registers!Next, Protocol!Next

\* The boot ROM, the library, the machines and the host keep the rules of
\* HostProtocol: its registers are those of the wrapper.
THEOREM Obedience ==
  ASSUME VotedUse
  PROVE  Spec => ObeysProtocol
<1>1. Registers!Init => Protocol!Init
  BY DEF Registers!Init, Protocol!Init, Registers!CtrlInit, Protocol!CtrlInit
<1>2. [Registers!Next]_(Registers!protocolVars) => [Protocol!Next]_(Protocol!protocolVars)
  BY SameNext DEF Registers!protocolVars, Protocol!protocolVars, Registers!ctrlVars, Protocol!ctrlVars,
                  Registers!configVars, Protocol!configVars, Registers!jobVars, Protocol!jobVars
<1>3. Spec => Registers!Spec
  BY RegistersRun
<1> QED BY <1>1, <1>2, <1>3, PTL DEF Registers!Spec, Protocol!Spec, ObeysProtocol

\* What the host sees of the accelerator is what it sees of its registers.
HostSees == IF host = "stopped" THEN "withdrawn"
            ELSE IF irq \/ interrupt THEN "signalled"
            ELSE IF host # "wait" THEN "free"
            ELSE IF end_sw_routine /\ ~start_rises /\ ~Start_Flag THEN "ended"
            ELSE "running"

LEMMA SameSight ==
  /\ Registers!HostPhase = HostSees
  /\ Registers!HostPhase' = HostSees'
<1>1. (HostIs = "withdrawn" <=> host = "stopped") /\ (HostIs = "free" <=> host \notin {"wait", "stopped"})
  BY DEF HostIs
<1>2. (HostIs' = "withdrawn" <=> host' = "stopped") /\ (HostIs' = "free" <=> host' \notin {"wait", "stopped"})
  BY DEF HostIs
<1>3. Registers!Over <=> end_sw_routine /\ ~start_rises /\ ~Start_Flag
  BY DEF Registers!Over, Registers!start_rises, start_rises
<1>4. Registers!Over' <=> end_sw_routine' /\ ~start_rises' /\ ~Start_Flag'
  BY DEF Registers!Over, Registers!start_rises, start_rises
<1>5. Registers!HostPhase = IF HostIs = "withdrawn" THEN "withdrawn"
                            ELSE IF irq \/ interrupt THEN "signalled"
                            ELSE IF HostIs = "free" THEN "free"
                            ELSE IF Registers!Over THEN "ended" ELSE "running"
  BY Zenon DEF Registers!HostPhase, HostIs
<1>6. Registers!HostPhase' = IF HostIs' = "withdrawn" THEN "withdrawn"
                             ELSE IF irq' \/ interrupt' THEN "signalled"
                             ELSE IF HostIs' = "free" THEN "free"
                             ELSE IF Registers!Over' THEN "ended" ELSE "running"
  BY Zenon DEF Registers!HostPhase, HostIs
<1>7. Registers!HostPhase = HostSees
  BY <1>1, <1>3, <1>5 DEF HostSees
<1>8. Registers!HostPhase' = HostSees'
  BY <1>2, <1>4, <1>6 DEF HostSees
<1> QED BY <1>7, <1>8

LEMMA StepIsSeen ==
  ASSUME Registers!Phases, Registers!Phases', Registers!Next
  PROVE  HostView!ONext \/ (HostSees' = HostSees /\ FSM!AllAsleep' = FSM!AllAsleep)
<1>1. \/ HostSees = "free" /\ HostSees' = "running"
      \/ HostSees = "running" /\ HostSees' = "ended"
      \/ /\ HostSees = "ended" /\ FSM!AllAsleep
         /\ HostSees' = "signalled" /\ FSM!AllAsleep' = TRUE
      \/ HostSees = "signalled" /\ HostSees' = "free" /\ FSM!AllAsleep' = FSM!AllAsleep
      \/ HostSees \in {"running", "ended"} /\ HostSees' = "withdrawn"
      \/ HostSees # "signalled" /\ HostSees' = HostSees
      \/ HostSees' = HostSees /\ FSM!AllAsleep' = FSM!AllAsleep
  BY Registers!StepSeen, SameSight, Zenon
<1>2. FSM!AllAsleep' \in BOOLEAN
  BY DEF FSM!AllAsleep
<1>3. HostView!Rest
  BY <1>2 DEF HostView!Rest
<1>4. HostSees = "free" /\ HostSees' = "running" => HostView!Launch
  BY <1>3, Zenon DEF HostView!Launch, HostSees
<1>5. HostSees = "running" /\ HostSees' = "ended" => HostView!End
  BY <1>3, Zenon DEF HostView!End, HostSees
<1>6. HostSees = "ended" /\ FSM!AllAsleep /\ HostSees' = "signalled" /\ FSM!AllAsleep' = TRUE
        => HostView!Signal
  BY Zenon DEF HostView!Signal, HostSees
<1>7. HostSees = "signalled" /\ HostSees' = "free" /\ FSM!AllAsleep' = FSM!AllAsleep
        => HostView!Acknowledge
  BY Zenon DEF HostView!Acknowledge, HostSees
<1>8. HostSees \in {"running", "ended"} /\ HostSees' = "withdrawn" => HostView!Withdraw
  BY <1>3, Zenon DEF HostView!Withdraw, HostSees
<1>9. HostSees # "signalled" /\ HostSees' = HostSees => HostView!Run
  BY <1>3, Zenon DEF HostView!Run, HostSees
<1> QED BY <1>1, <1>4, <1>5, <1>6, <1>7, <1>8, <1>9, Zenon DEF HostView!ONext

\* The accelerator keeps the safety part of Offload: one interrupt for each
\* program, after its end and with all harts asleep.
THEOREM OneInterrupt ==
  ASSUME VotedUse
  PROVE  Spec => HostView!OSafety
<1>1. Init => HostView!OInit
  <2> SUFFICES ASSUME Init PROVE HostView!OInit
    OBVIOUS
  <2>1. host = "choose" /\ irq = FALSE /\ interrupt = FALSE
    BY DEF Init, WrapperInit, CtrlInit
  <2>2. FSM!AllAsleep \in BOOLEAN
    BY DEF FSM!AllAsleep
  <2> QED BY <2>1, <2>2 DEF HostView!OInit
<1>2. Registers!Phases /\ Registers!Phases' /\ [Registers!Next]_(Registers!protocolVars) /\ [Next]_vars
        => [HostView!ONext]_(HostView!offloadVars)
  <2> SUFFICES ASSUME Registers!Phases, Registers!Phases',
                      [Registers!Next]_(Registers!protocolVars), [Next]_vars
               PROVE  HostView!ONext \/ HostView!offloadVars' = HostView!offloadVars
    OBVIOUS
  <2>1. HostView!offloadVars = <<HostSees, FSM!AllAsleep>>
    BY Zenon DEF HostView!offloadVars, HostSees
  <2>2. HostView!offloadVars' = <<HostSees', FSM!AllAsleep'>>
    BY Zenon DEF HostView!offloadVars, HostSees
  <2>3. CASE Registers!Next
    BY <2>1, <2>2, <2>3, StepIsSeen, Zenon
  <2>4. CASE UNCHANGED Registers!protocolVars
    <3>1. Registers!HostPhase' = Registers!HostPhase /\ FSM!AllAsleep' = FSM!AllAsleep
      BY <2>4 DEF Registers!protocolVars, Registers!ctrlVars, Registers!jobVars, Registers!HostPhase,
                  Registers!Over, Registers!start_rises
    <3> QED BY <2>1, <2>2, <3>1, SameSight
  <2> QED BY <2>3, <2>4
<1>3. Spec => Registers!Spec
  BY RegistersRun
<1>4. Registers!Spec => []Registers!Phases
  BY Registers!PhasesInvariant
<1> QED BY <1>1, <1>2, <1>3, <1>4, PTL DEF Spec, Registers!Spec, HostView!OSafety

\* And the line to the host is a pulse of one cycle.
THEOREM OnePulse ==
  ASSUME VotedUse
  PROVE  Spec => Registers!InterruptIsAPulse
<1>1. Spec => Registers!Spec
  BY RegistersRun
<1>2. Registers!Spec => Registers!InterruptIsAPulse
  BY Registers!Pulse
<1> QED BY <1>1, <1>2

(***************************************************************************)
(* The safety properties of the system, for every set of programs that     *)
(* use the voted mode and the single mode, of any length.                  *)
(***************************************************************************)
LEMMA VotedHolds ==
  ASSUME VotedInv
  PROVE  /\ TypeOK /\ OneStream /\ GroupAgrees /\ WorkIsProtected /\ StopLeaves
         /\ BootIsRight /\ RestoresOneState /\ InterruptMeansDone /\ IdleIsQuiet
<1>1. PICK m \in Hart : Base(m) /\ Phase(m)
  BY VotedIs
<1>2. Common0
  BY <1>1, PhasesCommon
<1>3. TypeOK
  BY <1>1 DEF Base
<1> QED
  BY <1>1, <1>2, <1>3, StreamHolds, GroupHolds, WorkHolds, StopHolds, BootHolds, EndHolds, IdleHolds

\* Every register of the wrapper keeps to its encoding and every hart is at a
\* place of its program, the ROM, the library or a handler.
THEOREM TypesHold == ASSUME VotedUse PROVE Spec => []TypeOK
BY VotedInvariant, VotedHolds, PTL

\* Two harts never run the program apart from each other: safe_FSM wakes the
\* harts one by one, the ROM boots them and the library saves and restores,
\* but nobody besides the master executes without being voted.
THEOREM OneStreamHolds == ASSUME VotedUse PROVE Spec => []OneStream
BY VotedInvariant, VotedHolds, PTL

\* Whatever a fault makes the machines do, the harts of the voted group that
\* are awake are in the same place: tmr_voter compares like with like.
THEOREM GroupAgreesHolds == ASSUME VotedUse PROVE Spec => []GroupAgrees
BY VotedInvariant, VotedHolds, PTL

\* Between Safe_Activate and Safe_Stop the program's own work is done by three
\* harts in TMR_SYNC or TMR_SYNCINTC, and outside by one hart alone.
THEOREM WorkIsProtectedHolds == ASSUME VotedUse PROVE Spec => []WorkIsProtected
BY VotedInvariant, VotedHolds, PTL

\* The call after Safe_Stop runs on one hart, however a repair or a second
\* error is timed, if no fault hits the wfi that ends the mode.
THEOREM StopLeavesHolds == ASSUME VotedUse PROVE Spec => []StopLeaves
BY VotedInvariant, VotedHolds, PTL

\* CB_boot_rom and the debug handler send a hart into the program, or into the
\* saved state, only when the others let it.
THEOREM BootIsRightHolds == ASSUME VotedUse PROVE Spec => []BootIsRight
BY VotedInvariant, VotedHolds, PTL

\* What a joining hart restores is what its master saved in the call that
\* waits for it.
THEOREM RestoresOneStateHolds == ASSUME VotedUse PROVE Spec => []RestoresOneState
BY VotedInvariant, VotedHolds, PTL

\* The interrupt to the host means that every hart sleeps and that the master
\* is at the last wfi of the program.
THEOREM InterruptMeansDoneHolds == ASSUME VotedUse PROVE Spec => []InterruptMeansDone
BY VotedInvariant, VotedHolds, PTL

\* In IDLE no machine is in the middle of something and no hart is awake.
THEOREM IdleIsQuietHolds == ASSUME VotedUse PROVE Spec => []IdleIsQuiet
BY VotedInvariant, VotedHolds, PTL

(***************************************************************************)
(* A group keeps its bus: the register that selects the port of the system *)
(* bus follows MASTER_CORE only while every hart sleeps.                   *)
(***************************************************************************)
LEMMA NextClocks ==
  ASSUME NEW m, Base(m), Common0, Phase(m), Next, VotedUse
  PROVE  \E wr : Clock(wr)
<1>1. CASE HostStep
  BY <1>1, HostTurns
<1>2. CASE \E G, d, wr : Turn(G, d, wr)
  <2>1. PICK G, d, wr : Turn(G, d, wr)
    BY <1>2
  <2>2. Clock(wr)
    BY <2>1, TurnTicks
  <2> QED BY <2>2
<1> QED BY <1>1, <1>2, NextTurns

\* While every hart sleeps a group has its master's port, or dissolves.
LEMMA AsleepGroups ==
  ASSUME NEW m, Base(m), Common0, Phase(m), FSM!AllAsleep, Voting
  PROVE  \/ master_core_ff = {m}
         \/ Boot(m)
         \/ Sync(m) /\ VotedSleep(core[0])
<1>1. m \in Hart /\ master_core = {m} /\ DualOff /\ 0 \in Hart
  BY HartIs DEF Base, Common0
<1>2. \A h \in Hart : core[h].mode = "sleep"
  BY HartSignals
<1>3. CASE Reset(m) \/ Idle(m) \/ SingleEntry(m) \/ SingleEnd(m) \/ VotedEntry(m) \/ VotedEnd(m)
  <2>1. /\ safe # "BOOT"
        /\ AllIn("TMR_IDLE") \/ AllIn("TMR_RESET")
    BY <1>3 DEF Reset, Idle, SingleEntry, SingleEnd, VotedEntry, VotedEnd, General
  <2> QED BY <1>1, <2>1, AllInSignals DEF FSM!TmrVoting
<1>4. CASE Sync(m)
  <2>1. ~VotedRun(core[0])
    BY <1>1, <1>2 DEF VotedRun, Doing, Handling
  <2> QED BY <1>4, <2>1 DEF Sync
<1>5. CASE Repair(m) \/ Repaired(m)
  BY <1>1, <1>2, <1>5 DEF Repair, Repaired, VotedRun, Doing, Handling
<1>6. CASE SingleStart(m) \/ SingleRun(m) \/ Leaving(m) \/ MasterWaits(m) \/ Calling(m) \/ HaltOthers(m)
  BY <1>6 DEF SingleStart, SingleRun, Leaving, MasterWaits, Calling, HaltOthers
<1>7. CASE Join(m) \/ Joined(m) \/ Parting(m) \/ Handover(m) \/ VotedStart(m) \/ VotedBoot(m)
  BY <1>7 DEF Join, Joined, Parting, Handover, HandedOver, VotedStart, VotedBoot
<1> QED BY <1>3, <1>4, <1>5, <1>6, <1>7 DEF Phase

LEMMA KeepsBus ==
  ASSUME VotedInv, Next, VotedUse, Group # {}, Group' # {}
  PROVE  master_core_ff' = master_core_ff
<1>1. PICK m \in Hart : Base(m) /\ Phase(m)
  BY VotedIs
<1>2. Common0
  BY <1>1, PhasesCommon
<1>3. PICK wr : Clock(wr)
  BY <1>1, <1>2, NextClocks
<1>4. /\ master_core_ff' = IF FSM!AllAsleep THEN master_core ELSE master_core_ff
      /\ master_core = {m} /\ DualOff /\ safe # "DMR_MODE" /\ 0 \in Hart
  BY <1>1, <1>2, <1>3, ClockConfig, HartIs DEF Base, Common0
<1>5. Voting
  BY <1>4, NoDual
<1>6. DualOff'
  <2>1. FSM!FsmClock
    BY <1>3 DEF Clock
  <2> QED BY <1>4, <2>1, DualStaysOff DEF DualOff
<1>7. Voting'
  <2>1. ~Voting' => Group' = {}
    BY <1>6, HartIs DEF Group, Comparing, FSM!Dmr_comparator_enable, FSM!DmrIn, FSM!DmrComparing, DualOff
  <2> QED BY <2>1
<1>8. CASE FSM!AllAsleep /\ Boot(m)
  <2>1. safe = "BOOT" /\ AllIn("TMR_IDLE")
    BY <1>8 DEF Boot, General
  <2>2. safe' = "IDLE"
    BY <1>3, <1>8, <2>1, ClockMachines DEF FSM!SafeNext
  <2>3. \A h \in Hart : FSM!TmrNext(h) = "TMR_IDLE"
    BY <1>1, <1>4, <2>1, AllInSignals DEF FSM!TmrNext
  <2>4. tmr' = [h \in Hart |-> "TMR_IDLE"]
    BY <1>3, <2>3, ClockMachines
  <2>5. ~Voting'
    BY <2>2, <2>4, HartIs DEF Voting, FSM!Tmr_voter_enable, FSM!TmrIn, FSM!TmrVoting
  <2> QED BY <1>7, <2>5
<1>9. CASE FSM!AllAsleep /\ Sync(m) /\ VotedSleep(core[0])
  <2>1. safe = "TMR_MODE" /\ single = "SINGLE_IDLE" /\ AllIn("TMR_SYNC")
    BY <1>9 DEF Sync, General
  <2>2. \A h \in Hart : tmr[h] = "TMR_SYNC"
    BY <1>1, <1>4, <2>1, AllInSignals
  <2>3. FSM!Ends \/ safe_configuration # FSM!TCLS
    BY <1>9, RegisterFacts DEF VotedSleep, Voted, Dozing, Within1, FSM!Ends, FSM!TCLS, Over
  <2>4. \A h \in Hart : FSM!TmrNext(h) \in {"TMR_IDLE", "TMR_END_SYNC"}
    BY <1>9, <2>2, <2>3 DEF FSM!TmrNext
  <2>5. \A h \in Hart : tmr'[h] \in {"TMR_IDLE", "TMR_END_SYNC"}
    BY <1>3, <2>4, ClockMachines
  <2>6. safe' # "BOOT"
    <3>1. FSM!SafeNext # "BOOT"
      BY <2>1 DEF FSM!SafeNext
    <3> QED BY <1>3, <3>1, ClockMachines
  <2>7. ~Voting'
    BY <2>5, <2>6, HartIs DEF Voting, FSM!Tmr_voter_enable, FSM!TmrIn, FSM!TmrVoting
  <2> QED BY <1>7, <2>7
<1> QED BY <1>1, <1>2, <1>4, <1>5, <1>8, <1>9, AsleepGroups

\* Writing another MASTER_CORE does not move a running group to another port:
\* the write of Safe_Stop before its wfi takes effect when the group is over.
THEOREM MasterKeepsBusHolds == ASSUME VotedUse PROVE Spec => MasterKeepsBus
<1>1. VotedInv /\ [Next]_vars =>
        [(Group # {} /\ Group' # {}) => master_core_ff' = master_core_ff]_vars
  BY KeepsBus
<1> QED BY <1>1, VotedInvariant, PTL DEF Spec, MasterKeepsBus

(***************************************************************************)
(* Critical sections.                                                      *)
(***************************************************************************)
\* Which phase it is when the machine of a hart is in one of these states.
LEMMA PhaseOf ==
  ASSUME NEW m, Base(m), Phase(m), NEW h \in Hart
  PROVE  /\ tmr[h] = "TMR_SYNC" => Sync(m)
         /\ tmr[h] = "TMR_SYNCINTC" => Repair(m)
         /\ tmr[h] = "TMR_SWSYNC" => Repaired(m)
<1>1. CASE Sync(m) \/ Repair(m) \/ Repaired(m)
  BY <1>1 DEF Sync, Repair, Repaired, AllIn
<1>2. CASE Reset(m) \/ Boot(m) \/ Idle(m) \/ SingleEntry(m) \/ SingleStart(m) \/ SingleRun(m)
           \/ SingleEnd(m) \/ Leaving(m)
  BY <1>2 DEF Reset, Boot, Idle, SingleEntry, SingleStart, SingleRun, SingleEnd, Leaving, AllIn
<1>3. CASE MasterWaits(m) \/ Calling(m) \/ HaltOthers(m) \/ Join(m) \/ Joined(m) \/ Parting(m)
           \/ Handover(m)
  BY <1>3 DEF MasterWaits, Calling, HaltOthers, Join, Joined, Parting, Handover, HandedOver, AllIn, OnlyIn
<1>4. CASE VotedEntry(m) \/ VotedStart(m) \/ VotedBoot(m) \/ VotedEnd(m)
  BY <1>4 DEF VotedEntry, VotedStart, VotedBoot, VotedEnd, AllIn
<1> QED BY <1>1, <1>2, <1>3, <1>4 DEF Phase

\* A fault: the only step that leaves a disagreement to be seen by the voter.
Strikes(wr) ==
  /\ \E G \in Steppers : G \subseteq Group /\ Point(G) \in job.faulty
  /\ faults' = faults + 1 /\ wr.reg = "NONE" /\ program' = program
  /\ \A h \in Hart : core'[h] = core[h]

\* Who writes the register: a hart at the end of a section, or at a call.
WritesCritical(h, wr) ==
  /\ h \in Hart /\ h \notin Diverted /\ core[h].mode = "run"
  /\ job' = job /\ program' = program
  /\ \/ core[h].loc = "stop_critical" /\ core'[h].loc = "stop_master" /\ wr.val = FALSE
     \/ /\ core[h].loc = "main" /\ IsCall(core[h].op, Critical)
        /\ wr.val = program[core[h].op][2] /\ core'[h].op = core[h].op + 1

LEMMA CriticalDoes ==
  ASSUME program \in Seq(ProgramCall), NEW c \in CoreState, NEW d, NEW wr, NEW cp,
         Does(c, d, wr, cp), wr.reg = "CRITICAL_SECTION"
  PROVE  /\ c.mode = "run"
         /\ \/ c.loc = "stop_critical" /\ d.loc = "stop_master" /\ wr.val = FALSE
            \/ /\ c.loc = "main" /\ IsCall(c.op, Critical)
               /\ wr.val = program[c.op][2] /\ d.op = c.op + 1
<1>1. CASE DoesRom(c, d, wr, cp) \/ DoesActivate(c, d, wr, cp) \/ DoesHandler(c, d, wr, cp)
           \/ DoesCheckpoint(c, d, wr, cp)
  BY <1>1, WritesRegister DEF DoesRom, DoesActivate, DoesHandler, DoesCheckpoint
<1>2. CASE DoesStop(c, d, wr, cp)
  <2>1. c.mode = "run" /\ c.loc = "stop_critical" /\ d = Goes(c, "stop_master") /\ wr.val = FALSE
    BY <1>2, Writes DEF DoesStop
  <2>2. "stop_master" \in Loc
    BY DEF Loc, ProgramLoc
  <2> QED BY <2>1, <2>2, GoesTyped
<1>3. CASE DoesCall(c, d, wr, cp)
  <2>1. /\ c.mode = "run" /\ c.loc = "main" /\ CallAt(c.op)[1] = Critical /\ d = Returns(c)
        /\ wr.val = CallAt(c.op)[2]
    BY <1>3, Writes DEF DoesCall
  <2>2. Critical # "return"
    BY DEF Critical
  <2>3. c.op \in 1..Len(program) /\ CallAt(c.op) = program[c.op]
    BY <2>1, <2>2, CallTyped
  <2> QED BY <2>1, <2>3, ReturnsTyped DEF IsCall
<1> QED BY <1>1, <1>2, <1>3 DEF Does

LEMMA StepIs ==
  ASSUME NEW m, Base(m), Common0, Next, VotedUse
  PROVE  \E wr : /\ Clock(wr)
                 /\ (faults' = faults /\ ~mismatch') \/ Strikes(wr)
                 /\ wr.reg = "CRITICAL_SECTION" => \E h \in Hart : WritesCritical(h, wr)
                 /\ (job' = job /\ program' = program) \/ job' \in Jobs
<1>1. /\ core \in [Hart -> CoreState] /\ DualOff /\ program \in Seq(ProgramCall)
  BY HartIs DEF Base, TypeOK, CoreState, Common0, VotedJob
<1>2. CASE HostStep
  <2>1. faults' = faults /\ ((job' = job /\ program' = program) \/ job' \in Jobs)
    BY <1>2 DEF HostStep, Choose, Configure, Start, Serve, ExternalStop, HostWrites
  <2>2. ~mismatch' /\ \E wr : Clock(wr) /\ wr.reg # "CRITICAL_SECTION"
    <3>1. \A r, v : Write(r, v).reg = r
      BY DEF Write
    <3>2. ~mismatch'
      BY <1>2, HostTurns
    <3>3. \E r, v : /\ Clock(Write(r, v))
                    /\ r \in {"SAFE_CONFIGURATION", "DMR_MASK", "MASTER_CORE", "INTERRUPT_CONTROLER", "START"}
      BY <1>2 DEF HostStep, Choose, Configure, Start, Serve, ExternalStop, HostWrites
    <3> QED BY <3>1, <3>2, <3>3
  <2> QED BY <2>1, <2>2
<1>3. CASE Fault
  <2>1. Clock(NoWrite) /\ job' = job /\ program' = program /\ NoWrite.reg = "NONE"
    BY <1>3 DEF Fault, NoWrite
  <2>2. \A h \in Hart : core'[h] = core[h]
    BY <1>1, <1>3, NobodyRepeats DEF Fault, HartsWait
  <2>3. Strikes(NoWrite)
    BY <1>3, <2>1, <2>2 DEF Strikes, Fault
  <2> QED BY <2>1, <2>3
<1>4. CASE Edge
  <2>1. Clock(NoWrite) /\ job' = job /\ program' = program /\ NoWrite.reg = "NONE" /\ faults' = faults
    BY <1>4 DEF Edge, NoWrite
  <2>2. ~mismatch'
    BY <1>1, <1>4, Calm DEF Edge
  <2> QED BY <2>1, <2>2
<1>5. CASE Harts
  <2>1. job' = job /\ faults' = faults
    BY <1>5 DEF Harts
  <2>2. PICK G, d, wr : Turn(G, d, wr)
    BY <1>5, HartsTurn
  <2>3. Clock(wr) /\ program' = program
    BY <2>2 DEF Turn
  <2>4. ~mismatch'
    <3>1. Undisturbed
      <4>1. \/ SomeExecute \/ SomeHalt
            \/ SomeTake(FSM!Interrupt_Sync, "sync_ack")
            \/ SomeTake(FSM!Interrupt_swResync, "resync_ack")
        BY <1>1, <1>5, HartsDo DEF Common0, Harts
      <4> QED BY <4>1, Zenon DEF SomeExecute, SomeHalt, SomeTake, Executes, Halts, Takes
    <3> QED BY <1>1, <3>1, Calm
  <2>5. ASSUME wr.reg = "CRITICAL_SECTION" PROVE \E h \in Hart : WritesCritical(h, wr)
    <3>1. G # {}
      BY <2>2, <2>5, WritesRegister DEF Turn
    <3>2. PICK h \in G : TRUE
      BY <3>1
    <3>3. h \in Hart /\ Moves(h, core[h], core'[h], wr) /\ core[h] \in CoreState
      BY <1>1, <2>2, <3>2, TurnEach
    <3>4. h \notin Diverted /\ Does(core[h], core'[h], wr, safe_copy')
      BY <2>5, <3>3, WritesRegister DEF Moves
    <3>5. WritesCritical(h, wr)
      BY <1>1, <2>1, <2>3, <2>5, <3>3, <3>4, CriticalDoes DEF WritesCritical
    <3> QED BY <3>3, <3>5
  <2> QED BY <2>1, <2>3, <2>4, <2>5
<1> QED BY <1>2, <1>3, <1>4, <1>5 DEF Next

LEMMA CriticalFirst == Init => CriticalInv
<1> SUFFICES ASSUME Init PROVE CriticalInv
  OBVIOUS
<1>1. /\ job.faulty = {} /\ job.program = <<>> /\ faults = 0 /\ mismatch = FALSE
      /\ critical_section = FALSE /\ tmr = [h \in Hart |-> "TMR_RESET"]
      /\ tmr_error_ff.pending = FALSE
  BY HartIs DEF Init, WrapperInit, CtrlInit, FSM!FsmInit
<1>2. CriticalJob(job)
  BY <1>1 DEF CriticalJob
<1>3. NoRepair
  BY <1>1 DEF NoRepair
<1> QED BY <1>1, <1>2, <1>3 DEF CriticalInv

\* Where a machine that repairs comes from, and an error that is remembered.
LEMMA RepairsFrom ==
  ASSUME NEW h \in Hart, FSM!TmrNext(h) \in {"TMR_SYNCINTC", "TMR_SWSYNC"}
  PROVE  \/ tmr[h] \in {"TMR_SYNCINTC", "TMR_SWSYNC"}
         \/ tmr[h] = "TMR_SYNC" /\ FSM!tmr_error_s
<1> SUFFICES ASSUME tmr[h] \notin {"TMR_SYNCINTC", "TMR_SWSYNC"}
             PROVE  tmr[h] = "TMR_SYNC" /\ FSM!tmr_error_s
  OBVIOUS
<1> QED BY DEF FSM!TmrNext

LEMMA PendingFrom ==
  ASSUME TypeOK, FSM!TmrErrorNext.pending
  PROVE  (mismatch \/ tmr_error_ff.pending) /\ \E h \in Hart : tmr[h] = "TMR_SYNC"
<1>1. mismatch \in BOOLEAN /\ tmr_error_ff \in [seen : BOOLEAN, pending : BOOLEAN]
  BY DEF TypeOK, FSM!FsmTypeOK
<1>2. FSM!TmrIn({"TMR_SYNC"}) # {}
  BY <1>1, HartIs DEF FSM!TmrErrorNext
<1>3. \E h \in Hart : tmr[h] = "TMR_SYNC"
  BY <1>2, HartIs DEF FSM!TmrIn
<1> QED BY <1>1, <1>3 DEF FSM!TmrErrorNext

LEMMA CriticalNext ==
  ASSUME VotedInv, CriticalInv, Next, VotedUse, CriticalUse
  PROVE  CriticalInv'
<1>1. PICK m \in Hart : Base(m) /\ Phase(m)
  BY VotedIs
<1>2. Common0
  BY <1>1, PhasesCommon
<1>5. PICK wr : /\ Clock(wr)
                /\ (faults' = faults /\ ~mismatch') \/ Strikes(wr)
                /\ wr.reg = "CRITICAL_SECTION" => \E h \in Hart : WritesCritical(h, wr)
                /\ (job' = job /\ program' = program) \/ job' \in Jobs
  BY <1>1, <1>2, StepIs
<1>6. /\ TypeOK /\ DualOff /\ master_core = {m} /\ program = job.program
      /\ critical_section \in BOOLEAN /\ mismatch \in BOOLEAN /\ faults \in Nat
      /\ program \in Seq(ProgramCall)
      /\ \A h \in Hart : core[h] \in CoreState
  BY <1>1, <1>2 DEF Base, Common0, TypeOK, CriticalInv, VotedJob, CoreState, Hart
<1>7. /\ \A h \in Hart : tmr'[h] = FSM!TmrNext(h)
      /\ tmr_error_ff' = FSM!TmrErrorNext
      /\ critical_section' = IF wr.reg = "CRITICAL_SECTION" THEN wr.val ELSE critical_section
  BY <1>5, ClockMachines, ClockConfig DEF Loaded
<1>8. CriticalJob(job)' /\ faults' \in Nat /\ (faults' = faults \/ faults' = faults + 1)
  BY <1>5, <1>6 DEF CriticalInv, CriticalUse, CriticalJob, Strikes
\* Who starts a section, or ends it.
<1>9. ASSUME wr.reg = "CRITICAL_SECTION", Sync(m)
      PROVE  /\ wr.val = TRUE => Entering
             /\ wr.val = FALSE /\ Together' => ~Entering'
  <2>1. PICK h \in Hart : WritesCritical(h, wr)
    BY <1>5, <1>9
  <2>2. core[h] = core[0] /\ (Together' => core'[h] = core'[0])
    BY <2>1, HartIs, <1>9 DEF Sync, Together
  <2>3. wr.val = TRUE => Entering
    BY <2>1, <2>2 DEF WritesCritical, Entering
  <2>4. ASSUME wr.val = FALSE, Together', Entering' PROVE FALSE
    <3>1. /\ core[h].loc = "main" /\ IsCall(core[h].op, Critical)
          /\ program[core[h].op][2] = FALSE /\ core'[h].op = core[h].op + 1
      <4>1. core'[h].loc = "main"
        BY <2>2, <2>4 DEF Entering
      <4> QED BY <2>1, <2>4, <4>1 DEF WritesCritical
    <3>2. /\ core[h].op + 1 \in 1..Len(program) /\ program[core[h].op + 1][1] = Critical
          /\ program[core[h].op + 1][2] = TRUE
      <4>1. program' = program /\ core'[0].op = core[h].op + 1
        BY <2>1, <2>2, <2>4, <3>1 DEF WritesCritical
      <4> QED BY <2>4, <4>1 DEF Entering, IsCall
    <3>3. core[h].op \in 1..Len(program) /\ program[core[h].op][1] = Critical
      BY <3>1 DEF IsCall
    <3>4. CriticalJob(job) /\ program = job.program
      BY <1>6 DEF CriticalInv
    <3> QED BY <3>1, <3>2, <3>3, <3>4 DEF CriticalJob
  <2> QED BY <2>3, <2>4
\* A fault: it is a first one, or not at the store that enters a section.
<1>10. ASSUME mismatch'
       PROVE  Strikes(wr) /\ faults' # 0 /\ (faults' <= 1 => faults = 0)
  BY <1>5, <1>6, <1>10 DEF Strikes
<1>11. ASSUME faults' = 0
       PROVE  NoRepair' /\ ~mismatch' /\ ~tmr_error_ff'.pending
  <2>1. faults = 0 /\ ~mismatch' /\ NoRepair /\ ~mismatch /\ ~tmr_error_ff.pending
    BY <1>6, <1>8, <1>10, <1>11 DEF CriticalInv
  <2>2. ~FSM!tmr_error_s
    BY <1>6, <2>1, ErrorIs
  <2>3. NoRepair'
    BY <1>7, <2>1, <2>2, RepairsFrom DEF NoRepair
  <2> QED BY <1>6, <1>7, <2>1, <2>3, PendingFrom
<1>12. ASSUME critical_section', faults' <= 1
       PROVE  NoRepair' /\ (mismatch' => ~tmr_error_ff'.pending)
  <2>1. mismatch' => ~tmr_error_ff'.pending
    <3>1. mismatch' => ~mismatch /\ ~tmr_error_ff.pending
      BY <1>10, <1>12 DEF CriticalInv
    <3> QED BY <1>6, <1>7, <3>1, PendingFrom
  <2>2. ASSUME NEW h \in Hart, FSM!TmrNext(h) \in {"TMR_SYNCINTC", "TMR_SWSYNC"} PROVE FALSE
    <3>1. CASE critical_section
      <4>1. faults <= 1
        BY <1>6, <1>8, <1>12
      <4>2. NoRepair /\ (mismatch => ~tmr_error_ff.pending)
        BY <3>1, <4>1 DEF CriticalInv
      <4>3. FSM!tmr_error_s
        BY <2>2, <4>2, RepairsFrom DEF NoRepair
      <4> QED BY <3>1, <4>2, <4>3 DEF FSM!tmr_error_s
    <3>2. CASE ~critical_section
      <4>1. wr.reg = "CRITICAL_SECTION" /\ wr.val = TRUE
        BY <1>6, <1>7, <1>12, <3>2
      <4>2. PICK g \in Hart : WritesCritical(g, wr)
        BY <1>5, <4>1
      <4>3. core[g].loc = "main" /\ core[g].mode = "run" /\ g \notin Diverted
        BY <4>1, <4>2 DEF WritesCritical
      <4>4. CASE Sync(m) /\ FSM!tmr_error_s
        <5>1. Entering /\ Together /\ AllIn("TMR_SYNC")
          BY <1>9, <4>1, <4>4 DEF Sync
        <5>2. ~mismatch /\ ~tmr_error_ff.pending
          BY <3>2, <5>1 DEF CriticalInv
        <5> QED BY <1>6, <4>4, <5>2, ErrorIs
      <4>5. CASE Repair(m)
        <5>1. AllIn("TMR_SYNCINTC")
          BY <4>5 DEF Repair
        <5>2. FSM!Interrupt_swResync = Hart
          BY <1>1, <1>6, <5>1, AllInSignals
        <5>3. "main" \in ProgramLoc
          BY DEF ProgramLoc
        <5>4. g \in Diverted
          BY <4>3, <5>2, <5>3, HartIs DEF Diverted, Interruptible
        <5> QED BY <4>3, <5>4
      <4>6. CASE Repaired(m)
        <5>1. core[g] = core[0]
          BY <4>6, HartIs DEF Repaired, Together
        <5> QED BY <4>3, <4>6, <5>1 DEF Repaired
      <4> QED BY <1>1, <2>2, <4>4, <4>5, <4>6, RepairsFrom, PhaseOf
    <3> QED BY <3>1, <3>2
  <2> QED BY <1>7, <2>1, <2>2 DEF NoRepair
<1>13. ASSUME AllIn("TMR_SYNC")', Together', Entering'
       PROVE  ~mismatch' /\ (tmr_error_ff'.pending => critical_section')
  <2>0. 0 \in Hart /\ tmr'[0] = "TMR_SYNC"
    BY <1>13, HartIs DEF AllIn
  <2>2. ~mismatch'
    <3>1. SUFFICES ASSUME mismatch' PROVE FALSE
      OBVIOUS
    <3>2. Strikes(wr)
      BY <1>10, <3>1
    <3>3. PICK G \in Steppers : Point(G) \in job.faulty
      BY <3>2 DEF Strikes
    <3>4. G \subseteq Hart /\ G # {}
      BY <1>6, <3>3, WithinHarts DEF Steppers
    <3>5. PICK h \in G : h = CHOOSE g \in G : TRUE
      BY <3>4
    <3>6. core[h] = core'[0]
      BY <1>13, <2>0, <3>2, <3>4 DEF Strikes, Together
    <3>7. core[h].loc = "main" /\ IsCall(core[h].op, Critical)
      <4>1. program' = program
        BY <1>5, <3>2 DEF Strikes
      <4> QED BY <1>13, <3>6, <4>1 DEF Entering, IsCall
    <3>8. Point(G) = Critical
      BY <3>5, <3>7 DEF Point, Call, OpOf, IsCall
    <3> QED BY <3>3, <3>8 DEF CriticalInv, CriticalJob
  <2>3. ASSUME tmr_error_ff'.pending, ~critical_section' PROVE FALSE
    <3>1. Sync(m) /\ AllIn("TMR_SYNC") /\ tmr[0] = "TMR_SYNC"
      <4>1. Sync(m)
        BY <1>1, <1>6, <1>7, <2>3, PendingFrom, PhaseOf
      <4> QED BY <2>0, <4>1 DEF Sync, AllIn
    <3>2. ~FSM!tmr_error_s
      <4>1. FSM!TmrNext(0) = "TMR_SYNC"
        BY <1>7, <2>0
      <4> QED BY <3>1, <4>1 DEF FSM!TmrNext
    <3>3. critical_section
      BY <1>1, <1>5, <1>6, <1>7, <2>3, <3>1, <3>2, ErrorNext
    <3>4. wr.reg = "CRITICAL_SECTION" /\ wr.val = FALSE
      <4>1. wr.reg = "CRITICAL_SECTION" /\ ~wr.val
        BY <1>7, <2>3, <3>3
      <4>2. PICK h \in Hart : WritesCritical(h, wr)
        BY <1>5, <4>1
      <4>3. wr.val \in BOOLEAN
        <5>1. IsCall(core[h].op, Critical) => program[core[h].op][2] \in BOOLEAN
          <6>1. ASSUME IsCall(core[h].op, Critical) PROVE CallAt(core[h].op) = program[core[h].op]
            BY <6>1 DEF IsCall, CallAt
          <6> QED BY <1>6, <6>1, CallTyped DEF IsCall
        <5> QED BY <4>2, <5>1 DEF WritesCritical
      <4> QED BY <4>1, <4>3
    <3> QED BY <1>9, <1>13, <3>1, <3>4
  <2> QED BY <2>2, <2>3
<1> QED BY <1>8, <1>11, <1>12, <1>13 DEF CriticalInv

LEMMA CriticalIdle == ASSUME CriticalInv, UNCHANGED vars PROVE CriticalInv'
BY Zenon DEF CriticalInv, CriticalJob, NoRepair, Entering, IsCall, AllIn, Together, vars, wrapperVars,
   ctrlVars, configVars, fsmVars, softwareVars

\* An error in a critical section, the first one, does not interrupt it: what
\* safe_FSM remembers is repaired when the section has been left.
THEOREM CriticalHolds ==
  ASSUME VotedUse, CriticalUse
  PROVE  Spec => []CriticalIsUndisturbed
<1>1. Init => CriticalInv
  BY CriticalFirst
<1>2. VotedInv /\ CriticalInv /\ [Next]_vars => CriticalInv'
  BY CriticalNext, CriticalIdle
<1>3. CriticalInv => CriticalIsUndisturbed
  BY HartIs DEF CriticalInv, NoRepair, CriticalIsUndisturbed
<1> QED BY <1>1, <1>2, <1>3, VotedInvariant, PTL DEF Spec

(***************************************************************************)
(* In every mode: the machines alone, and in the system.                   *)
(***************************************************************************)
\* Whatever the harts, the control registers and the voter do between two
\* edges, the registers of the machines of safe_FSM.sv never leave their
\* encodings: every case of a next-state function yields a state.
THEOREM Typing == FSM!FsmSpec => []FSM!FsmTypeOK
<1>1. FSM!FsmInit => FSM!FsmTypeOK
  <2>1. "TMR_RESET" \in FSM!TmrState /\ "DMR_RESET" \in FSM!DmrState
    BY DEF FSM!TmrState, FSM!DmrState
  <2>2. "RESET" \in FSM!SafeState /\ "SINGLE_RESET" \in FSM!SingleState
    BY DEF FSM!SafeState, FSM!SingleState
  <2>3. [seen |-> FALSE, pending |-> FALSE] \in [seen : BOOLEAN, pending : BOOLEAN]
    OBVIOUS
  <2>4. FALSE \in BOOLEAN
    OBVIOUS
  <2>5. QED
    BY <2>1, <2>2, <2>3, <2>4, Zenon DEF FSM!FsmInit, FSM!FsmTypeOK
<1>2. /\ FSM!FsmTypeOK
      /\ mismatch \in BOOLEAN
      /\ [FSM!FsmClock]_<<FSM!fsmVars, FSM!inputs>>
      => FSM!FsmTypeOK'
  <2>1. SUFFICES ASSUME FSM!FsmTypeOK, mismatch \in BOOLEAN, FSM!FsmClock
                 PROVE  FSM!FsmTypeOK'
    BY DEF FSM!FsmTypeOK, FSM!fsmVars
  <2>2. safe' \in FSM!SafeState /\ single' \in FSM!SingleState
    BY <2>1, StatesTyped DEF FSM!FsmTypeOK, FSM!FsmClock
  <2>3. tmr' \in [FSM!Hart -> FSM!TmrState]
    BY <2>1, StatesTyped DEF FSM!FsmTypeOK, FSM!FsmClock
  <2>4. dmr' \in [FSM!Hart -> FSM!DmrState]
    BY <2>1, StatesTyped DEF FSM!FsmTypeOK, FSM!FsmClock
  <2>5. delay_ff' \in BOOLEAN
    BY <2>1 DEF FSM!FsmClock, FSM!DelayNext
  <2>6. tmr_error_ff' \in [seen : BOOLEAN, pending : BOOLEAN]
    BY <2>1 DEF FSM!FsmTypeOK, FSM!FsmClock, FSM!TmrErrorNext
  <2>7. QED
    BY <2>2, <2>3, <2>4, <2>5, <2>6 DEF FSM!FsmTypeOK
<1>3. QED
  BY <1>1, <1>2, PTL DEF FSM!FsmSpec

(***************************************************************************)
(* Each step of the system, whatever the programs and the modes they use,  *)
(* is one edge of the clock.                                               *)
(***************************************************************************)
Ticking == (\E wr : Clock(wr)) /\ (Undisturbed \/ Disturbed)

LEMMA BusTicks ==
  /\ \A wr : Bus(wr) => Ticking
  /\ NoBus => Ticking
  /\ \A r, v : Store(r, v) => Ticking
  /\ \A r, v : HostWrites(r, v) => Ticking
BY Zenon DEF Bus, NoBus, Store, HostWrites, Ticking

LEMMA InstructionTicks == ASSUME NEW G, Instruction(G) PROVE Ticking
<1>1. CASE RomSleep(G) \/ DebugEntry(G) \/ HaltBoot(G) \/ SingleBoot(G) \/ StartUp(G) \/ CallEnd(G)
  BY <1>1, BusTicks, Zenon DEF RomSleep, DebugEntry, HaltBoot, SingleBoot, StartUp, CallEnd
<1>2. CASE SafeActivate(G)
  BY <1>2, BusTicks, Zenon DEF SafeActivate
<1>3. CASE SafeStop(G)
  BY <1>3, BusTicks, Zenon DEF SafeStop
<1>4. CASE StoreCheckpoint(G)
  BY <1>4, BusTicks, Zenon DEF StoreCheckpoint
<1>5. CASE OtherCall(G) \/ Exit(G)
  BY <1>5, BusTicks, Zenon DEF OtherCall, Exit
<1>6. CASE Handler(G)
  BY <1>6, BusTicks, Zenon DEF Handler
<1> QED BY <1>1, <1>2, <1>3, <1>4, <1>5, <1>6 DEF Instruction

LEMMA StepTicks == Next => Ticking
<1> SUFFICES ASSUME Next PROVE Ticking
  OBVIOUS
<1>1. CASE HostStep
  BY <1>1, BusTicks, Zenon DEF HostStep, Choose, Configure, Start, Serve, ExternalStop
<1>2. CASE Harts
  <2>1. CASE \E G \in Steppers : Instruction(G)
    BY <2>1, InstructionTicks, Zenon
  <2>2. CASE \E G \in Within(FSM!Interrupt_Halt \ Halted) : EnterDebug(G)
    BY <2>2, BusTicks, Zenon DEF EnterDebug
  <2>3. CASE TakeInterrupt(FSM!Interrupt_Sync, "sync_ack") \/ TakeInterrupt(FSM!Interrupt_swResync, "resync_ack")
    BY <2>3, BusTicks, Zenon DEF TakeInterrupt
  <2>4. CASE \E h \in FSM!Hart : IsolatedSleep(h)
    BY <2>4, BusTicks, Zenon DEF IsolatedSleep
  <2> QED BY <1>2, <2>1, <2>2, <2>3, <2>4, Zenon DEF Harts, HartStep
<1>3. CASE Fault \/ Edge
  BY <1>3, Zenon DEF Fault, Edge, Ticking
<1> QED BY <1>1, <1>2, <1>3 DEF Next

\* The system is an environment of the machines, and its steps are theirs:
\* in no mode, and by no program, is a machine brought out of its encoding.
THEOREM Encodings == Spec => []FSM!FsmTypeOK
<1>1. Init => FSM!FsmInit /\ mismatch \in BOOLEAN
  BY DEF Init, WrapperInit
<1>2. [Next]_vars => [FSM!FsmClock]_<<FSM!fsmVars, FSM!inputs>>
  <2>1. Next => FSM!FsmClock
    BY StepTicks DEF Ticking, Clock
  <2>2. UNCHANGED vars => UNCHANGED <<FSM!fsmVars, FSM!inputs>>
    BY DEF vars, wrapperVars, ctrlVars, configVars, jobVars, fsmVars, softwareVars, FSM!fsmVars, FSM!inputs,
           Asleep, Halted, Acked
  <2> QED BY <2>1, <2>2
<1>3. mismatch \in BOOLEAN /\ [Next]_vars => (mismatch \in BOOLEAN)'
  <2>1. mismatch \in BOOLEAN /\ Ticking => mismatch' \in BOOLEAN
    BY DEF Ticking, Undisturbed, Disturbed
  <2>2. UNCHANGED vars => mismatch' = mismatch
    BY DEF vars
  <2> QED BY <2>1, <2>2, StepTicks
<1>4. Spec => FSM!FsmSpec
  BY <1>1, <1>2, <1>3, PTL DEF Spec, FSM!FsmSpec
<1> QED BY <1>4, Typing
=============================================================================
