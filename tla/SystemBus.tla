------------------------------ MODULE SystemBus ------------------------------
(***************************************************************************)
(* The system bus (rtl/bus_system.sv, xbar_system.sv with xbar_varlat.sv   *)
(* and addr_dec_resp_mux_varlat.sv): every master has a decoder that lets  *)
(* one request at a time pass, every slave has an arbiter.                 *)
(*                                                                         *)
(* Nothing on the wires says whose answer a slave gives: it is taken by    *)
(* the masters that wait for that slave.  That it is the right one rests   *)
(* on what decoders, arbiters and slaves do together.                      *)
(*                                                                         *)
(* A request is the slave its address selects.  On each edge the masters   *)
(* ask for what they want: they may withdraw a request, as the comparators *)
(* and the isolation of the harts make them do.                            *)
(***************************************************************************)
EXTENDS RrArbTree

CONSTANTS
  NumIn,    \* masters
  Quick,    \* memories and peripherals: they grant at once, answer one edge later
  Remote,   \* slaves outside, which take any time
  Error,    \* ERROR_IDX, for addresses that no rule matches: nothing drives its grant
  None      \* no request

Slave == Quick \cup Remote \cup {Error}

ASSUME NumInAssumption == NumIn \in Nat \ {0}

ASSUME SlaveAssumption ==
  /\ Quick \cap Remote = {} /\ Error \notin Quick \cup Remote
  /\ None \notin Slave

Nobody == -1
Master == Inputs(NumIn)

VARIABLES
  inflight,  \* valid_inflight_q: it waits for an answer
  bank_sel,  \* bank_sel_q: from this slave
  rr_q,      \* the arbiters
  serves,    \* the master whose request a slave has taken, or Nobody
  me,        \* the master that is followed
  asked,     \* the slave it has asked for on the edge before, in vain, or None
  waited     \* how often this slave has granted since it has been asking

vars == <<inflight, bank_sel, rr_q, serves, me, asked, waited>>

Busy(s) == serves[s] # Nobody

(***************************************************************************)
(* The wires, when the masters ask for the slaves in want, those in ans    *)
(* answer and those in rdy would grant.                                    *)
(***************************************************************************)
vld_o(m, ans) == inflight[m] /\ bank_sel[m] \in ans

\* The request of a master passes its decoder.  Mutant: it always does.
Passes_Always(m, ans) == TRUE
Passes(m, ans) == ~inflight[m] \/ vld_o(m, ans)

sl_req(s, want, ans) == {m \in Master : want[m] = s /\ Passes(m, ans)}

gnt_o(m, want, ans, rdy) ==
  LET R == sl_req(want[m], want, ans) IN
  /\ want[m] \in rdy
  /\ m \in R
  /\ m = Winner(NumIn, R, rr_q[want[m]])

(***************************************************************************)
(* The slaves.  A quick one answers what it has taken on the edge before.  *)
(* A remote one takes a request when it has answered, or answers, the last *)
(* (that of X-HEEP is a bus of this kind, which sees one master here).     *)
(***************************************************************************)
Serial(s, ans) == ~Busy(s) \/ s \in ans

Answers(ans) ==
  /\ ans \subseteq {s \in Slave : Busy(s)}
  /\ \A s \in Quick : Busy(s) => s \in ans
Ready(rdy, ans) ==
  /\ Quick \subseteq rdy /\ rdy \subseteq Quick \cup Remote
  /\ \A s \in rdy \ Quick : Serial(s, ans)

(***************************************************************************)
(* One edge.                                                               *)
(***************************************************************************)
\* Mutant: the arbiter moves on when the slave answers.
RrQNext_Answer(want, ans, rdy) ==
  [s \in Slave |-> RrNext(sl_req(s, want, ans), rr_q[s], s \in ans)]
RrQNext(want, ans, rdy) ==
  [s \in Slave |-> RrNext(sl_req(s, want, ans), rr_q[s], s \in rdy)]

Edge(want, ans, rdy) ==
  /\ Answers(ans) /\ Ready(rdy, ans)
  /\ inflight' = [m \in Master |->
       gnt_o(m, want, ans, rdy) \/ (inflight[m] /\ ~vld_o(m, ans))]
  /\ bank_sel' = [m \in Master |->
       IF gnt_o(m, want, ans, rdy) THEN want[m] ELSE bank_sel[m]]
  /\ rr_q' = RrQNext(want, ans, rdy)
  /\ serves' = [s \in Slave |->
       LET taken == {m \in Master : want[m] = s /\ gnt_o(m, want, ans, rdy)} IN
       IF taken # {} THEN CHOOSE m \in taken : TRUE
       ELSE IF s \in ans THEN Nobody ELSE serves[s]]
  /\ LET vain == /\ want[me] # None /\ Passes(me, ans)
                 /\ ~gnt_o(me, want, ans, rdy)
         before == IF want[me] = asked THEN waited ELSE 0
     IN /\ asked' = IF vain THEN want[me] ELSE None
        /\ waited' = IF ~vain THEN 0
                     ELSE IF want[me] \in rdy THEN before + 1 ELSE before
  /\ UNCHANGED me

Init ==
  /\ inflight = [m \in Master |-> FALSE]
  /\ bank_sel = [m \in Master |-> Error]
  /\ rr_q = [s \in Slave |-> 0]
  /\ serves = [s \in Slave |-> Nobody]
  /\ me \in Master
  /\ asked = None
  /\ waited = 0

Next == \E want \in [Master -> Slave \cup {None}],
           ans \in SUBSET Slave, rdy \in SUBSET Slave : Edge(want, ans, rdy)
Spec == Init /\ [][Next]_vars

(***************************************************************************)
(* Properties.                                                             *)
(***************************************************************************)
TypeOK ==
  /\ inflight \in [Master -> BOOLEAN]
  /\ bank_sel \in [Master -> Slave]
  /\ rr_q \in [Slave -> Master]
  /\ serves \in [Slave -> Master \cup {Nobody}]
  /\ me \in Master
  /\ asked \in Slave \cup {None}
  /\ waited \in Nat

\* A slave that answers is heard by the master whose request it has taken, by
\* this one only, and no request a master waits for is unknown to its slave.
AnswersReachTheirMaster ==
  /\ \A s \in Slave : Busy(s) => inflight[serves[s]] /\ bank_sel[serves[s]] = s
  /\ \A m \in Master : inflight[m] => serves[bank_sel[m]] = m

\* Among any requests an arbiter grants exactly one, whatever the requests were
\* of which the last grant has left it in this state.
OneWinner ==
  \A s \in Slave, R \in (SUBSET Master) \ {{}} :
    \E m \in R : Winners(NumIn, R, rr_q[s]) = {m}

\* The arbiters "employ non-starving round robin-arbitration", although their
\* trees and counters decide separately.
\* A master that keeps asking is granted before its slave has granted every
\* other master once: at a quick slave, in fewer edges than there are masters.
NobodyStarves == waited < NumIn
=============================================================================
