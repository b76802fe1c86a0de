---------------------------- MODULE RegisterPort -----------------------------
(***************************************************************************)
(* The way to the control registers (rtl/bus_system.sv with                *)
(* eros_xbar_varlat_one_to_n.sv, eros_xbar_varlat_n_to_one.sv,             *)
(* periph_to_reg.sv and reg_mux.sv):                                       *)
(*                                                                         *)
(*   hart -- demux --+-- system bus                                        *)
(*                   +-- neck (all harts) -- converter --+                 *)
(*                                              host ----+-- registers     *)
(*                                                                         *)
(* On each edge a hart asks for an address of the system bus or for one of *)
(* the registers, and the host asks for a register, or not.  What the      *)
(* registers do with an access is SafeWrapperCtrl: one access per edge.    *)
(***************************************************************************)
EXTENDS RrArbTree

CONSTANT NHARTS

ASSUME HartsAssumption == NHARTS \in Nat \ {0}

Hart == Inputs(NHARTS)
Target == {"bus", "csr"}
Nothing == "none"
NoHart == -1

HostPort == 0   \* ports of reg_mux
NeckPort == 1

VARIABLES
  valid_inflight_q,  \* of each demux: its hart waits for an answer
  bank_sel_q,        \* of each demux: from this side
  neck,              \* valid_inflight_q of each input of the neck
  state_q,           \* whether the neck waits for an answer
  rr_neck,           \* rr_q of the neck
  rr_mux,            \* rr_q of reg_mux
  r_valid_q,         \* the converter answers
  reader,            \* the hart that had the registers on the edge before, or NoHart
  onbus,             \* the harts whose request the system bus has taken
  hart,              \* the hart that is followed
  hartWaited,        \* edges it has been asking for a register
  hostWaited         \* edges the host has

regVars == <<valid_inflight_q, bank_sel_q, neck, state_q, rr_neck, rr_mux,
             r_valid_q, reader, onbus, hart, hartWaited, hostWaited>>

(***************************************************************************)
(* The wires.  want: what the harts ask for; host: the host asks; ans: the *)
(* harts that the system bus answers.                                      *)
(***************************************************************************)
NeckAnswers(h) == neck[h] /\ r_valid_q
demux_vld_o(h, ans) ==
  /\ valid_inflight_q[h]
  /\ IF bank_sel_q[h] = "bus" THEN h \in ans ELSE NeckAnswers(h)

\* A demux lets one request pass at a time, and so does each input of the neck.
LetsPass(h, want, ans) == ~valid_inflight_q[h] \/ demux_vld_o(h, ans)

AtNeck(want, ans) ==
  {h \in Hart : want[h] = "csr" /\ LetsPass(h, want, ans) /\ (~neck[h] \/ NeckAnswers(h))}

\* The neck passes nothing while an answer is missing.
Open == ~state_q \/ r_valid_q
xbar_slave_req(want, ans) == Open /\ AtNeck(want, ans) # {}

\* Requests at reg_mux, and the port that has the registers.
in_valid(want, host, ans) ==
  (IF host THEN {HostPort} ELSE {}) \cup (IF xbar_slave_req(want, ans) THEN {NeckPort} ELSE {})
Access(want, host, ans) ==
  LET R == in_valid(want, host, ans) IN
  IF R = {} THEN Nothing
  ELSE IF Winner(2, R, rr_mux) = HostPort THEN "host" ELSE "neck"

\* Mutant: the neck is granted while the host has the registers.
NeckGranted_NoHost(want, host, ans) == xbar_slave_req(want, ans)
NeckGranted(want, host, ans) == Access(want, host, ans) = "neck"
CsrGnt(h, want, host, ans) ==
  /\ NeckGranted(want, host, ans)
  /\ h \in AtNeck(want, ans)
  /\ h = Winner(NHARTS, AtNeck(want, ans), rr_neck)
BusGnt(h, want, ans, rdy) == want[h] = "bus" /\ LetsPass(h, want, ans) /\ h \in rdy

\* The priority of the neck.
RrNeckNext(want, host, ans) ==
  RrNext(AtNeck(want, ans), rr_neck, NeckGranted(want, host, ans))

\* The priority of reg_mux.  Mutant: it moves on for the host only.
RrMuxNext_Host(want, host, ans) ==
  RrNext(in_valid(want, host, ans), rr_mux, Access(want, host, ans) = "host")
RrMuxNext(want, host, ans) == RrNext(in_valid(want, host, ans), rr_mux, TRUE)

(***************************************************************************)
(* One edge.  The system bus (SystemBus) takes one request of a hart at a  *)
(* time and answers it at any time.                                        *)
(***************************************************************************)
PortEdge(want, host, ans, rdy) ==
  /\ ans \subseteq onbus
  /\ rdy \cap onbus \subseteq ans
  /\ valid_inflight_q' = [h \in Hart |->
       \/ CsrGnt(h, want, host, ans) \/ BusGnt(h, want, ans, rdy)
       \/ valid_inflight_q[h] /\ ~demux_vld_o(h, ans)]
  /\ bank_sel_q' = [h \in Hart |->
       IF CsrGnt(h, want, host, ans) \/ BusGnt(h, want, ans, rdy) THEN want[h]
       ELSE bank_sel_q[h]]
  /\ neck' = [h \in Hart |->
       CsrGnt(h, want, host, ans) \/ (neck[h] /\ ~NeckAnswers(h))]
  /\ state_q' = IF Open THEN NeckGranted(want, host, ans) ELSE state_q
  /\ rr_neck' = RrNeckNext(want, host, ans)
  /\ rr_mux' = RrMuxNext(want, host, ans)
  /\ r_valid_q' = NeckGranted(want, host, ans)
  /\ reader' = IF Access(want, host, ans) = "neck"
               THEN Winner(NHARTS, AtNeck(want, ans), rr_neck) ELSE NoHart
  /\ onbus' = (onbus \ ans) \cup {h \in Hart : BusGnt(h, want, ans, rdy)}
  /\ hartWaited' = IF /\ want[hart] = "csr" /\ LetsPass(hart, want, ans)
                      /\ ~CsrGnt(hart, want, host, ans)
                   THEN hartWaited + 1 ELSE 0
  /\ hostWaited' = IF host /\ Access(want, host, ans) # "host" THEN hostWaited + 1 ELSE 0
  /\ UNCHANGED hart

PortInit ==
  /\ valid_inflight_q = [h \in Hart |-> FALSE]
  /\ bank_sel_q = [h \in Hart |-> "bus"]
  /\ neck = [h \in Hart |-> FALSE]
  /\ state_q = FALSE
  /\ rr_neck = 0
  /\ rr_mux = 0
  /\ r_valid_q = FALSE
  /\ reader = NoHart
  /\ onbus = {}
  /\ hart \in Hart
  /\ hartWaited = 0
  /\ hostWaited = 0

PortNext == \E want \in [Hart -> Target \cup {Nothing}], host \in BOOLEAN,
           ans \in SUBSET Hart, rdy \in SUBSET Hart : PortEdge(want, host, ans, rdy)
PortSpec == PortInit /\ [][PortNext]_regVars

(***************************************************************************)
(* Properties.                                                             *)
(***************************************************************************)
\* A hart waits for one answer at a time, from the side that has its request.
\* Exactly the hart that had the registers hears their answer, on the next edge:
\* no access is answered that the host kept from the registers, or twice.
AnswersReachTheirHart ==
  /\ \A h \in Hart : neck[h] <=> reader = h
  /\ \A h \in Hart : neck[h] <=> valid_inflight_q[h] /\ bank_sel_q[h] = "csr"
  /\ \A h \in Hart : h \in onbus <=> valid_inflight_q[h] /\ bank_sel_q[h] = "bus"
  /\ r_valid_q <=> reader # NoHart

\* Whatever the others do, a hart that asks for a register has it before each
\* other hart has had it once, with the host in between, and the host has it
\* after one edge.
RegistersAreShared == hartWaited < 2 * NHARTS /\ hostWaited < 2
=============================================================================
