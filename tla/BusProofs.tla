------------------------------- MODULE BusProofs -------------------------------
(***************************************************************************)
(* The system bus for any number of masters and any slaves: an answer is   *)
(* heard by the master it is for, and no master starves.  The way to the   *)
(* control registers for any number of harts: the same.  Then the slave    *)
(* that an address selects (AddressMap), for every address.                *)
(***************************************************************************)
EXTENDS SystemBus, RegisterPort, AddressMap, CommonProofs

(***************************************************************************)
(* One edge.  A slave takes one request at most, and only when it has none *)
(* left to answer.                                                         *)
(***************************************************************************)
LEMMA OneIsTaken ==
  ASSUME NEW want, NEW ans, NEW rdy, NEW m, NEW n, want[m] = want[n],
         gnt_o(m, want, ans, rdy), gnt_o(n, want, ans, rdy)
  PROVE  m = n
BY DEF gnt_o

LEMMA TakenWhenFree ==
  ASSUME NEW want, NEW ans, NEW rdy, Answers(ans), Ready(rdy, ans),
         NEW m \in Master, gnt_o(m, want, ans, rdy)
  PROVE  /\ want[m] \in Slave
         /\ Passes(m, ans)
         /\ Busy(want[m]) => want[m] \in ans
BY DEF gnt_o, sl_req, Answers, Ready, Serial, Slave

LEMMA TakenIsServed ==
  ASSUME NEW want, NEW ans, NEW rdy, Edge(want, ans, rdy),
         NEW m \in Master, gnt_o(m, want, ans, rdy)
  PROVE  want[m] \in Slave /\ serves'[want[m]] = m
<1>1. Answers(ans) /\ Ready(rdy, ans)
  BY DEF Edge
<1>2. want[m] \in Slave
  BY <1>1, TakenWhenFree
<1>3. {n \in Master : want[n] = want[m] /\ gnt_o(n, want, ans, rdy)} = {m}
  BY OneIsTaken
<1>4. QED
  BY <1>2, <1>3 DEF Edge

LEMMA OthersAreServed ==
  ASSUME NEW want, NEW ans, NEW rdy, Edge(want, ans, rdy), NEW s \in Slave,
         \A m \in Master : ~(want[m] = s /\ gnt_o(m, want, ans, rdy))
  PROVE  serves'[s] = IF s \in ans THEN Nobody ELSE serves[s]
<1>1. {m \in Master : want[m] = s /\ gnt_o(m, want, ans, rdy)} = {}
  OBVIOUS
<1>2. QED
  BY <1>1 DEF Edge

LEMMA NobodyIsNoMaster == Nobody \notin Master
BY NumInAssumption DEF Nobody, Master, Inputs

(***************************************************************************)
(* The registers hold values of their types.                               *)
(***************************************************************************)
THEOREM Typing == Spec => []TypeOK
<1>1. Init => TypeOK
  <2>1. 0 \in Master
    BY NumInAssumption DEF Master, Inputs
  <2>2. QED
    BY <2>1 DEF Init, TypeOK, Slave
<1>2. TypeOK /\ [Next]_vars => TypeOK'
  <2>1. CASE UNCHANGED vars
    BY <2>1 DEF TypeOK, vars
  <2>2. ASSUME TypeOK, NEW want \in [Master -> Slave \cup {None}],
               NEW ans \in SUBSET Slave, NEW rdy \in SUBSET Slave,
               Edge(want, ans, rdy)
        PROVE  TypeOK'
    <3>1. \A m \in Master : gnt_o(m, want, ans, rdy) => want[m] \in Slave
      BY <2>2, TakenIsServed
    <3>2. inflight' \in [Master -> BOOLEAN]
      BY <2>2 DEF Edge, TypeOK, gnt_o, vld_o
    <3>3. bank_sel' \in [Master -> Slave]
      BY <2>2, <3>1 DEF Edge, TypeOK
    <3>4. rr_q' \in [Slave -> Master]
      <4>1. ASSUME NEW s \in Slave
            PROVE  RrNext(sl_req(s, want, ans), rr_q[s], s \in rdy) \in Master
        <5>1. sl_req(s, want, ans) \in SUBSET Master /\ rr_q[s] \in Master
          BY <2>2 DEF sl_req, TypeOK
        <5>2. (s \in rdy) \in BOOLEAN
          OBVIOUS
        <5>3. QED
          BY <5>1, <5>2, NumInAssumption, RrNextType DEF Master
      <4>2. QED
        BY <2>2, <4>1 DEF Edge, RrQNext
    <3>5. serves' \in [Slave -> Master \cup {Nobody}]
      <4>1. ASSUME NEW s \in Slave PROVE serves'[s] \in Master \cup {Nobody}
        <5>1. CASE \E m \in Master : want[m] = s /\ gnt_o(m, want, ans, rdy)
          BY <2>2, <5>1, TakenIsServed
        <5>2. CASE ~ \E m \in Master : want[m] = s /\ gnt_o(m, want, ans, rdy)
          <6>1. serves'[s] = IF s \in ans THEN Nobody ELSE serves[s]
            BY <2>2, <5>2, OthersAreServed
          <6>2. QED
            BY <2>2, <6>1 DEF TypeOK
        <5>3. QED
          BY <5>1, <5>2
      <4>2. QED
        BY <2>2, <4>1 DEF Edge
    <3>6. me' \in Master
      BY <2>2 DEF Edge, TypeOK
    <3>7. asked' \in Slave \cup {None}
      BY <2>2 DEF Edge, TypeOK
    <3>8. waited' \in Nat
      BY <2>2 DEF Edge, TypeOK
    <3>9. QED
      BY <3>2, <3>3, <3>4, <3>5, <3>6, <3>7, <3>8 DEF TypeOK
  <2>3. QED
    BY <2>1, <2>2 DEF Next
<1>3. QED
  BY <1>1, <1>2, PTL DEF Spec

(***************************************************************************)
(* For any number of masters and any slaves, a slave that answers is heard *)
(* by the master whose request it has taken, and by no other, although an  *)
(* answer says only which slave gives it.  (rdata_o, vld_o of              *)
(* addr_dec_resp_mux_varlat.sv.)                                           *)
(***************************************************************************)
THEOREM AnswersAreRight == Spec => []AnswersReachTheirMaster
<1>1. Init => AnswersReachTheirMaster
  BY DEF Init, AnswersReachTheirMaster, Busy
<1>2. TypeOK /\ AnswersReachTheirMaster /\ [Next]_vars => AnswersReachTheirMaster'
  <2>1. CASE UNCHANGED vars
    BY <2>1 DEF AnswersReachTheirMaster, Busy, vars
  <2>2. ASSUME TypeOK, AnswersReachTheirMaster,
               NEW want \in [Master -> Slave \cup {None}],
               NEW ans \in SUBSET Slave, NEW rdy \in SUBSET Slave,
               Edge(want, ans, rdy)
        PROVE  AnswersReachTheirMaster'
    <3>1. ASSUME NEW m \in Master, gnt_o(m, want, ans, rdy)
          PROVE  inflight'[m] /\ bank_sel'[m] = want[m]
      BY <2>2, <3>1 DEF Edge
    <3>2. ASSUME NEW m \in Master, ~gnt_o(m, want, ans, rdy)
          PROVE  /\ inflight'[m] <=> inflight[m] /\ bank_sel[m] \notin ans
                 /\ bank_sel'[m] = bank_sel[m]
      BY <2>2, <3>2 DEF Edge, vld_o, TypeOK
    <3>3. ASSUME NEW s \in Slave, serves'[s] # Nobody
          PROVE  inflight'[serves'[s]] /\ bank_sel'[serves'[s]] = s
      <4>1. CASE \E m \in Master : want[m] = s /\ gnt_o(m, want, ans, rdy)
        BY <2>2, <3>1, <4>1, TakenIsServed
      <4>2. CASE ~ \E m \in Master : want[m] = s /\ gnt_o(m, want, ans, rdy)
        <5>1. serves'[s] = serves[s] /\ s \notin ans
          BY <2>2, <3>3, <4>2, OthersAreServed
        <5>2. /\ serves[s] \in Master
              /\ inflight[serves[s]] /\ bank_sel[serves[s]] = s
          BY <2>2, <3>3, <5>1 DEF TypeOK, AnswersReachTheirMaster, Busy
        <5>3. ~Passes(serves[s], ans)
          BY <5>1, <5>2 DEF Passes, vld_o
        <5>4. ~gnt_o(serves[s], want, ans, rdy)
          BY <2>2, <5>2, <5>3, TakenWhenFree DEF Edge
        <5>5. QED
          BY <3>2, <5>1, <5>2, <5>4
      <4>3. QED
        BY <4>1, <4>2
    <3>4. ASSUME NEW m \in Master, inflight'[m]
          PROVE  serves'[bank_sel'[m]] = m
      <4>1. CASE gnt_o(m, want, ans, rdy)
        BY <2>2, <3>1, <4>1, TakenIsServed
      <4>2. CASE ~gnt_o(m, want, ans, rdy)
        <5>1. inflight[m] /\ bank_sel[m] \notin ans /\ bank_sel'[m] = bank_sel[m]
          BY <3>2, <3>4, <4>2
        <5>2. /\ bank_sel[m] \in Slave
              /\ serves[bank_sel[m]] = m /\ Busy(bank_sel[m])
          BY <2>2, <5>1, NobodyIsNoMaster DEF TypeOK, AnswersReachTheirMaster, Busy
        <5>3. \A n \in Master : ~(want[n] = bank_sel[m] /\ gnt_o(n, want, ans, rdy))
          BY <2>2, <5>1, <5>2, TakenWhenFree DEF Edge
        <5>4. serves'[bank_sel[m]] = serves[bank_sel[m]]
          BY <2>2, <5>1, <5>2, <5>3, OthersAreServed
        <5>5. QED
          BY <5>1, <5>2, <5>4
      <4>3. QED
        BY <4>1, <4>2
    <3>5. QED
      BY <3>3, <3>4 DEF AnswersReachTheirMaster, Busy
  <2>3. QED
    BY <2>1, <2>2 DEF Next
<1>3. QED
  BY <1>1, <1>2, Typing, PTL DEF Spec

(***************************************************************************)
(* An arbiter that any state of the bus, and any requests, leave to decide *)
(* grants exactly one of them.  (rr_arb_tree.sv, for any number of inputs.) *)
(***************************************************************************)
THEOREM OneIsGranted == Spec => []OneWinner
<1>1. OneWinner
  BY OneWins, NumInAssumption DEF OneWinner, Master
<1>2. QED
  BY <1>1, PTL

(***************************************************************************)
(* No master starves.  What decreases is the way from the priority of the  *)
(* slave to the master: a grant to another moves the priority towards the  *)
(* master and never past it, and the tree grants the one it points at.     *)
(***************************************************************************)
WaitIsBounded ==
  IF asked = None THEN waited = 0
  ELSE waited + Distance(NumIn, rr_q[asked], me) <= NumIn - 1

\* Masters are numbers, and a priority is less than a round away from each.
LEMMA MastersAreNumbers == Master \subseteq Nat
BY NumInAssumption DEF Master, Inputs

LEMMA DistanceType ==
  ASSUME NEW rr \in Master, NEW i \in Master
  PROVE  Distance(NumIn, rr, i) \in Nat /\ Distance(NumIn, rr, i) <= NumIn - 1
BY NumInAssumption DEF Distance, Master, Inputs

\* An edge in vain: the slave grants nobody, or the priority comes closer.
LEMMA WaitStaysBounded ==
  ASSUME TypeOK, WaitIsBounded, NEW want \in [Master -> Slave \cup {None}],
         NEW ans \in SUBSET Slave, NEW rdy \in SUBSET Slave, Edge(want, ans, rdy)
  PROVE  WaitIsBounded'
<1> DEFINE s == want[me]
           R == sl_req(s, want, ans)
           vain == s # None /\ Passes(me, ans) /\ ~gnt_o(me, want, ans, rdy)
           before == IF s = asked THEN waited ELSE 0
<1>1. /\ asked' = IF vain THEN s ELSE None
      /\ waited' = IF ~vain THEN 0 ELSE IF s \in rdy THEN before + 1 ELSE before
      /\ me' = me /\ me \in Master
  BY DEF Edge, TypeOK
<1>2. CASE ~vain
  BY <1>1, <1>2 DEF WaitIsBounded
<1>3. CASE vain
  <2>1. s \in Slave /\ me \in R /\ R \subseteq Master /\ None \notin Slave
    BY <1>1, <1>3, SlaveAssumption DEF sl_req
  <2>2. rr_q[s] \in Master /\ rr_q'[s] = RrNext(R, rr_q[s], s \in rdy) /\ waited \in Nat
    BY <2>1 DEF Edge, RrQNext, TypeOK
  <2>3. /\ Distance(NumIn, rr_q[s], me) \in Nat
        /\ Distance(NumIn, rr_q[s], me) <= NumIn - 1
    BY <1>1, <2>2, DistanceType
  <2>4. before \in Nat /\ before + Distance(NumIn, rr_q[s], me) <= NumIn - 1
    <3>1. CASE s = asked
      BY <2>1, <2>2, <3>1 DEF WaitIsBounded
    <3>2. CASE s # asked
      BY <2>3, <3>2, NumInAssumption
    <3> QED BY <3>1, <3>2
  <2>5. CASE s \notin rdy
    <3>1. rr_q'[s] = rr_q[s]
      BY <2>2, <2>5 DEF RrNext
    <3> QED BY <1>1, <1>3, <2>1, <2>4, <2>5, <3>1 DEF WaitIsBounded
  <2>6. CASE s \in rdy
    <3>1. me # Winner(NumIn, R, rr_q[s])
      BY <1>3, <2>1, <2>6 DEF gnt_o
    <3>2. rr_q[s] # me
      BY <2>1, <3>1, WinnerIs, NumInAssumption DEF Master
    <3>3. rr_q'[s] = NextIdx(R, rr_q[s])
      BY <2>1, <2>2, <2>6 DEF RrNext
    <3>4. Distance(NumIn, rr_q'[s], me) < Distance(NumIn, rr_q[s], me)
      BY <2>1, <2>2, <3>2, <3>3, NextIsCloser, NumInAssumption DEF Master
    <3>5. rr_q'[s] \in Master
      BY <2>1, <2>2, <3>3, NextIdxIs, MastersAreNumbers
    <3>6. Distance(NumIn, rr_q'[s], me) \in Nat /\ Distance(NumIn, rr_q[s], me) \in Nat
      BY <1>1, <2>3, <3>5, DistanceType
    <3>7. waited' = before + 1 /\ asked' = s /\ s # None
      BY <1>1, <1>3, <2>6
    <3>8. waited' + Distance(NumIn, rr_q'[s], me) <= NumIn - 1
      BY <2>4, <3>4, <3>6, <3>7, NumInAssumption
    <3> QED BY <1>1, <3>7, <3>8 DEF WaitIsBounded
  <2> QED BY <2>5, <2>6
<1> QED BY <1>2, <1>3

(***************************************************************************)
(* For any number of masters, one that keeps asking a slave is granted     *)
(* before the slave has granted every other master once.                   *)
(***************************************************************************)
THEOREM NoStarvation == Spec => []NobodyStarves
<1>1. Init => WaitIsBounded
  BY DEF Init, WaitIsBounded
<1>2. TypeOK /\ WaitIsBounded /\ [Next]_vars => WaitIsBounded'
  <2>1. CASE UNCHANGED vars
    BY <2>1 DEF WaitIsBounded, vars
  <2>2. QED
    BY <2>1, WaitStaysBounded DEF Next
<1>3. TypeOK /\ WaitIsBounded => NobodyStarves
  <2>1. CASE asked = None
    BY <2>1, NumInAssumption DEF WaitIsBounded, NobodyStarves
  <2>2. ASSUME asked # None, TypeOK, WaitIsBounded PROVE NobodyStarves
    <3>1. rr_q[asked] \in Master /\ me \in Master
      BY <2>2 DEF TypeOK
    <3>2. Distance(NumIn, rr_q[asked], me) \in Nat
      BY <3>1, DistanceType
    <3> QED BY <2>2, <3>2, NumInAssumption DEF WaitIsBounded, NobodyStarves, TypeOK
  <2> QED BY <2>1, <2>2
<1>4. QED
  BY <1>1, <1>2, <1>3, Typing, PTL DEF Spec

(***************************************************************************)
(* The way to the control registers: the inductive invariant.              *)
(***************************************************************************)
PortTypes ==
  /\ valid_inflight_q \in [Hart -> BOOLEAN]
  /\ bank_sel_q \in [Hart -> Target]
  /\ neck \in [Hart -> BOOLEAN]
  /\ state_q \in BOOLEAN /\ r_valid_q \in BOOLEAN
  /\ rr_neck \in Hart /\ rr_mux \in Inputs(2)
  /\ reader \in Hart \cup {NoHart}
  /\ onbus \subseteq Hart
  /\ hart \in Hart
  /\ hartWaited \in Nat /\ hostWaited \in Nat

\* The registers answer on the edge after an access: the neck never waits longer.
NeverClosed == state_q = r_valid_q

\* A hart that waits is as many accesses of the neck away as the priority of the
\* neck is from it, and the host comes before each of them at most once.
HartWaits ==
  hartWaited + 2 * Distance(NHARTS, rr_neck, hart) + (1 - rr_mux) <= 2 * NHARTS - 1

\* The host is kept waiting once, and has the priority then.
HostWaits == hostWaited = 0 \/ (hostWaited = 1 /\ rr_mux = HostPort)

\* Harts are numbers, and NoHart is none of them.
LEMMA HartsAreNumbers == Hart \subseteq Nat /\ NoHart \notin Hart
BY HartsAssumption DEF Hart, Inputs, NoHart

\* The priority of the neck is less than a round away from any hart.
LEMMA HartDistance ==
  ASSUME NEW rr \in Hart, NEW i \in Hart
  PROVE  Distance(NHARTS, rr, i) \in Nat /\ Distance(NHARTS, rr, i) <= NHARTS - 1
BY HartsAssumption DEF Distance, Hart, Inputs

(***************************************************************************)
(* reg_mux.                                                                *)
(***************************************************************************)
\* It has two ports.
LEMMA Ports == Inputs(2) = {0, 1}
BY DEF Inputs

\* Who has the registers: when both ask, the port that rr_mux points at.
LEMMA MuxAccess ==
  ASSUME NEW want, NEW host \in BOOLEAN, NEW ans, rr_mux \in Inputs(2)
  PROVE  /\ Access(want, host, ans) = "neck" <=>
              xbar_slave_req(want, ans) /\ (host => rr_mux = NeckPort)
         /\ Access(want, host, ans) = "host" <=>
              host /\ (xbar_slave_req(want, ans) => rr_mux = HostPort)
<1> DEFINE R == in_valid(want, host, ans)
<1>1. R \subseteq {0, 1} /\ (HostPort \in R <=> host)
      /\ (NeckPort \in R <=> xbar_slave_req(want, ans))
  BY DEF in_valid, HostPort, NeckPort
<1>2. CASE R = {}
  BY <1>1, <1>2 DEF Access, Nothing
<1>3. CASE R # {}
  <2>1. Winner(2, R, rr_mux) \in R /\ (rr_mux \in R => Winner(2, R, rr_mux) = rr_mux)
    BY <1>1, <1>3, WinnerIs, Ports
  <2>2. Access(want, host, ans) = IF Winner(2, R, rr_mux) = HostPort THEN "host" ELSE "neck"
    BY <1>3 DEF Access
  <2> QED BY <1>1, <2>1, <2>2, Ports DEF HostPort, NeckPort
<1> QED BY <1>2, <1>3

\* When both ask the priority changes sides.  When the neck asks alone it is its.
LEMMA MuxPriority ==
  ASSUME NEW want, NEW host \in BOOLEAN, NEW ans, rr_mux \in Inputs(2)
  PROVE  /\ RrMuxNext(want, host, ans) \in Inputs(2)
         /\ host /\ xbar_slave_req(want, ans) =>
              RrMuxNext(want, host, ans) = 1 - rr_mux
         /\ ~host /\ xbar_slave_req(want, ans) => RrMuxNext(want, host, ans) = NeckPort
<1> DEFINE R == in_valid(want, host, ans)
<1>1. R \subseteq {0, 1} /\ (HostPort \in R <=> host)
      /\ (NeckPort \in R <=> xbar_slave_req(want, ans))
  BY DEF in_valid, HostPort, NeckPort
<1>2. CASE R = {}
  BY <1>1, <1>2 DEF RrMuxNext, RrNext
<1>3. CASE R # {}
  <2>1. RrMuxNext(want, host, ans) = NextIdx(R, rr_mux)
    BY <1>3 DEF RrMuxNext, RrNext
  <2>2. /\ NextIdx(R, rr_mux) \in R
        /\ \A j \in R : j > rr_mux => rr_mux < NextIdx(R, rr_mux) /\ NextIdx(R, rr_mux) <= j
        /\ (\A j \in R : ~(j > rr_mux)) => \A j \in R : NextIdx(R, rr_mux) <= j
    <3>1. R \subseteq Nat /\ rr_mux \in Nat
      BY <1>1, Ports
    <3> QED BY <1>3, <3>1, NextIdxIs
  <2>3. NextIdx(R, rr_mux) \in {0, 1} /\ rr_mux \in {0, 1}
    BY <1>1, <2>2, Ports
  <2>4. CASE host /\ xbar_slave_req(want, ans)
    <3>1. R = {0, 1}
      BY <1>1, <2>4 DEF HostPort, NeckPort
    <3> HIDE DEF R
    <3> QED BY <2>1, <2>2, <2>3, <2>4, <3>1, Ports
  <2>5. CASE ~(host /\ xbar_slave_req(want, ans))
    BY <1>1, <2>1, <2>2, <2>3, <2>5, Ports DEF HostPort, NeckPort
  <2> QED BY <2>4, <2>5
<1> QED BY <1>2, <1>3

(***************************************************************************)
(* The neck.                                                               *)
(***************************************************************************)
\* When the neck has the registers, one hart at it has.
LEMMA NeckGrants ==
  ASSUME NEW want, NEW host \in BOOLEAN, NEW ans, rr_mux \in Inputs(2),
         NeckGranted(want, host, ans)
  PROVE  \E w \in AtNeck(want, ans) :
           /\ Winner(NHARTS, AtNeck(want, ans), rr_neck) = w
           /\ \A h \in Hart : CsrGnt(h, want, host, ans) <=> h = w
<1>1. xbar_slave_req(want, ans)
  BY MuxAccess DEF NeckGranted
<1>2. AtNeck(want, ans) \subseteq Hart /\ AtNeck(want, ans) # {}
  BY <1>1 DEF xbar_slave_req, AtNeck
<1>3. Winner(NHARTS, AtNeck(want, ans), rr_neck) \in AtNeck(want, ans)
  BY <1>2, WinnerIs, HartsAssumption DEF Hart
<1> QED BY <1>3 DEF CsrGnt

\* When it has not, none has.
LEMMA NoGrant ==
  ASSUME NEW want, NEW host, NEW ans, ~NeckGranted(want, host, ans)
  PROVE  \A h \in Hart : ~CsrGnt(h, want, host, ans)
BY DEF CsrGnt

(***************************************************************************)
(* The invariant holds at first, and an edge preserves it.                 *)
(***************************************************************************)
PortInv == PortTypes /\ NeverClosed /\ AnswersReachTheirHart /\ HartWaits /\ HostWaits

\* No hart waits after a reset.
LEMMA PortStarts == PortInit => PortInv
<1> SUFFICES ASSUME PortInit PROVE PortInv
  OBVIOUS
<1>1. 0 \in Hart /\ 0 \in Inputs(2)
  BY HartsAssumption, Ports DEF Hart, Inputs
<1>2. PortTypes
  BY <1>1 DEF PortInit, PortTypes, Target
<1>3. NeverClosed /\ HostWaits
  BY DEF PortInit, NeverClosed, HostWaits
<1>4. AnswersReachTheirHart
  BY HartsAreNumbers DEF PortInit, AnswersReachTheirHart
<1>5. HartWaits
  BY <1>1, HartDistance, HartsAssumption DEF PortInit, HartWaits
<1> QED BY <1>2, <1>3, <1>4, <1>5 DEF PortInv

\* The registers hold values of their types.
LEMMA PortTypesStay ==
  ASSUME PortInv, NEW want \in [Hart -> Target \cup {Nothing}], NEW host \in BOOLEAN,
         NEW ans \in SUBSET Hart, NEW rdy \in SUBSET Hart, PortEdge(want, host, ans, rdy)
  PROVE  PortTypes'
<1>1. PortTypes
  BY DEF PortInv
<1>2. valid_inflight_q' \in [Hart -> BOOLEAN] /\ neck' \in [Hart -> BOOLEAN]
  BY <1>1 DEF PortEdge, PortTypes, CsrGnt, NeckGranted, BusGnt, demux_vld_o, NeckAnswers
<1>3. bank_sel_q' \in [Hart -> Target]
  BY <1>1 DEF PortEdge, PortTypes, CsrGnt, AtNeck, BusGnt, Target
<1>4. r_valid_q' \in BOOLEAN /\ state_q' \in BOOLEAN
  BY <1>1 DEF PortEdge, PortTypes, NeckGranted
<1>5. AtNeck(want, ans) \subseteq Hart
  BY DEF AtNeck
<1>6. rr_neck' \in Hart
  <2>1. rr_neck' = RrNext(AtNeck(want, ans), rr_neck, NeckGranted(want, host, ans))
    BY DEF PortEdge, RrNeckNext
  <2>2. NeckGranted(want, host, ans) \in BOOLEAN
    BY DEF NeckGranted
  <2> QED BY <1>1, <1>5, <2>1, <2>2, RrNextType, HartsAssumption DEF PortTypes, Hart
<1>7. rr_mux' \in Inputs(2)
  BY <1>1, MuxPriority DEF PortEdge, PortTypes
<1>8. reader' \in Hart \cup {NoHart}
  <2>1. CASE NeckGranted(want, host, ans)
    <3>1. PICK w \in AtNeck(want, ans) : Winner(NHARTS, AtNeck(want, ans), rr_neck) = w
      BY <1>1, <2>1, NeckGrants DEF PortTypes
    <3> QED BY <1>5, <2>1, <3>1 DEF PortEdge, NeckGranted
  <2>2. CASE ~NeckGranted(want, host, ans)
    BY <2>2 DEF PortEdge, NeckGranted
  <2> QED BY <2>1, <2>2
<1>9. onbus' \subseteq Hart /\ hart' \in Hart
  BY <1>1 DEF PortEdge, PortTypes
<1>10. hartWaited' \in Nat /\ hostWaited' \in Nat
  BY <1>1 DEF PortEdge, PortTypes
<1> QED BY <1>2, <1>3, <1>4, <1>6, <1>7, <1>8, <1>9, <1>10 DEF PortTypes

\* The neck's input is free again when the answer comes, so that the hart that is
\* granted is the only one that waits after the edge.
LEMMA AnswersStay ==
  ASSUME PortInv, NEW want \in [Hart -> Target \cup {Nothing}], NEW host \in BOOLEAN,
         NEW ans \in SUBSET Hart, NEW rdy \in SUBSET Hart, PortEdge(want, host, ans, rdy)
  PROVE  AnswersReachTheirHart'
<1> DEFINE Csr(h) == CsrGnt(h, want, host, ans)
           Bus(h) == BusGnt(h, want, ans, rdy)
           Vld(h) == demux_vld_o(h, ans)
<1>1. PortTypes /\ AnswersReachTheirHart
  BY DEF PortInv
<1>2. \A h \in Hart :
        /\ valid_inflight_q'[h] <=> Csr(h) \/ Bus(h) \/ (valid_inflight_q[h] /\ ~Vld(h))
        /\ bank_sel_q'[h] = IF Csr(h) \/ Bus(h) THEN want[h] ELSE bank_sel_q[h]
        /\ neck'[h] <=> Csr(h) \/ (neck[h] /\ ~NeckAnswers(h))
        /\ h \in onbus' <=> (h \in onbus /\ h \notin ans) \/ Bus(h)
  BY <1>1 DEF PortEdge, PortTypes
<1>3. \A h \in Hart :
        /\ Csr(h) => want[h] = "csr" /\ (valid_inflight_q[h] => Vld(h))
        /\ Bus(h) => want[h] = "bus" /\ (valid_inflight_q[h] => Vld(h))
  BY DEF CsrGnt, BusGnt, AtNeck, LetsPass
<1>4. \A h \in Hart : neck[h] => NeckAnswers(h)
  BY <1>1, HartsAreNumbers DEF AnswersReachTheirHart, NeckAnswers
<1>5. \A h \in Hart :
        Vld(h) <=> /\ valid_inflight_q[h]
                   /\ IF bank_sel_q[h] = "bus" THEN h \in ans ELSE NeckAnswers(h)
  BY DEF demux_vld_o
<1>6. \A h \in Hart :
        /\ neck[h] <=> valid_inflight_q[h] /\ bank_sel_q[h] = "csr"
        /\ h \in onbus <=> valid_inflight_q[h] /\ bank_sel_q[h] = "bus"
        /\ bank_sel_q[h] \in {"bus", "csr"}
  BY <1>1 DEF AnswersReachTheirHart, PortTypes, Target
<1>7. \A h \in Hart : neck'[h] <=> Csr(h)
  BY <1>2, <1>4
<1> HIDE DEF Csr, Bus, Vld
<1>8. \A h \in Hart : neck'[h] <=> valid_inflight_q'[h] /\ bank_sel_q'[h] = "csr"
  BY <1>2, <1>3, <1>4, <1>5, <1>6, <1>7
<1>9. \A h \in Hart : h \in onbus' <=> valid_inflight_q'[h] /\ bank_sel_q'[h] = "bus"
  BY <1>2, <1>3, <1>4, <1>5, <1>6
<1>10. (\A h \in Hart : neck'[h] <=> reader' = h) /\ (r_valid_q' <=> reader' # NoHart)
  <2>1. r_valid_q' = NeckGranted(want, host, ans)
    BY DEF PortEdge
  <2>2. CASE NeckGranted(want, host, ans)
    <3>1. PICK w \in AtNeck(want, ans) :
            /\ Winner(NHARTS, AtNeck(want, ans), rr_neck) = w
            /\ \A h \in Hart : CsrGnt(h, want, host, ans) <=> h = w
      BY <1>1, <2>2, NeckGrants DEF PortTypes
    <3>2. reader' = w /\ w \in Hart
      BY <2>2, <3>1 DEF PortEdge, NeckGranted, AtNeck
    <3> QED BY <1>7, <2>1, <2>2, <3>1, <3>2, HartsAreNumbers DEF Csr
  <2>3. CASE ~NeckGranted(want, host, ans)
    <3>1. reader' = NoHart
      BY <2>3 DEF PortEdge, NeckGranted
    <3> QED BY <1>7, <2>1, <2>3, <3>1, NoGrant, HartsAreNumbers DEF Csr
  <2> QED BY <2>2, <2>3
<1> QED BY <1>8, <1>9, <1>10 DEF AnswersReachTheirHart

\* Each edge in vain brings the hart nearer: the host gives way to the neck, or the
\* neck has granted another hart and its priority has moved.
LEMMA WaitsStay ==
  ASSUME PortInv, NEW want \in [Hart -> Target \cup {Nothing}], NEW host \in BOOLEAN,
         NEW ans \in SUBSET Hart, NEW rdy \in SUBSET Hart, PortEdge(want, host, ans, rdy)
  PROVE  NeverClosed' /\ HartWaits' /\ HostWaits'
<1> DEFINE R == AtNeck(want, ans)
           asks == want[hart] = "csr" /\ LetsPass(hart, want, ans)
<1>1. PortTypes /\ PortTypes' /\ hart \in Hart /\ hart' = hart
  BY PortTypesStay DEF PortInv, PortTypes, PortEdge
<1>2. Open
  BY <1>1 DEF PortInv, NeverClosed, Open, PortTypes
<1>3. NeverClosed'
  BY <1>2 DEF PortEdge, NeverClosed
<1>4. rr_mux \in {0, 1} /\ rr_mux' \in {0, 1} /\ rr_mux' = RrMuxNext(want, host, ans)
  BY <1>1, Ports DEF PortTypes, PortEdge
<1>5. HostWaits'
  <2>1. hostWaited' = IF host /\ Access(want, host, ans) # "host" THEN hostWaited + 1 ELSE 0
    BY DEF PortEdge
  <2>2. CASE host /\ Access(want, host, ans) # "host"
    <3>1. xbar_slave_req(want, ans) /\ rr_mux = 1
      BY <1>1, <1>4, <2>2, MuxAccess DEF PortTypes, HostPort
    <3>2. rr_mux' = 0
      <4>1. rr_mux' = 1 - rr_mux
        BY <1>1, <1>4, <2>2, <3>1, MuxPriority DEF PortTypes
      <4> QED BY <3>1, <4>1
    <3>3. hostWaited = 0
      BY <3>1 DEF PortInv, HostWaits, HostPort
    <3> QED BY <2>1, <2>2, <3>2, <3>3 DEF HostWaits, HostPort
  <2>3. CASE ~(host /\ Access(want, host, ans) # "host")
    BY <2>1, <2>3 DEF HostWaits
  <2> QED BY <2>2, <2>3
<1>6. /\ Distance(NHARTS, rr_neck, hart) \in Nat
      /\ Distance(NHARTS, rr_neck', hart) \in Nat
      /\ Distance(NHARTS, rr_neck', hart) <= NHARTS - 1
  BY <1>1, HartDistance DEF PortTypes
<1>7. HartWaits'
  <2>1. hartWaited' = IF asks /\ ~CsrGnt(hart, want, host, ans) THEN hartWaited + 1 ELSE 0
    BY DEF PortEdge
  <2>2. CASE ~(asks /\ ~CsrGnt(hart, want, host, ans))
    <3>1. hartWaited' = 0
      BY <2>1, <2>2
    <3> QED BY <1>1, <1>4, <1>6, <3>1, HartsAssumption DEF HartWaits
  <2>3. CASE asks /\ ~CsrGnt(hart, want, host, ans)
    <3>1. hart \in R /\ R \subseteq Hart
      BY <1>1, <2>3, HartsAreNumbers
      DEF PortInv, AnswersReachTheirHart, AtNeck, NeckAnswers
    <3>2. xbar_slave_req(want, ans)
      BY <1>2, <3>1 DEF xbar_slave_req
    <3>3. rr_neck' = RrNext(R, rr_neck, NeckGranted(want, host, ans))
      BY DEF PortEdge, RrNeckNext
    <3>4. hartWaited' = hartWaited + 1 /\ hartWaited \in Nat
      BY <1>1, <2>1, <2>3 DEF PortTypes
    <3>5. hartWaited + 2 * Distance(NHARTS, rr_neck, hart) + (1 - rr_mux) <= 2 * NHARTS - 1
      BY DEF PortInv, HartWaits
    <3>6. CASE ~NeckGranted(want, host, ans)
      <4>1. host /\ rr_mux = 0
        BY <1>1, <1>4, <3>2, <3>6, MuxAccess DEF NeckGranted, PortTypes, NeckPort
      <4>2. rr_mux' = 1
        <5>1. rr_mux' = 1 - rr_mux
          BY <1>1, <1>4, <3>2, <4>1, MuxPriority DEF PortTypes
        <5> QED BY <4>1, <5>1
      <4>3. rr_neck' = rr_neck
        BY <3>3, <3>6 DEF RrNext
      <4> QED
        BY <1>1, <1>6, <3>4, <3>5, <4>1, <4>2, <4>3, HartsAssumption DEF HartWaits
    <3>7. CASE NeckGranted(want, host, ans)
      <4>1. hart # Winner(NHARTS, R, rr_neck)
        BY <2>3, <3>1, <3>7 DEF CsrGnt
      <4>2. rr_neck # hart
        BY <3>1, <4>1, WinnerIs, HartsAssumption DEF Hart
      <4>3. rr_neck' = NextIdx(R, rr_neck)
        BY <3>1, <3>3, <3>7 DEF RrNext
      <4>4. Distance(NHARTS, rr_neck', hart) < Distance(NHARTS, rr_neck, hart)
        BY <1>1, <3>1, <4>2, <4>3, NextIsCloser, HartsAssumption DEF Hart, PortTypes
      <4>5. rr_mux' = IF host THEN 1 - rr_mux ELSE 1
        BY <1>1, <1>4, <3>2, MuxPriority DEF PortTypes, NeckPort
      <4>6. host => rr_mux = 1
        BY <1>1, <3>7, MuxAccess DEF NeckGranted, PortTypes, NeckPort
      <4> QED
        BY <1>1, <1>4, <1>6, <3>4, <3>5, <4>4, <4>5, <4>6, HartsAssumption DEF HartWaits
    <3> QED BY <3>6, <3>7
  <2> QED BY <2>2, <2>3
<1> QED BY <1>3, <1>5, <1>7

\* Together.
LEMMA PortInvariant == PortSpec => []PortInv
<1>1. PortInv /\ [PortNext]_regVars => PortInv'
  <2>1. CASE UNCHANGED regVars
    BY <2>1 DEF regVars, PortInv, PortTypes, NeverClosed, AnswersReachTheirHart,
                HartWaits, HostWaits
  <2>2. ASSUME PortInv, PortNext PROVE PortInv'
    BY <2>2, PortTypesStay, AnswersStay, WaitsStay DEF PortNext, PortInv
  <2> QED BY <2>1, <2>2
<1> QED BY <1>1, PortStarts, PTL DEF PortSpec

(***************************************************************************)
(* For any number of harts, the hart that had the registers hears their    *)
(* answer, and no other.  (rdata_o, demux_vld_o of the demux and of the neck,    *)
(* periph_to_reg.sv.)                                                      *)
(***************************************************************************)
THEOREM AnswersAreHeard == PortSpec => []AnswersReachTheirHart
<1>1. PortInv => AnswersReachTheirHart
  BY DEF PortInv
<1> QED BY <1>1, PortInvariant, PTL

(***************************************************************************)
(* For any number of harts, no hart is kept from the registers for twice   *)
(* as many edges as there are harts, and the host for two.                 *)
(***************************************************************************)
THEOREM NobodyIsKeptOut == PortSpec => []RegistersAreShared
<1>1. PortInv => RegistersAreShared
  <2> SUFFICES ASSUME PortInv PROVE RegistersAreShared
    OBVIOUS
  <2>1. Distance(NHARTS, rr_neck, hart) \in Nat /\ rr_mux \in {0, 1} /\ hartWaited \in Nat
    BY HartDistance, Ports DEF PortInv, PortTypes
  <2>2. hartWaited < 2 * NHARTS
    BY <2>1, HartsAssumption DEF PortInv, HartWaits
  <2>3. hostWaited < 2
    BY DEF PortInv, HostWaits
  <2> QED BY <2>2, <2>3 DEF RegistersAreShared
<1> QED BY <1>1, PortInvariant, PTL

(***************************************************************************)
(* The address map.  The runs try the addresses around the limits of the   *)
(* ranges; here are all of them.                                           *)
(***************************************************************************)
\* What a decoder does when one rule matches, and when none does.
LEMMA HitIsTaken ==
  ASSUME NEW a, NEW rules, NEW default, NEW r \in rules, Within(a, r),
         \A q \in rules : Within(a, q) => q = r
  PROVE  decode(a, rules, default) = r.idx
<1>1. {q \in rules : Within(a, q)} = {r}
  OBVIOUS
<1> QED BY <1>1 DEF decode

LEMMA MissIsDefault ==
  ASSUME NEW a, NEW rules, NEW default, \A q \in rules : ~Within(a, q)
  PROVE  decode(a, rules, default) = default
<1>1. {q \in rules : Within(a, q)} = {}
  OBVIOUS
<1> QED BY <1>1 DEF decode

\* The sums of parameters, worked out: none is cut.
LEMMA Rules ==
  /\ RAM0 = [idx |-> "RAM0", start |-> \hF002000, end |-> \hF002800]
  /\ RAM1 = [idx |-> "RAM1", start |-> \hF002800, end |-> \hF003000]
  /\ PERIPHERAL = [idx |-> "ROM", start |-> \hF001000, end |-> \hF001200]
  /\ EXTERNAL_PERIPHERAL = [idx |-> "EXTERNAL", start |-> 0, end |-> \h4100000]
  /\ CPU_REG = [idx |-> "CPU_REG", start |-> \hF000000, end |-> \hF001000]
  /\ SAFE_CPU_REGISTER = [idx |-> "SAFE_CPU_REGISTER", start |-> \h2007000, end |-> \h2007010]
BY SMT DEF RAM0, RAM1, PERIPHERAL, EXTERNAL_PERIPHERAL, CPU_REG, SAFE_CPU_REGISTER, Rule, Plus,
       Width, GLOBAL_BASE_ADDRESS, SAFE_CSR_BASE_ADDRESS

\* No two rules of the system bus match the same address.
LEMMA RangesApart ==
  ASSUME NEW a \in Nat, NEW r \in XBAR_ADDR_RULES, NEW q \in XBAR_ADDR_RULES,
         Within(a, r), Within(a, q)
  PROVE  r = q
BY Rules, SMT DEF XBAR_ADDR_RULES, Within

\* So the rule that matches is the one that decides.
LEMMA RuleIsTaken ==
  ASSUME NEW a \in Nat, NEW r \in XBAR_ADDR_RULES, Within(a, r)
  PROVE  SystemBus(a) = r.idx
<1>1. \A q \in XBAR_ADDR_RULES : Within(a, q) => q = r
  BY RangesApart
<1> QED BY <1>1, HitIsTaken DEF SystemBus

\* Where an address of the memory or of the ROM lies.
LEMMA OnTheBus ==
  ASSUME NEW a \in Nat
  PROVE  /\ SystemBus(a) = "RAM0" <=> \hF002000 <= a /\ a < \hF002800
         /\ SystemBus(a) = "RAM1" <=> \hF002800 <= a /\ a < \hF003000
         /\ SystemBus(a) = "ROM" <=> \hF001000 <= a /\ a < \hF001200
<1>1. CASE \E r \in XBAR_ADDR_RULES : Within(a, r)
  <2>1. PICK r \in XBAR_ADDR_RULES : Within(a, r)
    BY <1>1
  <2>2. SystemBus(a) = r.idx
    BY <2>1, RuleIsTaken
  <2> QED BY <2>1, <2>2, Rules, SMT DEF XBAR_ADDR_RULES, Within
<1>2. CASE \A r \in XBAR_ADDR_RULES : ~Within(a, r)
  <2>1. SystemBus(a) = "ERROR"
    BY <1>2, MissIsDefault DEF SystemBus
  <2> QED BY <1>2, <2>1, Rules, SMT DEF XBAR_ADDR_RULES, Within
<1> QED BY <1>1, <1>2

\* The registers that only data accesses reach lie below the ROM.
LEMMA PastTheRegisters ==
  ASSUME NEW a \in Nat, a >= \hF001000
  PROVE  DataPort(a) = SystemBus(a)
<1>1. \A q \in {SAFE_CPU_REGISTER} : ~Within(a, q)
  BY Rules, SMT DEF Within
<1>2. \A q \in {CPU_REG} : ~Within(a, q)
  BY Rules, SMT DEF Within
<1>3. decode(a, {SAFE_CPU_REGISTER}, SystemBus(a)) = SystemBus(a)
  BY <1>1, MissIsDefault
<1> QED BY <1>2, <1>3, MissIsDefault, SMT DEF DataPort

\* Every address of the memory or of the ROM leads a fetch, a load or store of a
\* hart and an access of the host to the same place: the decoders of eros_pkg.sv
\* agree on it.
THEOREM EverywhereOnePlace ==
  \A a \in Nat :
    Route("instr", a) \in {"RAM0", "RAM1", "ROM"} =>
      Route("data", a) = Route("instr", a) /\ Route("host", a) = Route("instr", a)
<1> SUFFICES ASSUME NEW a \in Nat, SystemBus(a) \in {"RAM0", "RAM1", "ROM"}
             PROVE  DataPort(a) = SystemBus(a)
  BY DEF Route
<1>1. a >= \hF001000
  BY OnTheBus, SMT
<1> QED BY <1>1, PastTheRegisters, SMT

\* Two addresses that lead a requester to the same bank are different words of
\* it: the bits of the address that a bank uses tell them apart.
THEOREM NowhereAlias ==
  \A q \in Requester : \A a, b \in Nat :
    a # b /\ Route(q, a) \in {"RAM0", "RAM1"} /\ Route(q, b) = Route(q, a) => Word(a) # Word(b)
<1> SUFFICES ASSUME NEW q \in Requester, NEW a \in Nat, NEW b \in Nat,
                    a # b, Route(q, a) \in {"RAM0", "RAM1"}, Route(q, b) = Route(q, a)
             PROVE  Word(a) # Word(b)
  OBVIOUS
<1>1. SystemBus(a) \in {"RAM0", "RAM1"} /\ SystemBus(b) = SystemBus(a)
  <2>1. \A c \in Nat : DataPort(c) \in {"CPU_REG", "SAFE_CPU_REGISTER", SystemBus(c)}
    <3> SUFFICES ASSUME NEW c \in Nat
                 PROVE  DataPort(c) \in {"CPU_REG", "SAFE_CPU_REGISTER", SystemBus(c)}
      OBVIOUS
    <3>1. \A r, s : decode(c, {r}, s) \in {r.idx, s}
      BY HitIsTaken, MissIsDefault
    <3> QED BY <3>1, Rules, SMT DEF DataPort
  <2> QED BY <2>1 DEF Route, AxiPort, Requester
<1> QED BY <1>1, OnTheBus, SMT DEF Word

\* The addresses of the runs are among them.
LEMMA SamplesAreAddresses == Addresses \subseteq Nat
<1>1. Width \in Nat /\ Width > 0 /\ Width - 1 \in Nat
  BY SMT DEF Width
<1>2. \A a, b \in Nat : Plus(a, b) \in Nat
  BY <1>1, SMT DEF Plus
<1>3. \A r \in XBAR_ADDR_RULES \cup {CPU_REG, SAFE_CPU_REGISTER} : r.start \in Nat /\ r.end \in Nat
  BY Rules, SMT DEF XBAR_ADDR_RULES
<1>4. Limits \subseteq Nat
  BY <1>3 DEF Limits
<1>5. \A b \in BuiltIn : b[2] \in Nat
  <2>1. Plus(\hF000000, \h2018) \in Nat
    BY <1>2, SMT
  <2> QED BY <2>1, SMT DEF BuiltIn, BOOT_OFFSET, DEBUG_OFFSET
<1>6. \A e \in Safe_wrapper_ctrl_regs : e[3] \in Nat
  BY SMT DEF Safe_wrapper_ctrl_regs, Low, Word32, Bits
<1>7. Named \subseteq Nat
  <2>1. \A n \in Nat : SAFE_WRAPPER_CTRL_BASEADDRESS + n \div 16 \in Nat
    BY SMT DEF SAFE_WRAPPER_CTRL_BASEADDRESS
  <2>2. PRIVATE_REG_BASEADDRESS \in Nat
    BY SMT DEF PRIVATE_REG_BASEADDRESS
  <2> QED BY <1>6, <2>1, <2>2 DEF Named, Unit
<1>8. UNION { {Plus(a, Width - 1), a, Plus(a, 1), Plus(a, \h400)} : a \in Limits } \subseteq Nat
  <2> SUFFICES ASSUME NEW a \in Limits
               PROVE  {Plus(a, Width - 1), a, Plus(a, 1), Plus(a, \h400)} \subseteq Nat
    BY SMT
  <2>1. a \in Nat
    BY <1>4
  <2>2. Plus(a, Width - 1) \in Nat /\ Plus(a, 1) \in Nat /\ Plus(a, \h400) \in Nat
    BY <1>1, <2>1, SMT DEF Plus
  <2> QED BY <2>1, <2>2, SMT
<1>9. {b[2] : b \in BuiltIn} \subseteq Nat
  BY <1>5
<1>10. \A A, B, C, D : A \subseteq D /\ B \subseteq D /\ C \subseteq D =>
         A \cup B \cup C \subseteq D
  OBVIOUS
<1> QED BY <1>7, <1>8, <1>9, <1>10, Zenon DEF Addresses

LEMMA SamplesStay == MapSpec => [](who \in Requester /\ addr \in Addresses)
<1>1. MapInit => who \in Requester /\ addr \in Addresses
  BY Zenon DEF MapInit
<1>2. who \in Requester /\ addr \in Addresses /\ [MapNext]_mapVars
        => (who \in Requester /\ addr \in Addresses)'
  <2>1. CASE MapNext
    BY <2>1, Zenon DEF MapNext
  <2>2. CASE UNCHANGED mapVars
    BY <2>2, Zenon DEF mapVars
  <2> QED BY <2>1, <2>2, Zenon
<1> QED BY <1>1, <1>2, PTL DEF MapSpec

\* What is written through one way is found through the others.
THEOREM OnePlace == MapSpec => []OneAddressOnePlace
<1>1. who \in Requester /\ addr \in Addresses => OneAddressOnePlace
  BY EverywhereOnePlace, SamplesAreAddresses, Zenon DEF OneAddressOnePlace
<1> QED BY <1>1, SamplesStay, PTL

\* No access to the memory reaches the word of another address.
THEOREM Apart == MapSpec => []NoAlias
<1>1. who \in Requester /\ addr \in Addresses => NoAlias
  BY NowhereAlias, SamplesAreAddresses, Zenon DEF NoAlias
<1> QED BY <1>1, SamplesStay, PTL

\* Each name of a register: its word, and the bits of its field there.
LEMMA NamesReach ==
  /\ \A e \in CPU_Private_regs : Reaches(e, CpuPrivateHits, 4)
  /\ \A e \in Safe_wrapper_ctrl_regs \cup HelloWorldUses : Reaches(e, SafeWrapperHits, 6)
<1>1. 2 ^ 4 = 16 /\ 2 ^ 6 = 64
  BY SMT
<1>2. \A e \in CPU_Private_regs : Reaches(e, CpuPrivateHits, 4)
  BY <1>1, SMT DEF CPU_Private_regs, Low, Bits, Reaches, addr_hit, CpuPrivateHits, Slice
<1>3. \A e \in Safe_wrapper_ctrl_regs : Reaches(e, SafeWrapperHits, 6)
  BY <1>1, SMT DEF Safe_wrapper_ctrl_regs, Low, Word32, Bits, Reaches, addr_hit,
                   SafeWrapperHits, Slice
<1>4. \A e \in HelloWorldUses : e \in Safe_wrapper_ctrl_regs
  BY SMT DEF HelloWorldUses, CB_heep_ctrl_regs, Safe_wrapper_ctrl_regs, Low, Word32, Bits
<1> QED BY <1>2, <1>3, <1>4

\* Each name of a register: where a data access of a hart finds it.
LEMMA NamesLead ==
  /\ \A e \in CPU_Private_regs : DataPort(Unit(PRIVATE_REG_BASEADDRESS, e)) = "CPU_REG"
  /\ \A e \in Safe_wrapper_ctrl_regs :
       DataPort(Unit(SAFE_WRAPPER_CTRL_BASEADDRESS, e)) = "SAFE_CPU_REGISTER"
<1>1. \A e \in CPU_Private_regs : Unit(PRIVATE_REG_BASEADDRESS, e) = \hF000000
  BY SMT DEF CPU_Private_regs, Low, Bits, Unit, PRIVATE_REG_BASEADDRESS
<1>2. \A e \in Safe_wrapper_ctrl_regs :
        Unit(SAFE_WRAPPER_CTRL_BASEADDRESS, e) \in \h2007000 .. \h2007003
  BY SMT DEF Safe_wrapper_ctrl_regs, Low, Word32, Bits, Unit, SAFE_WRAPPER_CTRL_BASEADDRESS
<1>3. DataPort(\hF000000) = "CPU_REG"
  <2>1. Within(\hF000000, CPU_REG) /\ CPU_REG.idx = "CPU_REG"
    BY Rules, SMT DEF Within
  <2> QED BY <2>1, HitIsTaken DEF DataPort
<1>4. \A a \in \h2007000 .. \h2007003 : DataPort(a) = "SAFE_CPU_REGISTER"
  <2> TAKE a \in \h2007000 .. \h2007003
  <2>1. /\ ~Within(a, CPU_REG) /\ Within(a, SAFE_CPU_REGISTER)
        /\ SAFE_CPU_REGISTER.idx = "SAFE_CPU_REGISTER"
    BY Rules, SMT DEF Within
  <2>2. decode(a, {SAFE_CPU_REGISTER}, SystemBus(a)) = "SAFE_CPU_REGISTER"
    BY <2>1, HitIsTaken
  <2> QED BY <2>1, <2>2, MissIsDefault DEF DataPort
<1> QED BY <1>1, <1>2, <1>3, <1>4

\* The fixed places.
LEMMA BuiltInIsThere == \A b \in BuiltIn : Route(b[1], b[2]) = b[3]
<1>1. Plus(\hF000000, \h2018) = \hF002018
  BY SMT DEF Plus, Width
<1>2. /\ SystemBus(\hF001000) = "ROM" /\ SystemBus(\hF001005) = "ROM"
      /\ SystemBus(\hF002018) = "RAM0"
      /\ \A a \in {\hF002900, \hF002A00, \hF002B00} : SystemBus(a) = "RAM1"
  BY OnTheBus, SMT
<1>3. \A a \in {\hF002900, \hF002A00, \hF002B00} : DataPort(a) = SystemBus(a)
  BY PastTheRegisters, SMT
<1> QED BY <1>1, <1>2, <1>3, SMT DEF BuiltIn, BOOT_OFFSET, DEBUG_OFFSET, Route

\* What software, linker script and processors have built in is where they expect
\* it, and each name of a register in the headers (Safe_wrapper_ctrl_regs.h,
\* CPU_Private_regs.h) stands for the bits that the hardware has there.
THEOREM NamesAgree == MapSpec => []RegistersAgree
<1>1. RegistersAgree
  <2>1. \A e \in HelloWorldUses : e \in Safe_wrapper_ctrl_regs
    BY SMT DEF HelloWorldUses, CB_heep_ctrl_regs, Safe_wrapper_ctrl_regs, Low, Word32,
               Bits
  <2> QED BY <2>1, NamesReach, NamesLead, BuiltInIsThere DEF RegistersAgree, Route
<1> QED BY <1>1, PTL
===============================================================================
