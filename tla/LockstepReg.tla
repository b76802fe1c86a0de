----------------------------- MODULE LockstepReg -----------------------------
(***************************************************************************)
(* The bus of two harts in lockstep (rtl/lockstep_reg.sv, obi_sngreg.sv,   *)
(* obi_pipelined_delay.sv and their use in rtl/safe_cpu_wrapper.sv).       *)
(*                                                                         *)
(* The follower executes what the leader executes, NCYCLES clock edges     *)
(* later: the requests of the leader wait in a pipeline of registers until *)
(* the follower makes the same request, and the answers of the bus wait    *)
(* for the follower.  The comparator lets a request through to the bus     *)
(* while the end of the pipeline and the follower agree.  When they do not,*)
(* both harts are cut off from the bus until they sleep, and are started   *)
(* again.                                                                  *)
(*                                                                         *)
(* One port is modelled, the instruction and the data port being alike.  A *)
(* request is the number of a step of the harts' program, repeated for     *)
(* ever.  A hart may be granted Depth requests before the first is         *)
(* answered, and makes request n pause[n] edges after the answer to        *)
(* request n - Depth: what it asks next, and when, follows from the        *)
(* answers it has received.                                                *)
(***************************************************************************)
EXTENDS Integers

CONSTANTS
  NCYCLES,    \* edges by which the follower is late
  Depth,      \* requests a hart makes before the first is answered
  Length,     \* steps of the program
  MaxPause,   \* bound on the edges between an answer and a request
  Faults      \* whether faults happen

ASSUME PipelineAssumption ==
  /\ NCYCLES \in Nat \ {0}
  /\ Depth \in {1, 2}
  /\ Length \in Nat \ {0}
  /\ MaxPause \in Nat
  /\ Faults \in BOOLEAN

Step  == 0 .. Length - 1
None  == -1
Side  == {"lead", "follow"}
Stage == 1 .. NCYCLES

VARIABLES
  pause,    \* the program: edges before each request
  core,     \* the harts: [mode, n, out, since]
  pipe,     \* core_instr_req_ff of each stage: a request, or None
  late,     \* core_instr_resp_ff: the request answered, or None
  kick,     \* debug_req_ff
  owed,     \* instr_expected_rvalid
  fake,     \* instr_isolate_valid_q
  phase,    \* the DMR machine: it starts the harts, compares, or stops them
  bus,      \* the request the bus has granted and not answered, or None
  last,     \* the last request granted since the harts were started, or None
  struck    \* the parts that faults have hit since then
 
vars == <<pause, core, pipe, late, kick, owed, fake, phase, bus, last, struck>>

(***************************************************************************)
(* The harts.  since[k] counts the edges since the k-th last answer.       *)
(***************************************************************************)
Fresh == [mode |-> "run", n |-> 0, out |-> 0, since |-> [k \in 1..Depth |-> MaxPause]]
Asleep(s) == core[s].mode = "sleep"

Request(s) ==
  LET c == core[s] IN
  IF /\ c.mode = "run"
     /\ c.out < Depth
     /\ c.since[Depth - c.out] >= pause[c.n]
  THEN c.n ELSE None

After(n)  == (n + 1) % Length
Oldest(s) == (core[s].n - core[s].out) % Length

(***************************************************************************)
(* What is on the wires between two edges.                                 *)
(***************************************************************************)
Isolated == phase = "stop"
Enabled  == ~Isolated

\* What stage i is offered, and the end of the pipeline.
Offered(i) == IF i = 1 THEN Request("lead") ELSE pipe[i - 1]
Delayed    == pipe[NCYCLES]

\* The comparator, whose output is gated.
Error == Delayed # Request("follow")

\* Mutant: the output of the comparator is not gated.
BusRequest_Ungated == Delayed
BusRequest == IF Error THEN None ELSE Delayed

\* Stage i takes what it is offered when it, or one after it, is empty, or the
\* bus takes the last.  Mutant: an empty one takes nothing until the bus does.
Takes_WhenGranted(i, gnt) == Offered(i) # None /\ gnt
Takes(i, gnt) ==
  /\ Offered(i) # None
  /\ \/ \E j \in i .. NCYCLES : pipe[j] = None
     \/ gnt

\* Grants and answers to the harts; ans is the request the bus answers.
\* Mutant: the follower is answered with the leader.
Answer_AtOnce(s, ans) ==
  IF Isolated THEN IF owed[s] \/ fake[s] THEN Oldest(s) ELSE None ELSE ans
Answer(s, ans) ==
  IF Isolated THEN IF owed[s] \/ fake[s] THEN Oldest(s) ELSE None
  ELSE IF s = "lead" THEN ans ELSE late[NCYCLES]
Granted(s, gnt) ==
  /\ Request(s) # None
  /\ \/ Isolated
     \/ IF s = "lead" THEN Takes(1, gnt) ELSE gnt

\* A hart that sleeps is woken by a debug request, the follower by a delayed
\* one.  Mutant: both are woken by the same.
Woken_Together(s) == phase = "start"
Woken(s) == IF s = "lead" THEN phase = "start" ELSE kick[NCYCLES]

(***************************************************************************)
(* The next state of each part.                                            *)
(***************************************************************************)
Sat(x) == IF x < MaxPause THEN x + 1 ELSE x

\* In isolation every answer is a wfi, on which the hart may act (halts):
\* it makes no more requests, and sleeps when the last is answered.
CoreNext(s, gnt, ans, halts) ==
  LET c        == core[s]
      taken    == Granted(s, gnt)
      answered == Answer(s, ans) # None /\ c.out > 0
      out      == c.out + (IF taken THEN 1 ELSE 0) - (IF answered THEN 1 ELSE 0)
  IN IF Asleep(s) THEN IF Woken(s) THEN Fresh ELSE c
     ELSE [ mode  |-> IF (c.mode = "halt" \/ halts) /\ out = 0 THEN "sleep"
                      ELSE IF halts THEN "halt" ELSE c.mode,
            n     |-> IF taken THEN After(c.n) ELSE c.n,
            out   |-> out,
            since |-> [k \in 1..Depth |->
                         IF ~answered THEN Sat(c.since[k])
                         ELSE IF k = 1 THEN 0 ELSE Sat(c.since[k - 1])] ]

PipeNext(gnt) == [i \in Stage |->
  IF ~Enabled THEN None
  ELSE IF Takes(i, gnt) THEN Offered(i)
  ELSE IF \/ pipe[i] = None
          \/ IF i = NCYCLES THEN gnt ELSE Takes(i + 1, gnt)
  THEN None ELSE pipe[i]]

LateNext(ans) == IF ~Enabled THEN late
                 ELSE [i \in Stage |-> IF i = 1 THEN ans ELSE late[i - 1]]

KickNext == [i \in Stage |-> IF i = 1 THEN phase = "start" ELSE kick[i - 1]]

\* An answer owed when the hart is isolated.  One bit for each hart.
OwedNext(gnt, ans) == [s \in Side |->
  ~Isolated /\ (Granted(s, gnt) \/ (owed[s] /\ Answer(s, ans) = None))]

FakeNext == [s \in Side |-> Isolated /\ Request(s) # None]

PhaseNext ==
  CASE phase = "start" /\ ~Asleep("lead") /\ ~Asleep("follow") -> "sync"
    [] phase = "sync" /\ Error -> "stop"
    [] phase = "stop" /\ Asleep("lead") /\ Asleep("follow") -> "start"
    [] OTHER -> phase

(***************************************************************************)
(* One clock edge.  The bus grants a request when it has answered the one  *)
(* before, or does so on the same edge.  A slave answers before the harts  *)
(* that have been isolated are asleep (SlavesAreQuick).                    *)
(***************************************************************************)
SlavesAreQuick(ans) == PhaseNext = "start" => bus = None \/ ans # None

Clock(gnt, ans, Halting) ==
  /\ gnt => BusRequest # None /\ (bus = None \/ ans # None)
  /\ ans \in {None, bus}
  /\ \A s \in Halting : Isolated /\ core[s].mode = "run" /\ Answer(s, ans) # None
  /\ SlavesAreQuick(ans)
  /\ core' = [s \in Side |-> CoreNext(s, gnt, ans, s \in Halting)]
  /\ pipe' = PipeNext(gnt)
  /\ late' = LateNext(ans)
  /\ kick' = KickNext
  /\ owed' = OwedNext(gnt, ans)
  /\ fake' = FakeNext
  /\ phase' = PhaseNext
  /\ bus' = IF gnt THEN BusRequest ELSE IF ans # None THEN None ELSE bus
  /\ last' = IF phase # "start" /\ phase' = "start" THEN None
             ELSE IF gnt THEN BusRequest ELSE last
  /\ struck' = IF phase # "start" /\ phase' = "start" THEN {} ELSE struck
  /\ UNCHANGED pause

Edge == \E gnt \in BOOLEAN, ans \in {None, bus}, Halting \in SUBSET Side :
          Clock(gnt, ans, Halting)

\* A particle changes what a hart asks next, or a request in the pipeline; it
\* is the only one until the harts are started again.
Fault ==
  /\ phase = "sync" /\ struck = {} /\ Faults
  /\ \/ \E s \in Side, n \in Step :
          /\ core[s].mode = "run" /\ n # core[s].n
          /\ core' = [core EXCEPT ![s].n = n]
          /\ struck' = {s}
          /\ UNCHANGED pipe
     \/ \E i \in Stage, n \in Step \cup {None} :
          /\ pipe[i] # n
          /\ pipe' = [pipe EXCEPT ![i] = n]
          /\ struck' = {"pipe"}
          /\ UNCHANGED core
  /\ UNCHANGED <<pause, late, kick, owed, fake, phase, bus, last>>

Init ==
  /\ pause \in [Step -> 0..MaxPause]
  /\ core = [s \in Side |-> [Fresh EXCEPT !.mode = "sleep"]]
  /\ pipe = [i \in Stage |-> None]
  /\ late = [i \in Stage |-> None]
  /\ kick = [i \in Stage |-> FALSE]
  /\ owed = [s \in Side |-> FALSE]
  /\ fake = [s \in Side |-> FALSE]
  /\ phase = "start"
  /\ bus = None
  /\ last = None
  /\ struck = {}

Next == Edge \/ Fault
Spec == Init /\ [][Next]_vars

(***************************************************************************)
(* The clock runs; the bus does not ignore a request for ever, nor leaves  *)
(* one without an answer; a hart fed with wfi instructions executes one.   *)
(***************************************************************************)
Fairness ==
  /\ WF_vars(Edge)
  /\ WF_vars(\E ans \in {None, bus}, H \in SUBSET Side : Clock(TRUE, ans, H))
  /\ WF_vars(\E gnt \in BOOLEAN, H \in SUBSET Side : bus # None /\ Clock(gnt, bus, H))
  /\ \A s \in Side :
       SF_vars(\E gnt \in BOOLEAN, ans \in {None, bus}, H \in SUBSET Side :
                 s \in H /\ Clock(gnt, ans, H))
FairSpec == Spec /\ Fairness

(***************************************************************************)
(* Properties.                                                             *)
(***************************************************************************)
\* However long the bus makes requests and answers wait, the comparator
\* raises no error unless there was a fault: the follower makes each request
\* on the edge on which it leaves the pipeline.
NoFalseAlarm == ~Isolated /\ struck = {} => ~Error

\* What reaches the bus is the program, each request once and in its order,
\* even after a fault in a hart or in the pipeline.
BusRunsProgram ==
  BusRequest # None => BusRequest = IF last = None THEN 0 ELSE After(last)

\* A hart that a fault has not hit is given the answer to the oldest of the
\* requests it waits for: the leader straight from the bus, the follower late,
\* also after both were stopped with answers on their way.
RightAnswers ==
  \A s \in Side :
    LET ans == IF s = "lead" THEN bus ELSE late[NCYCLES] IN
    ~Isolated /\ core[s].mode = "run" /\ s \notin struck /\ ans # None
      => core[s].out > 0 /\ ans = Oldest(s)

\* Harts that are stopped after an error are started again and compared.
\* (The comment at safe_cpu_wrapper.sv:418: a request granted before the halt
\* "needs a rvalid ack otherwise could stall waiting that read/write request".)
StoppedHartsRestart == phase = "stop" ~> phase = "sync"

\* Unless there is a fault the harts make requests for ever: the pipeline, the
\* harts and the bus never all wait for each other.
BusStaysBusy == []<>(bus # None \/ struck # {})
=============================================================================
