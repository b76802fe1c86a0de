---------------------------- MODULE LockstepProofs ---------------------------
(***************************************************************************)
(* Lockstep with the one stage of eros_pkg.sv (NCYCLES = 1), proved for    *)
(* every program: any number of steps and any pauses between them.         *)
(***************************************************************************)
EXTENDS LockstepReg, TLAPS

P == pipe[1]
F == core["follow"]
L == core["lead"]

One(b) == IF b THEN 1 ELSE 0

\* The request of the program after x, or the first.
NextOf(x) == IF x = None THEN 0 ELSE After(x)

(***************************************************************************)
(* The inductive invariant.                                                *)
(***************************************************************************)
Core == [mode : {"run", "halt", "sleep"}, n : Step, out : 0 .. Depth,
         since : [1 .. Depth -> 0 .. MaxPause]]

Types ==
  /\ pause \in [Step -> 0 .. MaxPause]
  /\ core \in [Side -> Core]
  /\ pipe \in [Stage -> Step \cup {None}]
  /\ late \in [Stage -> Step \cup {None}]
  /\ kick \in [Stage -> BOOLEAN]
  /\ owed \in [Side -> BOOLEAN] /\ fake \in [Side -> BOOLEAN]
  /\ phase \in {"start", "sync", "stop"}
  /\ bus \in Step \cup {None} /\ last \in Step \cup {None}
  /\ struck \in {{}, {"lead"}, {"follow"}, {"pipe"}}

BusIsLast == bus # None => bus = last

\* What the follower asks next is what the bus has not had yet; its answers are
\* on the bus or on their way to it, in this order.
FollowerRight ==
  /\ BusIsLast
  /\ F.n = NextOf(last)
  /\ F.out = One(late[1] # None) + One(bus # None)
  /\ late[1] # None => After(late[1]) = IF bus # None THEN bus ELSE F.n

\* The requests of the leader are on the bus, in the pipeline, or not made.
LeaderRight ==
  /\ BusIsLast
  /\ L.n = NextOf(IF P # None THEN P ELSE last)
  /\ P # None => P = NextOf(last)
  /\ L.out = One(P # None) + One(bus # None)

\* The leader has heard what the follower will hear on this edge.
Later(since, answered) ==
  [k \in 1 .. Depth |-> IF ~answered THEN Sat(since[k])
                        ELSE IF k = 1 THEN 0 ELSE Sat(since[k - 1])]
Together ==
  /\ Request("follow") = P
  /\ L.since = Later(F.since, late[1] # None)

BothRun == L.mode = "run" /\ F.mode = "run"

\* The three edges of a start.
Both == BothRun /\ FollowerRight /\ LeaderRight /\ Together
NoneRuns == L.mode = "sleep" /\ F.mode = "sleep" /\ kick[1] = FALSE
LeadRuns == L = Fresh /\ F.mode = "sleep" /\ kick[1] = TRUE /\ late[1] = None
Starts ==
  /\ struck = {}
  /\ \/ (NoneRuns \/ LeadRuns) /\ P = None /\ bus = None /\ last = None
     \/ Both

\* After a fault, what it has not hit.
Syncs ==
  /\ BothRun
  /\ "follow" \notin struck => FollowerRight
  /\ "lead" \notin struck /\ "pipe" \notin struck => LeaderRight
  /\ struck = {} => Together
  /\ "pipe" \in struck => Error /\ (bus # None => L.out > 0 /\ bus = Oldest("lead"))

\* The request that the comparator may still let pass, on the first edge.
Stops ==
  /\ kick[1] = FALSE
  /\ P # None /\ P = Request("follow") => P = NextOf(last)

IInv ==
  /\ Types
  /\ phase = "start" => Starts
  /\ phase = "sync" => Syncs
  /\ phase = "stop" => Stops

(***************************************************************************)
(* Steps of the program.                                                   *)
(***************************************************************************)
\* The step after a step is one up, or back at the first.
LEMMA AfterIs ==
  ASSUME NEW x \in Step
  PROVE  After(x) = (IF x = Length - 1 THEN 0 ELSE x + 1) /\ After(x) \in Step
<1>1. x \in Nat /\ Length \in Nat /\ Length > 0 /\ x < Length
  BY PipelineAssumption DEF Step
<1> QED BY <1>1 DEF After, Step

\* Going back from the next step, or from the one after it.
LEMMA Back ==
  ASSUME NEW x \in Step
  PROVE  (After(x) - 1) % Length = x /\ (After(After(x)) - 2) % Length = x
<1>1. x \in Nat /\ Length \in Nat /\ Length > 0 /\ x < Length
  BY PipelineAssumption DEF Step
<1>2. After(x) = (IF x = Length - 1 THEN 0 ELSE x + 1) /\ After(x) \in Step
  BY AfterIs
<1>3. After(After(x)) = (IF After(x) = Length - 1 THEN 0 ELSE After(x) + 1)
  BY <1>2, AfterIs
<1> QED BY <1>1, <1>2, <1>3

\* None is no step, and what follows a step or None is one.
LEMMA StepsAre == None \notin Step /\ 0 \in Step /\ \A x \in Step \cup {None} : NextOf(x) \in Step
<1>1. None \notin Step /\ 0 \in Step
  BY PipelineAssumption DEF Step, None
<1> QED BY <1>1, AfterIs DEF NextOf

\* The count of the edges stays in its bounds and does not fall.
LEMMA SatIs ==
  ASSUME NEW x \in 0 .. MaxPause
  PROVE  Sat(x) \in 0 .. MaxPause /\ x <= Sat(x)
BY PipelineAssumption DEF Sat

\* A hart that has been woken has the type of a hart.
LEMMA FreshIs == Fresh \in Core
<1>1. MaxPause \in 0 .. MaxPause /\ 0 \in 0 .. Depth
  BY PipelineAssumption
<1> QED BY <1>1, StepsAre DEF Fresh, Core

\* A hart asks for its next step, and only when it runs and has room.
LEMMA RequestIs ==
  ASSUME Types, NEW s \in Side
  PROVE  /\ Request(s) \in {None, core[s].n}
         /\ Request(s) # None =>
              core[s].mode = "run" /\ core[s].out < Depth
         /\ core[s].mode # "run" => Request(s) = None
BY StepsAre DEF Request, Types, Core

\* A hart keeps its type at an edge.
LEMMA CoreStays ==
  ASSUME Types, NEW s \in Side, NEW gnt \in BOOLEAN, NEW ans, NEW halts
  PROVE  CoreNext(s, gnt, ans, halts) \in Core
<1> DEFINE c == core[s]
           taken == Granted(s, gnt)
           answered == Answer(s, ans) # None /\ c.out > 0
           out == c.out + (IF taken THEN 1 ELSE 0) - (IF answered THEN 1 ELSE 0)
           since == [k \in 1..Depth |->
                       IF ~answered THEN Sat(c.since[k])
                       ELSE IF k = 1 THEN 0 ELSE Sat(c.since[k - 1])]
           n == IF taken THEN After(c.n) ELSE c.n
           mode == IF (c.mode = "halt" \/ halts) /\ out = 0 THEN "sleep"
                   ELSE IF halts THEN "halt" ELSE c.mode
<1>1. c \in Core
  BY DEF Types
<1>2. taken => c.out < Depth
  BY RequestIs DEF Granted
<1>3. c.out \in 0 .. Depth /\ Depth \in Nat
  BY <1>1, PipelineAssumption DEF Core
<1>4. out \in 0 .. Depth
  <2> HIDE DEF taken, c
  <2> QED BY <1>2, <1>3
<1>5. since \in [1 .. Depth -> 0 .. MaxPause]
  <2>1. \A k \in 1 .. Depth : k # 1 => k - 1 \in 1 .. Depth
    BY <1>3
  <2>2. \A k \in 1 .. Depth : c.since[k] \in 0 .. MaxPause
    BY <1>1 DEF Core
  <2>3. 0 \in 0 .. MaxPause
    BY PipelineAssumption
  <2> HIDE DEF c
  <2>4. \A k \in 1 .. Depth :
          (IF ~answered THEN Sat(c.since[k])
           ELSE IF k = 1 THEN 0 ELSE Sat(c.since[k - 1])) \in 0 .. MaxPause
    BY <2>1, <2>2, <2>3, SatIs
  <2> QED BY <2>4
<1>6. n \in Step /\ mode \in {"run", "halt", "sleep"}
  BY <1>1, AfterIs DEF Core
<1>7. [mode |-> mode, n |-> n, out |-> out, since |-> since] \in Core
  <2> HIDE DEF mode, n, out, since
  <2> QED BY <1>4, <1>5, <1>6 DEF Core
<1>8. CoreNext(s, gnt, ans, halts) =
        IF Asleep(s) THEN IF Woken(s) THEN Fresh ELSE c
        ELSE [mode |-> mode, n |-> n, out |-> out, since |-> since]
  BY DEF CoreNext
<1> HIDE DEF c, mode, n, out, since
<1> QED BY <1>1, <1>7, <1>8, FreshIs

(***************************************************************************)
(* An edge while the harts are not isolated, in terms of one stage.        *)
(***************************************************************************)
\* The pipeline takes the request of the leader.
LeadTaken(gnt) == Request("lead") # None /\ (P = None \/ gnt)

\* Everything keeps its type at an edge.
LEMMA TypesStay ==
  ASSUME Types, NEW gnt \in BOOLEAN, NEW ans \in {None, bus}, NEW H \in SUBSET Side,
         Clock(gnt, ans, H)
  PROVE  Types'
<1>1. Side = {"lead", "follow"} /\ \A i \in Stage : i # 1 => i - 1 \in Stage
  BY PipelineAssumption DEF Side, Stage
<1>2. \A s \in Side : Request(s) \in Step \cup {None}
  BY RequestIs DEF Types, Core
<1>3. \A i \in Stage : Offered(i) \in Step \cup {None}
  BY <1>1, <1>2 DEF Offered, Types
<1>4. core' \in [Side -> Core]
  <2>1. core' = [s \in Side |-> CoreNext(s, gnt, ans, s \in H)]
    BY DEF Clock
  <2>2. \A s \in Side : CoreNext(s, gnt, ans, s \in H) \in Core
    BY CoreStays, Zenon
  <2> QED BY <2>1, <2>2
<1>5. pipe' \in [Stage -> Step \cup {None}]
  BY <1>3 DEF Clock, PipeNext, Types
<1>6. late' \in [Stage -> Step \cup {None}]
  BY <1>1 DEF Clock, LateNext, Types
<1>7. kick' \in [Stage -> BOOLEAN]
  BY <1>1 DEF Clock, KickNext, Types
<1>8. owed' \in [Side -> BOOLEAN] /\ fake' \in [Side -> BOOLEAN]
  BY DEF Clock, OwedNext, FakeNext, Isolated, Granted, Types
<1>9. phase' \in {"start", "sync", "stop"}
  BY DEF Clock, PhaseNext, Types
<1>10. gnt => BusRequest \in Step
  <2>1. pipe[NCYCLES] \in Step \cup {None}
    BY PipelineAssumption DEF Types, Stage
  <2> QED BY <2>1 DEF Clock, BusRequest, Delayed
<1>11. bus' \in Step \cup {None} /\ last' \in Step \cup {None}
  BY <1>10 DEF Clock, Types
<1>12. struck' \in {{}, {"lead"}, {"follow"}, {"pipe"}} /\ pause' \in [Step -> 0 .. MaxPause]
  BY DEF Clock, Types
<1> QED BY <1>4, <1>5, <1>6, <1>7, <1>8, <1>9, <1>11, <1>12 DEF Types

\* The only stage is the first and the last.
LEMMA OneStage ==
  ASSUME NCYCLES = 1
  PROVE  Stage = {1} /\ Delayed = P /\ Offered(1) = Request("lead")
BY DEF Stage, Delayed, P, Offered

\* What the types say of one hart, and of the registers between them.
LEMMA HartIs ==
  ASSUME Types, NEW s \in Side
  PROVE  /\ core[s].n \in Step /\ core[s].out \in Nat
         /\ core[s].since \in [1 .. Depth -> 0 .. MaxPause]
<1>1. core[s] \in Core
  BY DEF Types
<1>2. core[s].out \in 0 .. Depth
  BY <1>1 DEF Core
<1> QED BY <1>1, <1>2 DEF Core

LEMMA WiresAre ==
  ASSUME Types, NCYCLES = 1
  PROVE  /\ late[1] \in Step \cup {None} /\ P \in Step \cup {None}
         /\ bus \in Step \cup {None} /\ last \in Step \cup {None}
         /\ F.n \in Step /\ F.out \in Nat /\ F.since \in [1 .. Depth -> 0 .. MaxPause]
         /\ L.n \in Step /\ L.out \in Nat
<1>1. late[1] \in Step \cup {None} /\ P \in Step \cup {None}
  BY OneStage DEF Types, P
<1>2. bus \in Step \cup {None} /\ last \in Step \cup {None}
  BY DEF Types
<1>3. "lead" \in Side /\ "follow" \in Side
  BY DEF Side
<1> QED BY <1>1, <1>2, <1>3, HartIs DEF F, L

\* What an edge does to the bus, the pipeline and the phase.
LEMMA EdgeIs ==
  ASSUME Types, NCYCLES = 1, NEW gnt \in BOOLEAN, NEW ans \in {None, bus},
         NEW H \in SUBSET Side, Clock(gnt, ans, H), phase # "stop"
  PROVE  /\ gnt => /\ P # None /\ P = Request("follow") /\ BusRequest = P
                   /\ bus = None \/ ans # None
         /\ last' = IF gnt THEN P ELSE last
         /\ bus' = IF gnt THEN P ELSE IF ans # None THEN None ELSE bus
         /\ late'[1] = ans /\ kick'[1] = (phase = "start")
         /\ P' = IF LeadTaken(gnt) THEN Request("lead")
                 ELSE IF P = None \/ gnt THEN None ELSE P
         /\ phase' # "start" \/ phase = "start"
         /\ phase' = "stop" <=> phase = "sync" /\ Error
         /\ struck' = struck /\ pause' = pause
<1>1. ~Isolated /\ Enabled
  BY DEF Isolated, Enabled
<1>2. gnt => P # None /\ P = Request("follow") /\ BusRequest = P
  BY OneStage DEF Clock, BusRequest, Error
<1>3. phase' # "start" \/ phase = "start"
  BY DEF Clock, PhaseNext, Types
<1>4. phase' = "stop" <=> phase = "sync" /\ Error
  BY DEF Clock, PhaseNext, Types
<1>5. Takes(1, gnt) <=> LeadTaken(gnt)
  BY OneStage DEF Takes, LeadTaken, P
<1>6. P' = IF LeadTaken(gnt) THEN Request("lead") ELSE IF P = None \/ gnt THEN None ELSE P
  <2>1. pipe'[1] = IF Takes(1, gnt) THEN Offered(1)
                   ELSE IF pipe[1] = None \/ gnt THEN None ELSE pipe[1]
    BY <1>1, OneStage DEF Clock, PipeNext
  <2> QED BY <1>5, <2>1, OneStage DEF P
<1>7. late'[1] = ans /\ kick'[1] = (phase = "start")
  BY <1>1, OneStage DEF Clock, LateNext, KickNext
<1>8. /\ last' = IF gnt THEN P ELSE last
      /\ bus' = IF gnt THEN P ELSE IF ans # None THEN None ELSE bus
      /\ struck' = struck /\ pause' = pause
  BY <1>2, <1>3 DEF Clock
<1>9. gnt => bus = None \/ ans # None
  BY DEF Clock
<1> QED BY <1>2, <1>3, <1>4, <1>6, <1>7, <1>8, <1>9

\* What an edge does to the leader.
LEMMA LeadIs ==
  ASSUME Types, NCYCLES = 1, NEW gnt \in BOOLEAN, NEW ans \in {None, bus},
         NEW H \in SUBSET Side, Clock(gnt, ans, H), phase # "stop"
  PROVE  /\ L.mode = "run" => L'.mode = "run"
         /\ L.mode = "run" /\ (ans # None => L.out > 0) =>
              /\ L'.mode = "run"
              /\ L'.n = IF LeadTaken(gnt) THEN After(L.n) ELSE L.n
              /\ L'.out = L.out + One(LeadTaken(gnt)) - One(ans # None)
              /\ L'.since = Later(L.since, ans # None)
         /\ L.mode = "sleep" => L' = IF phase = "start" THEN Fresh ELSE L
<1>1. ~Isolated /\ \A s \in Side : (s \in H) = FALSE
  BY DEF Isolated, Clock
<1>2. L' = CoreNext("lead", gnt, ans, FALSE)
  <2>1. core' = [s \in Side |-> CoreNext(s, gnt, ans, s \in H)] /\ "lead" \in Side
    BY DEF Clock, Side
  <2>2. CoreNext("lead", gnt, ans, "lead" \in H) = CoreNext("lead", gnt, ans, FALSE)
    BY <1>1, <2>1, Zenon
  <2> QED BY <2>1, <2>2 DEF L
<1>3. Answer("lead", ans) = ans /\ (Granted("lead", gnt) <=> LeadTaken(gnt))
  <2>1. Takes(1, gnt) <=> LeadTaken(gnt)
    BY OneStage DEF Takes, LeadTaken, P
  <2> QED BY <1>1, <2>1 DEF Answer, Granted, LeadTaken
<1>4. ASSUME L.mode = "run", ans # None => L.out > 0
      PROVE  /\ L'.mode = "run"
             /\ L'.n = IF LeadTaken(gnt) THEN After(L.n) ELSE L.n
             /\ L'.out = L.out + One(LeadTaken(gnt)) - One(ans # None)
             /\ L'.since = Later(L.since, ans # None)
  <2>1. ~Asleep("lead") /\ (Answer("lead", ans) # None /\ core["lead"].out > 0 <=> ans # None)
    BY <1>3, <1>4 DEF Asleep, L
  <2> QED BY <1>2, <1>3, <1>4, <2>1 DEF CoreNext, L, One, Later
<1>6. L.mode = "run" => L'.mode = "run"
  BY <1>2 DEF CoreNext, Asleep, L
<1>5. L.mode = "sleep" => L' = IF phase = "start" THEN Fresh ELSE L
  BY <1>2 DEF CoreNext, Asleep, Woken, L
<1> QED BY <1>4, <1>5, <1>6

\* What an edge does to the follower.
LEMMA FollowerIs ==
  ASSUME Types, NCYCLES = 1, NEW gnt \in BOOLEAN, NEW ans \in {None, bus},
         NEW H \in SUBSET Side, Clock(gnt, ans, H), phase # "stop"
  PROVE  /\ F.mode = "run" => F'.mode = "run"
         /\ F.mode = "run" /\ (late[1] # None => F.out > 0) =>
              /\ F'.mode = "run"
              /\ F'.n = IF gnt THEN After(F.n) ELSE F.n
              /\ F'.out = F.out + One(gnt) - One(late[1] # None)
              /\ F'.since = Later(F.since, late[1] # None)
         /\ F.mode = "sleep" => F' = IF kick[1] THEN Fresh ELSE F
<1>1. ~Isolated /\ \A s \in Side : (s \in H) = FALSE
  BY DEF Isolated, Clock
<1>2. F' = CoreNext("follow", gnt, ans, FALSE)
  <2>1. core' = [s \in Side |-> CoreNext(s, gnt, ans, s \in H)] /\ "follow" \in Side
    BY DEF Clock, Side
  <2>2. CoreNext("follow", gnt, ans, "follow" \in H) = CoreNext("follow", gnt, ans, FALSE)
    BY <1>1, <2>1, Zenon
  <2> QED BY <2>1, <2>2 DEF F
<1>3. Answer("follow", ans) = late[1] /\ (Granted("follow", gnt) <=> gnt)
  <2>1. gnt => Request("follow") # None
    BY EdgeIs
  <2> QED BY <1>1, <2>1 DEF Answer, Granted
<1>4. ASSUME F.mode = "run", late[1] # None => F.out > 0
      PROVE  /\ F'.mode = "run"
             /\ F'.n = IF gnt THEN After(F.n) ELSE F.n
             /\ F'.out = F.out + One(gnt) - One(late[1] # None)
             /\ F'.since = Later(F.since, late[1] # None)
  <2>1. ~Asleep("follow") /\ (Answer("follow", ans) # None /\ core["follow"].out > 0 <=> late[1] # None)
    BY <1>3, <1>4 DEF Asleep, F
  <2> QED BY <1>2, <1>3, <1>4, <2>1 DEF CoreNext, F, One, Later
<1>6. F.mode = "run" => F'.mode = "run"
  BY <1>2 DEF CoreNext, Asleep, F
<1>5. F.mode = "sleep" => F' = IF kick[1] THEN Fresh ELSE F
  <2>1. NCYCLES = 1 /\ "follow" # "lead"
    OBVIOUS
  <2> QED BY <1>2, <2>1 DEF CoreNext, Asleep, Woken, F
<1> QED BY <1>4, <1>5, <1>6

(***************************************************************************)
(* What an edge preserves, while the harts are not isolated.               *)
(***************************************************************************)
\* The follower stays right with the bus.
LEMMA FollowerStays ==
  ASSUME Types, NCYCLES = 1, NEW gnt \in BOOLEAN, NEW ans \in {None, bus},
         NEW H \in SUBSET Side, Clock(gnt, ans, H), phase # "stop",
         F.mode = "run", FollowerRight
  PROVE  F'.mode = "run" /\ FollowerRight'
<1>1. /\ late[1] \in Step \cup {None} /\ bus \in Step \cup {None} /\ last \in Step \cup {None}
      /\ F.n \in Step /\ F.out \in Nat
  BY WiresAre
<1>2. /\ gnt => /\ P # None /\ P = Request("follow")
                /\ bus = None \/ ans # None
      /\ last' = IF gnt THEN P ELSE last
      /\ bus' = IF gnt THEN P ELSE IF ans # None THEN None ELSE bus
      /\ late'[1] = ans
  BY EdgeIs
<1>3. gnt => P = F.n
  BY <1>2, RequestIs DEF F, Side
<1>4. late[1] # None => F.out > 0
  BY DEF FollowerRight, One
<1>5. /\ F'.mode = "run"
      /\ F'.n = IF gnt THEN After(F.n) ELSE F.n
      /\ F'.out = F.out + One(gnt) - One(late[1] # None)
  BY <1>4, FollowerIs
<1>6. BusIsLast'
  BY <1>2 DEF BusIsLast, FollowerRight
<1>7. F'.n = NextOf(last')
  BY <1>1, <1>2, <1>3, <1>5, StepsAre DEF FollowerRight, NextOf
<1>8. F'.out = One(late'[1] # None) + One(bus' # None)
  BY <1>1, <1>2, <1>3, <1>5, StepsAre DEF FollowerRight, One
<1>9. late'[1] # None => After(late'[1]) = IF bus' # None THEN bus' ELSE F'.n
  <2> SUFFICES ASSUME ans # None
               PROVE  After(ans) = IF bus' # None THEN bus' ELSE F'.n
    BY <1>2
  <2>1. ans = bus /\ bus = last /\ F.n = After(ans)
    BY DEF FollowerRight, BusIsLast, NextOf
  <2> QED BY <1>1, <1>2, <1>3, <1>5, <2>1, StepsAre
<1> QED BY <1>5, <1>6, <1>7, <1>8, <1>9 DEF FollowerRight

\* The leader stays right with the pipeline and the bus.
LEMMA LeaderStays ==
  ASSUME Types, NCYCLES = 1, NEW gnt \in BOOLEAN, NEW ans \in {None, bus},
         NEW H \in SUBSET Side, Clock(gnt, ans, H), phase # "stop",
         L.mode = "run", LeaderRight
  PROVE  L'.mode = "run" /\ LeaderRight'
<1>1. /\ P \in Step \cup {None} /\ bus \in Step \cup {None} /\ last \in Step \cup {None}
      /\ L.n \in Step /\ L.out \in Nat
  BY WiresAre
<1>2. /\ gnt => P # None /\ (bus = None \/ ans # None)
      /\ last' = IF gnt THEN P ELSE last
      /\ bus' = IF gnt THEN P ELSE IF ans # None THEN None ELSE bus
      /\ P' = IF LeadTaken(gnt) THEN Request("lead")
              ELSE IF P = None \/ gnt THEN None ELSE P
  BY EdgeIs
<1>3. LeadTaken(gnt) => Request("lead") = L.n /\ (P = None \/ gnt)
  BY RequestIs DEF L, Side, LeadTaken
<1>4. ans # None => L.out > 0
  BY <1>1 DEF LeaderRight, One
<1>5. /\ L'.mode = "run"
      /\ L'.n = IF LeadTaken(gnt) THEN After(L.n) ELSE L.n
      /\ L'.out = L.out + One(LeadTaken(gnt)) - One(ans # None)
  BY <1>4, LeadIs
<1>6. BusIsLast'
  BY <1>2 DEF BusIsLast, LeaderRight
<1> DEFINE t == LeadTaken(gnt)
<1> HIDE DEF t
<1>7. /\ P' = IF t THEN L.n ELSE IF P = None \/ gnt THEN None ELSE P
      /\ t => P = None \/ gnt
      /\ L'.n = IF t THEN After(L.n) ELSE L.n
      /\ L'.out = L.out + One(t) - One(ans # None)
  BY <1>2, <1>3, <1>5 DEF t
<1>8. L.n = NextOf(IF P # None THEN P ELSE last) /\ (P # None => P = NextOf(last))
      /\ L.out = One(P # None) + One(bus # None)
  BY DEF LeaderRight
<1>9. /\ P' # None => P' = NextOf(last')
      /\ L'.n = NextOf(IF P' # None THEN P' ELSE last')
  BY <1>1, <1>2, <1>7, <1>8, StepsAre DEF NextOf
<1>10. L'.out = One(P' # None) + One(bus' # None)
  BY <1>1, <1>2, <1>7, <1>8, StepsAre DEF One
<1> QED BY <1>5, <1>6, <1>9, <1>10 DEF LeaderRight

\* The follower goes on asking for what leaves the pipeline, on its edge: it has
\* waited as long as the leader had.
LEMMA TogetherStays ==
  ASSUME Types, NCYCLES = 1, NEW gnt \in BOOLEAN, NEW ans \in {None, bus},
         NEW H \in SUBSET Side, Clock(gnt, ans, H), phase # "stop",
         BothRun, FollowerRight, LeaderRight, Together
  PROVE  Together'
<1>1. /\ late[1] \in Step \cup {None} /\ bus \in Step \cup {None} /\ last \in Step \cup {None}
      /\ P \in Step \cup {None}
      /\ F.n \in Step /\ F.out \in Nat /\ F.since \in [1 .. Depth -> 0 .. MaxPause]
      /\ L.n \in Step /\ L.out \in Nat
      /\ pause \in [Step -> 0 .. MaxPause] /\ Depth \in Nat
  BY WiresAre, PipelineAssumption DEF Types
<1>2. /\ gnt => P # None /\ P = Request("follow")
      /\ late'[1] = ans /\ pause' = pause
      /\ P' = IF LeadTaken(gnt) THEN Request("lead")
              ELSE IF P = None \/ gnt THEN None ELSE P
  BY EdgeIs
<1>3. /\ late[1] # None => F.out > 0
      /\ ans # None => L.out > 0
  BY <1>1 DEF FollowerRight, LeaderRight, One
<1>4. /\ F'.mode = "run"
      /\ F'.n = IF gnt THEN After(F.n) ELSE F.n
      /\ F'.out = F.out + One(gnt) - One(late[1] # None)
      /\ F'.since = Later(F.since, late[1] # None)
  BY <1>3, FollowerIs DEF BothRun
<1>5. L'.since = Later(L.since, ans # None)
  BY <1>3, LeadIs DEF BothRun
<1>6. F'.since = L.since
  BY <1>4 DEF Together
<1>7. L'.since = Later(F'.since, late'[1] # None)
  BY <1>2, <1>5, <1>6
<1>8. Request("follow")' = IF F'.out < Depth /\ F'.since[Depth - F'.out] >= pause[F'.n]
                           THEN F'.n ELSE None
  BY <1>2, <1>4 DEF Request, F
<1>9. CASE P = None \/ gnt
  <2>1. gnt <=> P # None
    BY <1>2, <1>9
  <2>2. gnt => P = F.n
    BY <1>2, RequestIs DEF F, Side
  <2>3. F'.n = L.n
    BY <1>1, <1>4, <2>1, <2>2, StepsAre DEF FollowerRight, LeaderRight, NextOf
  <2>4. F'.out = L.out
    BY <1>1, <1>4, <2>1 DEF FollowerRight, LeaderRight, One
  <2>5. Request("lead") = IF L.out < Depth /\ L.since[Depth - L.out] >= pause[L.n]
                          THEN L.n ELSE None
    BY DEF Request, L, BothRun
  <2>6. Request("follow")' = Request("lead")
    BY <1>6, <1>8, <2>3, <2>4, <2>5
  <2>7. P' = Request("lead")
    BY <1>2, <1>9 DEF LeadTaken
  <2> QED BY <1>7, <2>6, <2>7 DEF Together
<1>10. CASE P # None /\ ~gnt
  <2>1. P' = P
    BY <1>2, <1>10 DEF LeadTaken
  <2>2. F.out < Depth /\ F.since[Depth - F.out] >= pause[F.n] /\ P = F.n
    BY <1>10 DEF Together, Request, F
  <2>3. F'.n = F.n /\ F'.out = F.out - One(late[1] # None)
    BY <1>1, <1>4, <1>10 DEF One
  <2>4. F'.out < Depth /\ F'.since[Depth - F'.out] >= F.since[Depth - F.out]
    <3>1. Depth - F.out \in 1 .. Depth /\ F.since[Depth - F.out] \in 0 .. MaxPause
      <4>1. \A d, o \in Nat : o < d => d - o \in 1 .. d
        OBVIOUS
      <4>2. Depth - F.out \in 1 .. Depth
        BY <1>1, <2>2, <4>1
      <4> QED BY <1>1, <4>2
    <3>2. /\ Sat(F.since[Depth - F.out]) \in 0 .. MaxPause
          /\ F.since[Depth - F.out] <= Sat(F.since[Depth - F.out])
      BY <3>1, SatIs
    <3>3. CASE late[1] = None
      <4>1. F'.out = F.out
        BY <1>1, <2>3, <3>3 DEF One
      <4>2. F'.since[Depth - F'.out] = Sat(F.since[Depth - F.out])
        BY <1>4, <3>1, <3>3, <4>1 DEF Later
      <4> QED BY <2>2, <3>1, <3>2, <4>1, <4>2
    <3>4. CASE late[1] # None
      <4>1. F'.out = F.out - 1 /\ F.out > 0
        BY <1>1, <1>3, <2>3, <3>4 DEF One
      <4>2. /\ Depth - F'.out \in 1 .. Depth /\ Depth - F'.out # 1
            /\ (Depth - F'.out) - 1 = Depth - F.out
        <5>1. \A d, o \in Nat : o < d /\ o > 0 =>
                /\ d - (o - 1) \in 1 .. d /\ d - (o - 1) # 1
                /\ (d - (o - 1)) - 1 = d - o
          OBVIOUS
        <5>2. /\ Depth - (F.out - 1) \in 1 .. Depth /\ Depth - (F.out - 1) # 1
              /\ (Depth - (F.out - 1)) - 1 = Depth - F.out
          BY <1>1, <2>2, <4>1, <5>1
        <5> QED BY <4>1, <5>2
      <4>3. F'.since[Depth - F'.out] = Sat(F.since[Depth - F.out])
        BY <1>4, <3>4, <4>2 DEF Later
      <4> QED BY <1>1, <2>2, <3>1, <3>2, <4>1, <4>3
    <3> QED BY <3>3, <3>4
  <2>5. F'.since[Depth - F'.out] \in 0 .. MaxPause
    <3>1. F'.out \in Nat
      BY <1>1, <1>3, <2>3 DEF One
    <3>2. Depth - F'.out \in 1 .. Depth
      <4>1. \A d, o \in Nat : o < d => d - o \in 1 .. d
        OBVIOUS
      <4> QED BY <1>1, <2>4, <3>1, <4>1
    <3>3. Later(F.since, late[1] # None) \in [1 .. Depth -> 0 .. MaxPause]
      <4>1. Types'
        BY TypesStay
      <4>2. F' \in Core
        BY <4>1 DEF Types, F, Side
      <4> QED BY <1>4, <4>2 DEF Core
    <3> QED BY <1>4, <3>2, <3>3
  <2>6. F'.since[Depth - F'.out] >= pause[F'.n]
    <3>1. pause[F.n] \in 0 .. MaxPause /\ F.since[Depth - F.out] \in 0 .. MaxPause
      BY <1>1, <2>2
    <3> QED BY <2>2, <2>3, <2>4, <2>5, <3>1
  <2>7. Request("follow")' = P'
    BY <1>8, <2>1, <2>2, <2>3, <2>4, <2>6
  <2> QED BY <1>7, <2>7 DEF Together
<1> QED BY <1>9, <1>10

(***************************************************************************)
(* Each phase.                                                             *)
(***************************************************************************)
\* An edge while the harts are woken.
LEMMA StartEdge ==
  ASSUME IInv, NCYCLES = 1, NEW gnt \in BOOLEAN, NEW ans \in {None, bus},
         NEW H \in SUBSET Side, Clock(gnt, ans, H), phase = "start"
  PROVE  IInv'
<1>1. Types /\ Types' /\ Starts
  BY TypesStay DEF IInv
<1>2. /\ gnt => P # None /\ P = Request("follow")
      /\ last' = IF gnt THEN P ELSE last
      /\ bus' = IF gnt THEN P ELSE IF ans # None THEN None ELSE bus
      /\ late'[1] = ans /\ kick'[1] = TRUE
      /\ P' = IF LeadTaken(gnt) THEN Request("lead")
              ELSE IF P = None \/ gnt THEN None ELSE P
      /\ struck' = struck /\ pause' = pause
      /\ phase' # "stop"
  BY <1>1, EdgeIs
<1>3. struck' = {}
  BY <1>1, <1>2 DEF Starts
<1>4. CASE NoneRuns /\ P = None /\ bus = None /\ last = None
  <2>1. Request("lead") = None
    BY <1>1, <1>4, RequestIs DEF NoneRuns, L, Side
  <2>2. P' = None /\ bus' = None /\ last' = None /\ late'[1] = None
    BY <1>2, <1>4, <2>1 DEF LeadTaken
  <2>3. L' = Fresh /\ F' = F
    BY <1>1, <1>4, LeadIs, FollowerIs DEF NoneRuns
  <2>4. phase' = "start"
    BY <1>4 DEF Clock, PhaseNext, NoneRuns, Asleep, L, F
  <2>5. LeadRuns'
    BY <1>2, <1>4, <2>2, <2>3 DEF NoneRuns, LeadRuns, Fresh
  <2> QED BY <1>1, <1>3, <2>2, <2>4, <2>5 DEF IInv, Starts
<1>5. CASE LeadRuns /\ P = None /\ bus = None /\ last = None
  <2>1. /\ MaxPause \in Nat /\ Depth \in Nat \ {0} /\ 0 \in Step
        /\ pause[0] \in 0 .. MaxPause
    BY <1>1, PipelineAssumption, StepsAre DEF Types
  <2>2. L.mode = "run" /\ L.n = 0 /\ L.out = 0 /\ \A k \in 1 .. Depth : L.since[k] = MaxPause
    BY <1>5 DEF LeadRuns, Fresh
  <2>3. Request("lead") = 0
    <3>1. L.since[Depth - L.out] >= pause[L.n] /\ L.out < Depth
      BY <2>1, <2>2
    <3> QED BY <2>2, <3>1 DEF Request, L
  <2>4. LeadTaken(gnt) /\ ~gnt /\ ans = None
    BY <1>2, <1>5, <2>1, <2>3, StepsAre DEF LeadTaken
  <2>5. P' = 0 /\ bus' = None /\ last' = None /\ late'[1] = None
    BY <1>2, <1>5, <2>3, <2>4
  <2>6. /\ L'.mode = "run" /\ L'.n = After(0) /\ L'.out = 1
        /\ L'.since = Later(L.since, ans # None)
    <3>1. /\ L'.mode = "run"
          /\ L'.n = IF LeadTaken(gnt) THEN After(L.n) ELSE L.n
          /\ L'.out = L.out + One(LeadTaken(gnt)) - One(ans # None)
          /\ L'.since = Later(L.since, ans # None)
      BY <1>1, <2>2, <2>4, LeadIs
    <3> QED BY <2>2, <2>4, <3>1 DEF One
  <2>7. F' = Fresh
    BY <1>1, <1>5, FollowerIs DEF LeadRuns
  <2>8. F'.mode = "run" /\ F'.n = 0 /\ F'.out = 0 /\ F'.since = [k \in 1 .. Depth |-> MaxPause]
    BY <2>7 DEF Fresh
  <2>9. FollowerRight' /\ LeaderRight'
    BY <2>5, <2>6, <2>8, StepsAre DEF FollowerRight, LeaderRight, BusIsLast, NextOf, One
  <2>10. Request("follow")' = 0
    <3>1. F'.since[Depth - F'.out] >= pause'[F'.n] /\ F'.out < Depth
      BY <1>2, <2>1, <2>8
    <3> QED BY <2>8, <3>1 DEF Request, F
  <2>11. L'.since = Later(F'.since, late'[1] # None)
    <3>1. L.since = [k \in 1 .. Depth |-> MaxPause]
      BY <1>5 DEF LeadRuns, Fresh
    <3> QED BY <2>4, <2>5, <2>6, <2>8, <3>1
  <2>12. Both'
    BY <2>5, <2>6, <2>8, <2>9, <2>10, <2>11 DEF Both, BothRun, Together
  <2>13. phase' = "start"
    BY <1>5 DEF Clock, PhaseNext, LeadRuns, Asleep, F
  <2> QED BY <1>1, <1>3, <2>12, <2>13 DEF IInv, Starts
<1>6. CASE Both
  <2>1. Both'
    BY <1>1, <1>6, FollowerStays, LeaderStays, TogetherStays DEF Both, BothRun
  <2>2. phase' \in {"start", "sync"}
    BY <1>1, <1>2 DEF Types
  <2> QED BY <1>1, <1>3, <2>1, <2>2 DEF IInv, Starts, Both, Syncs
<1> QED BY <1>1, <1>4, <1>5, <1>6 DEF Starts

\* An edge while they are compared; the last, when they differ, stops them.
LEMMA SyncEdge ==
  ASSUME IInv, NCYCLES = 1, NEW gnt \in BOOLEAN, NEW ans \in {None, bus},
         NEW H \in SUBSET Side, Clock(gnt, ans, H), phase = "sync"
  PROVE  IInv'
<1>1. Types /\ Types' /\ Syncs
  BY TypesStay DEF IInv
<1>2. /\ kick'[1] = FALSE /\ struck' = struck
      /\ phase' # "start" /\ (phase' = "stop" <=> Error)
  BY <1>1, EdgeIs
<1>3. "follow" \notin struck => F'.mode = "run" /\ FollowerRight'
  BY <1>1, FollowerStays DEF Syncs, BothRun
<1>4. "lead" \notin struck /\ "pipe" \notin struck => L'.mode = "run" /\ LeaderRight'
  BY <1>1, LeaderStays DEF Syncs, BothRun
<1>5. CASE phase' = "stop"
  <2>1. P' # None /\ P' = Request("follow")' => P' = NextOf(last')
    <3>1. CASE "follow" \notin struck
      <4>1. Request("follow")' \in {None, F'.n}
        BY <1>1 DEF Request, F
      <4> QED BY <1>3, <3>1, <4>1 DEF FollowerRight
    <3>2. CASE "follow" \in struck
      <4>1. "lead" \notin struck /\ "pipe" \notin struck
        BY <1>1, <3>2 DEF Types
      <4> QED BY <1>4, <4>1 DEF LeaderRight
    <3> QED BY <3>1, <3>2
  <2> QED BY <1>1, <1>2, <1>5, <2>1 DEF IInv, Stops
<1>6. CASE phase' # "stop"
  <2>1. ~Error /\ phase' = "sync"
    BY <1>1, <1>2, <1>6 DEF Types
  <2>2. "pipe" \notin struck
    BY <1>1, <2>1 DEF Syncs
  <2>3. BothRun'
    BY <1>1, LeadIs, FollowerIs DEF Syncs, BothRun
  <2>4. struck = {} => Together'
    BY <1>1, TogetherStays DEF Syncs
  <2> QED BY <1>1, <1>2, <1>3, <1>4, <2>1, <2>2, <2>3, <2>4 DEF IInv, Syncs
<1> QED BY <1>5, <1>6

\* An edge while they are stopped; after the last nothing is on its way.
LEMMA StopEdge ==
  ASSUME IInv, NCYCLES = 1, NEW gnt \in BOOLEAN, NEW ans \in {None, bus},
         NEW H \in SUBSET Side, Clock(gnt, ans, H), phase = "stop"
  PROVE  IInv'
<1>1. Types /\ Types' /\ Stops
  BY TypesStay DEF IInv
<1>2. P' = None /\ kick'[1] = FALSE
  BY OneStage DEF Clock, PipeNext, KickNext, Enabled, Isolated, P
<1>3. phase' = PhaseNext /\ phase' \in {"stop", "start"}
  BY DEF Clock, PhaseNext
<1>4. CASE phase' = "stop"
  BY <1>1, <1>2, <1>4 DEF IInv, Stops
<1>5. CASE phase' = "start"
  <2>1. L.mode = "sleep" /\ F.mode = "sleep" /\ Asleep("lead") /\ Asleep("follow")
    BY <1>3, <1>5 DEF PhaseNext, Asleep, L, F
  <2>2. ~Woken("lead") /\ ~Woken("follow")
    BY <1>1 DEF Woken, Stops, Side
  <2>3. L' = L /\ F' = F
    <3>1. core' = [s \in Side |-> CoreNext(s, gnt, ans, s \in H)]
          /\ "lead" \in Side /\ "follow" \in Side
      BY DEF Clock, Side
    <3>2. /\ CoreNext("lead", gnt, ans, "lead" \in H) = core["lead"]
          /\ CoreNext("follow", gnt, ans, "follow" \in H) = core["follow"]
      BY <2>1, <2>2, Zenon DEF CoreNext
    <3> QED BY <3>1, <3>2 DEF L, F
  <2>4. Request("follow") = None
    BY <1>1, <2>1, RequestIs DEF F, Side
  <2>5. ~gnt
    BY <2>4, OneStage DEF Clock, BusRequest, Error
  <2>6. bus' = None
    BY <1>3, <1>5, <2>5 DEF Clock, SlavesAreQuick
  <2>7. last' = None /\ struck' = {}
    BY <1>5 DEF Clock
  <2> QED BY <1>1, <1>2, <1>5, <2>1, <2>3, <2>6, <2>7 DEF IInv, Starts, NoneRuns
<1> QED BY <1>3, <1>4, <1>5

(***************************************************************************)
(* The answers on their way are to the oldest requests of the harts.       *)
(***************************************************************************)
\* The bus answers the oldest request of the leader.
LEMMA LeaderOldest ==
  ASSUME Types, LeaderRight, bus # None
  PROVE  L.out > 0 /\ bus = Oldest("lead")
<1>1. bus = last /\ bus \in Step
  BY DEF LeaderRight, BusIsLast, Types
<1>2. CASE P = None
  <2>1. L.n = After(bus) /\ L.out = 1
    BY <1>1, <1>2 DEF LeaderRight, NextOf, One
  <2> QED BY <1>1, <2>1, Back DEF Oldest, L
<1>3. CASE P # None
  <2>1. L.n = After(After(bus)) /\ L.out = 2
    BY <1>1, <1>3 DEF LeaderRight, NextOf, One
  <2> QED BY <1>1, <2>1, Back DEF Oldest, L
<1> QED BY <1>2, <1>3

\* The delayed answer is to the oldest request of the follower.
LEMMA FollowerOldest ==
  ASSUME Types, NCYCLES = 1, FollowerRight, late[1] # None
  PROVE  F.out > 0 /\ late[1] = Oldest("follow")
<1>1. late[1] \in Step
  BY OneStage DEF Types
<1>2. CASE bus = None
  <2>1. F.n = After(late[1]) /\ F.out = 1
    BY <1>2 DEF FollowerRight, One
  <2> QED BY <1>1, <2>1, Back DEF Oldest, F
<1>3. CASE bus # None
  <2>1. F.n = After(After(late[1])) /\ F.out = 2
    BY <1>3 DEF FollowerRight, BusIsLast, NextOf, One
  <2> QED BY <1>1, <2>1, Back DEF Oldest, F
<1> QED BY <1>2, <1>3

\* A fault spoils one part and leaves the others right.
LEMMA FaultStep ==
  ASSUME IInv, NCYCLES = 1, Fault
  PROVE  IInv'
<1>1. /\ Types /\ Syncs /\ struck = {} /\ phase = "sync" /\ phase' = "sync"
      /\ FollowerRight /\ LeaderRight /\ Together /\ BothRun
      /\ late' = late /\ bus' = bus /\ last' = last /\ pause' = pause
      /\ kick' = kick /\ owed' = owed /\ fake' = fake
  BY DEF Fault, IInv, Syncs
<1>2. ASSUME NEW s \in Side, NEW n \in Step,
             core' = [core EXCEPT ![s].n = n], struck' = {s}, pipe' = pipe
      PROVE  IInv'
  <2>1. core[s] \in Core /\ [core[s] EXCEPT !.n = n] \in Core
    BY <1>1 DEF Types, Core
  <2>2. Types'
    <3>1. core' \in [Side -> Core]
      BY <1>1, <1>2, <2>1 DEF Types
    <3>2. struck' \in {{}, {"lead"}, {"follow"}, {"pipe"}}
      BY <1>2 DEF Side
    <3> QED BY <1>1, <1>2, <3>1, <3>2 DEF Types
  <2>3. BothRun'
    BY <1>1, <1>2 DEF BothRun, L, F, Types, Core, Side
  <2>4. CASE s = "lead"
    <3>1. F' = F
      BY <1>1, <1>2, <2>4 DEF F, Types, Side
    <3>2. FollowerRight'
      BY <1>1, <3>1 DEF FollowerRight, BusIsLast
    <3> QED BY <1>1, <1>2, <2>2, <2>3, <2>4, <3>2 DEF IInv, Syncs
  <2>5. CASE s = "follow"
    <3>1. L' = L /\ P' = P
      BY <1>1, <1>2, <2>5 DEF L, P, Types, Side
    <3>2. LeaderRight'
      BY <1>1, <3>1 DEF LeaderRight, BusIsLast
    <3> QED BY <1>1, <1>2, <2>2, <2>3, <2>5, <3>2 DEF IInv, Syncs
  <2> QED BY <2>4, <2>5 DEF Side
<1>3. ASSUME NEW i \in Stage, NEW n \in Step \cup {None}, pipe[i] # n,
             pipe' = [pipe EXCEPT ![i] = n], struck' = {"pipe"}, core' = core
      PROVE  IInv'
  <2>1. i = 1 /\ P' = n /\ P' # P
    BY <1>1, <1>3, OneStage DEF Types, P
  <2>2. Types'
    BY <1>1, <1>3 DEF Types
  <2>3. L' = L /\ F' = F /\ Request("follow")' = Request("follow")
    BY <1>1, <1>3 DEF L, F, Request
  <2>4. Error'
    BY <1>1, <2>1, <2>3, OneStage DEF Error, Delayed, P, Together
  <2>5. FollowerRight'
    BY <1>1, <2>3 DEF FollowerRight, BusIsLast
  <2>6. bus' # None => L'.out > 0 /\ bus' = Oldest("lead")'
    BY <1>1, <1>3, <2>3, LeaderOldest DEF Oldest, L
  <2>7. BothRun'
    BY <1>1, <2>3 DEF BothRun
  <2> QED BY <1>1, <1>3, <2>2, <2>4, <2>5, <2>6, <2>7 DEF IInv, Syncs
<1> QED BY <1>2, <1>3 DEF Fault

(***************************************************************************)
(* The invariant, and what follows from it.                                *)
(***************************************************************************)
\* The invariant holds when both harts sleep.
LEMMA InitSound == ASSUME Init, NCYCLES = 1 PROVE IInv
<1>1. core \in [Side -> Core] /\ L.mode = "sleep" /\ F.mode = "sleep"
  <2>1. [Fresh EXCEPT !.mode = "sleep"] \in Core
        /\ [Fresh EXCEPT !.mode = "sleep"].mode = "sleep"
    BY FreshIs DEF Core, Fresh
  <2> QED BY <2>1 DEF Init, L, F, Side
<1>2. P = None /\ kick[1] = FALSE
  BY OneStage DEF Init, P
<1>3. Types
  BY <1>1 DEF Init, Types
<1> QED BY <1>1, <1>2, <1>3 DEF Init, IInv, Starts, NoneRuns

\* The invariant holds for ever.
LEMMA Invariant == ASSUME NCYCLES = 1 PROVE Spec => []IInv
<1>1. Init => IInv
  BY InitSound
<1>2. IInv /\ [Next]_vars => IInv'
  <2> SUFFICES ASSUME IInv, [Next]_vars PROVE IInv'
    OBVIOUS
  <2>1. CASE Edge
    <3> PICK gnt \in BOOLEAN, ans \in {None, bus}, H \in SUBSET Side : Clock(gnt, ans, H)
      BY <2>1 DEF Edge
    <3> QED BY StartEdge, SyncEdge, StopEdge DEF IInv, Types
  <2>2. CASE Fault
    BY <2>2, FaultStep
  <2>3. CASE UNCHANGED vars
    BY <2>3 DEF vars, IInv, Types, Starts, NoneRuns, LeadRuns, Both, Syncs, Stops, BothRun,
       FollowerRight, LeaderRight, Together, BusIsLast, P, F, L, Error, Delayed, Request, Oldest
  <2> QED BY <2>1, <2>2, <2>3 DEF Next
<1> QED BY <1>1, <1>2, PTL DEF Spec

\* While nothing was hit the comparator agrees.
LEMMA NoAlarm == ASSUME IInv, NCYCLES = 1 PROVE NoFalseAlarm
<1>1. ASSUME phase # "stop", struck = {} PROVE Delayed = Request("follow")
  <2>1. Types /\ phase \in {"start", "sync"}
    BY <1>1 DEF IInv, Types
  <2>2. CASE Together
    BY <2>2, OneStage DEF Together
  <2>3. CASE F.mode = "sleep" /\ P = None
    BY <2>1, <2>3, RequestIs, OneStage DEF F, Side
  <2> QED BY <1>1, <2>1, <2>2, <2>3 DEF IInv, Starts, Syncs, Both, NoneRuns, LeadRuns
<1> QED BY <1>1 DEF NoFalseAlarm, Isolated, Error

\* What passes the comparator is the step after the last one granted.
LEMMA RunsProgram == ASSUME IInv, NCYCLES = 1 PROVE BusRunsProgram
<1> SUFFICES ASSUME P # None, P = Request("follow") PROVE P = NextOf(last)
  BY OneStage DEF BusRunsProgram, BusRequest, Error, NextOf
<1>1. Types /\ P = F.n
  BY RequestIs DEF IInv, F, Side
<1>2. CASE FollowerRight
  BY <1>1, <1>2 DEF FollowerRight
<1>3. CASE LeaderRight
  BY <1>3 DEF LeaderRight
<1>4. CASE Stops
  BY <1>4 DEF Stops
<1>5. FollowerRight \/ LeaderRight \/ Stops \/ P = None
  BY <1>1 DEF IInv, Types, Starts, Both, Syncs
<1> QED BY <1>2, <1>3, <1>4, <1>5

\* Answers belong to the oldest requests.
LEMMA AnswersRight == ASSUME IInv, NCYCLES = 1 PROVE RightAnswers
<1>1. Types
  BY DEF IInv
<1>2. ASSUME phase # "stop", L.mode = "run", "lead" \notin struck, bus # None
      PROVE  L.out > 0 /\ bus = Oldest("lead")
  <2>1. LeaderRight \/ (phase = "sync" /\ "pipe" \in struck)
    BY <1>1, <1>2 DEF IInv, Types, Starts, Both, Syncs, NoneRuns, LeadRuns
  <2>2. CASE LeaderRight
    BY <1>1, <1>2, <2>2, LeaderOldest
  <2>3. CASE phase = "sync" /\ "pipe" \in struck
    BY <1>2, <2>3 DEF IInv, Syncs
  <2> QED BY <2>1, <2>2, <2>3
<1>3. ASSUME phase # "stop", F.mode = "run", "follow" \notin struck, late[1] # None
      PROVE  F.out > 0 /\ late[1] = Oldest("follow")
  <2>1. FollowerRight
    BY <1>1, <1>3 DEF IInv, Types, Starts, Both, Syncs, NoneRuns, LeadRuns
  <2> QED BY <1>1, <1>3, <2>1, FollowerOldest
<1> QED BY <1>2, <1>3 DEF RightAnswers, Isolated, Side, L, F

\* However long the bus makes requests and answers wait, the comparator raises
\* no error unless a fault has hit a part (dmr_comparator.sv).
THEOREM NoErrorWithoutFault == ASSUME NCYCLES = 1 PROVE Spec => []NoFalseAlarm
<1>1. IInv => NoFalseAlarm
  BY NoAlarm
<1> QED BY <1>1, Invariant, PTL

\* The bus is asked for every step of the program once and in order, whatever
\* one fault does to a hart or to the pipeline (lockstep_reg.sv).
THEOREM BusSeesProgram == ASSUME NCYCLES = 1 PROVE Spec => []BusRunsProgram
<1>1. IInv => BusRunsProgram
  BY RunsProgram
<1> QED BY <1>1, Invariant, PTL

\* A hart that no fault has hit hears the answer to its oldest request, the
\* follower one edge after the leader (safe_cpu_wrapper.sv, lockstep_reg.sv).
THEOREM HartsHearRight == ASSUME NCYCLES = 1 PROVE Spec => []RightAnswers
<1>1. IInv => RightAnswers
  BY AnswersRight
<1> QED BY <1>1, Invariant, PTL
=============================================================================
