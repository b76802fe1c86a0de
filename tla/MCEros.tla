-------------------------------- MODULE MCEros --------------------------------
(***************************************************************************)
(* Instances of ErosSystem for TLC: what the host runs, and where faults   *)
(* hit, in each of the runs.                                               *)
(***************************************************************************)
EXTENDS ErosProperties

Act(m)   == <<Activate, m>>
End(c)   == <<Stop, c>>
Wrk      == <<Work, 0>>
Save     == <<Checkpoint, 0>>
Crit(b)  == <<Critical, b>>
Mask(s)  == <<SetMask, s>>

Job(c, s, m, p) == [conf |-> c, mask |-> s, master |-> m, program |-> p,
                    faulty |-> {}, stopped |-> FALSE, starts |-> 1]

\* The same jobs with faults in some places, or stopped by the host.
WithFaults(J, places) == {[j EXCEPT !.faulty = places] : j \in J}
Stoppable(J) == {[j EXCEPT !.stopped = TRUE] : j \in J}
Twice(J) == {[j EXCEPT !.starts = 2] : j \in J}

AnywhereInProgram == ProgramLoc \cup {Work, Activate, Stop, Checkpoint, Critical}

(***************************************************************************)
(* Mode changes: every pair of redundant modes, handed over to every core  *)
(* of the mask; the two template applications of the repository; and       *)
(* programs without mode changes that the host may stop.                   *)
(***************************************************************************)
Phase(m, c) == <<Act(m), Wrk, End(c), Wrk>>

TemplateJob == Job(0, {0, 1}, 0, <<Wrk, Act(2), Wrk, Save, Wrk, End(1), Wrk>>)

HelloWorldJob ==
  Job(0, {0, 2}, 0,
      <<Act(1), End(2), Act(3), Wrk, End(0), Act(2), End(0),
        Mask({1, 2}), Act(1), End(1), Act(3), End(2), Act(2), End(2)>>)

RedundantJobs == {Job(c, {0, 1}, m, <<Wrk, Wrk>>) : c \in 1..3, m \in {0, 1}}

ModeJobs ==
  Stoppable(RedundantJobs)
  \cup {Job(0, {0, 1}, 0, Phase(m, c) \o Phase(n, d)) :
           m \in 1..3, n \in 1..3, c \in {0, 1}, d \in {0, 1}}
  \cup {TemplateJob, HelloWorldJob}

(***************************************************************************)
(* Starts: programs that end in every mode, one after the other.  Lockstep *)
(* is not left but by Safe_Stop.                                           *)
(***************************************************************************)
StartPrograms == {<<Wrk>>, <<Act(1), Wrk>>, <<Act(2), Wrk, End(1)>>,
                  <<Act(3), Wrk, End(1), Wrk>>}

StartJobs ==
  {Job(c, IF c = 0 THEN {0, 1} ELSE {1, 2}, 1, p) : c \in 0..2, p \in StartPrograms}
    \cup {Job(3, {0, 1}, m, <<Wrk, End(m), Wrk>>) : m \in {0, 1}}

(***************************************************************************)
(* Faults in the voted mode: in the work, in critical sections, and in the *)
(* repair itself; not at the wfi instructions that end the mode or the     *)
(* program, and not on the very store that enters a critical section.      *)
(***************************************************************************)
VotedJobs ==
  {Job(0, {0, 1}, 0,
       <<Act(1), Wrk, Crit(TRUE), Wrk, Wrk, Crit(FALSE), Wrk, End(1), Wrk>>),
   Job(0, {0, 1}, 2, <<Act(1), Crit(TRUE), Wrk, Wrk, End(0), Act(1), Wrk, End(0)>>),
   Job(1, {0, 1}, 1, <<Crit(TRUE), Wrk, Crit(FALSE), Wrk>>)}

VotedFaults ==
  (AnywhereInProgram \cup HandlerLoc) \ {"stop_wfi", "exit_wfi", Critical}

(***************************************************************************)
(* Faults in the dual modes, after the first checkpoint: in the work, and  *)
(* in the library as long as it has not begun to leave the mode.           *)
(***************************************************************************)
DualJobs ==
  {Job(0, {0, 1}, m, <<Act(d)>> \o <<Save, Wrk, Wrk, Save, Wrk>> \o q) :
     m \in {0, 1}, d \in {2, 3}, q \in {<<End(0)>>, <<End(1), Wrk>>}}

DualFaults == {Work, "call_end", Stop, "stop_master"}

FaultJobs == WithFaults(VotedJobs, VotedFaults) \cup WithFaults(DualJobs, DualFaults)

AllJobs == ModeJobs \cup Twice(StartJobs) \cup FaultJobs

(***************************************************************************)
(* A behaviour of the code that is not what it means to do: a fault at the *)
(* wfi of Safe_Stop.                                                       *)
(***************************************************************************)
StopWfiJobs  == WithFaults(VotedJobs, {"stop_wfi"})
=============================================================================
