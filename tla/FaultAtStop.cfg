SPECIFICATION Spec
CONSTANTS
  Jobs <- StopWfiJobs
  MaxFaults = 1
INVARIANTS
  StopLeaves
