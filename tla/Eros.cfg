SPECIFICATION Spec
CONSTANTS
  Jobs <- AllJobs
  MaxFaults = 2
INVARIANTS
  TypeOK
  OneStream
  GroupAgrees
  WorkIsProtected
  BootIsRight
  InterruptMeansDone
  IdleIsQuiet
  CriticalIsUndisturbed
  StopLeaves
  RestoresOneState
PROPERTIES
  MasterKeepsBus
  ObeysProtocol
  ImplementsOffload
  StopSettles
  PostponedRepairHappens
  RecoveryEnds
