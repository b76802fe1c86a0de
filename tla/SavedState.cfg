SPECIFICATION Spec
CONSTANTS
  Modes <- BothModes
  Fragile <- FragileRegisters
  FaultyCode <- WhereFaultsHit
  MaxRepairs = 1
INVARIANTS
  MembersAgree
  RepairHeals
  RecoveryRestores
  CallsKeep
  RecordIsTheFile
