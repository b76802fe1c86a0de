SPECIFICATION Spec
CONSTANTS
  Programs <- AllPrograms
  AddressBits = 5
  HeapSize = 3
  Increments <- SomeIncrements
  MaxRecoveries = 2
  MaxCuts = 2
INVARIANTS
  AnswerIsRight
  BlocksApart
PROPERTY RoundsAreAes
