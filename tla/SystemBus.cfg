SPECIFICATION Spec
CONSTANTS
  NumIn = 3
  Quick = {ram}
  Remote = {ext}
  Error = error
  None = none
INVARIANTS
  AnswersReachTheirMaster
  OneWinner
  NobodyStarves
