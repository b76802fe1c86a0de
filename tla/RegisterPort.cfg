SPECIFICATION PortSpec
CONSTANT NHARTS = 3
INVARIANTS
  AnswersReachTheirHart
  RegistersAreShared
