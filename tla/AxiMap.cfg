SPECIFICATION MapSpec
INVARIANTS
  AxiReachesMemory
