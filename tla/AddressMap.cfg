SPECIFICATION MapSpec
INVARIANTS
  OneAddressOnePlace
  NoAlias
  RegistersAgree
