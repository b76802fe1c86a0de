SPECIFICATION Spec
CONSTANTS
  ConfigRegister <- MCConfigRegister
  ConfigValue <- MCConfigValue
INVARIANTS
  Phases
PROPERTIES
  OneInterruptPerProgram
