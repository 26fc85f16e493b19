CONSTANTS
  NUMTERMINALS <- MC_NUMTERMINALS
  MAX_PROCESSES <- MC_MAX_PROCESSES
  NULL = NULL
  MAX_NEST <- MC_MAX_NEST
SPECIFICATION Spec
INVARIANTS
  TypeOK
  SwitchBuffersMapped
PROPERTY
  HaltReturnsToParent
