CONSTANTS
  NUMTERMINALS <- MC_NUMTERMINALS
  MAX_PROCESSES <- MC_MAX_PROCESSES
  NULL = NULL
  MAX_NEST <- MC_UNNESTED
SPECIFICATION Spec
INVARIANT HaltTargetLive
