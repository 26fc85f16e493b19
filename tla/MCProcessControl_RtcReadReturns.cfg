CONSTANTS
  NUMTERMINALS <- MC_LIVE_TERMINALS
  MAX_PROCESSES <- MC_LIVE_PROCESSES
  NULL = NULL
  MAX_NEST <- MC_UNNESTED
SPECIFICATION FairSpec
PROPERTY
  RtcReadReturns
