CONSTANTS
  a = a
  NUMTERMINALS <- MC_NUMTERMINALS
  BUFFERSIZE <- MC_BUFFERSIZE
  Chars <- MC_Chars
  NBYTES <- MC_NBYTES
  MAX_OVERRUN <- MC_MAX_OVERRUN
  Readers <- MC_Readers
SPECIFICATION Spec
INVARIANT
  TypeOK
PROPERTY
  TerminalReadWaitsForEnter
