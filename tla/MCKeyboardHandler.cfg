CONSTANTS
  NUMTERMINALS <- MC_NUMTERMINALS
SPECIFICATION Spec
INVARIANT
  TypeOK
PROPERTY
  SwitchOnlyWhileAltHeld
  KeyboardAcknowledged
