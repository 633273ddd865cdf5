CONSTANTS
  NREGS = 4
  NADDR = 16
  BITS = 16
  CODE_ALLOCATION_STEP = 2
  Sources <- MCSources
  OldOutput <- MCOldOutput
  BUFFER = 2
SPECIFICATION RFairSpec
INVARIANTS SuccessHoldsProgram
PROPERTIES BadSourceKeepsOutput Exits
