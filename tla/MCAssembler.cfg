CONSTANTS
  NREGS = 4
  NADDR = 16
  BITS = 16
  CODE_ALLOCATION_STEP = 2
  Sources <- MCSources
SPECIFICATION Spec
INVARIANTS TypeOK ErrorsIffIllFormed TextIsProgram RecoversAtNextLine ReportedIsInError RefsInText
PROPERTIES EveryStepProgresses
