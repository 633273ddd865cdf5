CONSTANTS
  NREGS = 4
  NADDR = 16
  BITS = 16
  SIZE_OF_MMEM = 12
  SIZE_OF_CALLSTACK = 1
  HEAP_SLACK = 1
  MAX_STREAMS = 3
  ProgramFiles <- MCProgramFiles
  ConsoleNumbers = {5}
  ConsoleChars = {3, 97}
  Garbage <- MCGarbage
SPECIFICATION FairSpec
INVARIANTS TypeOK FetchInRegion
PROPERTIES OnlyStoresChangeMemory AdditionIsExact LeakOnlyByReopening ZeroTailEnds
