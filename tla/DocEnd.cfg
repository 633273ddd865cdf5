CONSTANTS
  NREGS = 4
  NADDR = 16
  BITS = 16
  SIZE_OF_MMEM = 8
  SIZE_OF_CALLSTACK = 3
  HEAP_SLACK = 0
  MAX_STREAMS = 1
  ProgramFiles <- MCProgramFiles
  ConsoleNumbers = {5}
  ConsoleChars = {97}
  Garbage = {7}
SPECIFICATION CallsSpec
PROPERTY EndReturnsToLastCall
