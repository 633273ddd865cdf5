CONSTANTS
  WordChars = {}
  WhiteSpace = {" "}
  NameStart <- MCNameStart
  HexLetters = {"a"}
  NREGS = 4
  NADDR = 2
  BITS = 13
  BUFSIZE = 11
  LONG_BITS = 15
  Files <- MCFiles
  mpc_parse <- Parse
  Derived <- Derives
  Meaning <- LineMeaning
SPECIFICATION FairSpec
INVARIANTS LinesParsed ProgramOfLines ErrorsOfLines
PROPERTIES EndsWhenLastLineFits
