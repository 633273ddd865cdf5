CONSTANTS
  Keys <- MCKeys
SPECIFICATION FairSpec
INVARIANTS SearchTree RedBlack ChecksEverySymbol FreesEverySymbol
PROPERTIES LoopsEnd ImplementsSymbolTable
