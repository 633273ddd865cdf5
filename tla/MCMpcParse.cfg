CONSTANTS
  WordChars = {"a"}
  Texts <- MCTexts
  Parsers <- MCParsers
  Grammar <- MCGrammar
SPECIFICATION Spec
INVARIANTS TypeOK StacksAgree MarksBalanced NothingLeaks ResultIsPeg ErrorIsFarthest
PROPERTIES UsesStack
