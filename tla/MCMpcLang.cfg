CONSTANTS
  Uses <- MCUses
SPECIFICATION Spec
INVARIANTS ResolvesByName ReadsNoFreedParser FreesTheLanguage
