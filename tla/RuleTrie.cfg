\* The trie and its search against the engine a caller sees.
CONSTANTS
  a = a
  b = b
  x = x
  Wild = Wild
  Value <- MCValue
  Configs <- MCConfigs
SPECIFICATION Spec
INVARIANTS
  TypeOK
  TrieHoldsFirstRules
  SearchIsExact
PROPERTIES
  ImplementsEngine
  SearchTerminates
\* A rejected configuration yields no engine to call.
CHECK_DEADLOCK FALSE
