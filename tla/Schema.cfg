\* Files the schema accepts and the loader refuses.
CONSTANTS
  Value <- MCValue
  Files <- MCFiles
  HasWarnings <- MCHasWarnings
  Words <- MCValue
  Selectors <- MCSelectors
  Atoi <- MCAtoi
  TrimSpace <- MCTrimSpace
  ToUpper <- MCToUpper
  IntBits = 8
SPECIFICATION Spec
INVARIANTS
  SchemaCatchesStructure
