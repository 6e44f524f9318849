\* The commands on every small file, loadable or not.
CONSTANTS
  Value <- MCValue
  Files <- MCFiles
  HasWarnings <- MCHasWarnings
  Words <- MCValue
  Selectors <- MCSelectors
  Atoi <- MCAtoi
  TrimSpace <- MCTrimSpace
  ToUpper <- MCToUpper
  IntBits = 8
SPECIFICATION Spec
INVARIANTS
  TypeOK
  CheckReadsTheFile
  ProposalsHold
