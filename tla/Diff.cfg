\* Every command line over every pair of small files; a diff ends.
CONSTANTS
  Value <- MCValue
  DiffLines <- MCDiffLines
  Paths <- MCPaths
  ParseInt <- MCParseInt
  DefaultLimit = 5
  TextRows = 2
  MaxInt = 15
  JoinBefore <- MCJoinBefore
  TrimSpace <- MCTrimSpace
  ToUpper <- MCToUpper
SPECIFICATION DiffSpec
INVARIANTS
  DiffTypeOK
  ReportAddsUp
  ExitTellsTheDecision
  LimitBoundsTheWalk
  DecisionChangesShownFirst
CHECK_DEADLOCK FALSE
