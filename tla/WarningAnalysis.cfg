\* The warnings of New against their definition, over every small budget.
CONSTANTS
  a = a
  b = b
  c = c
  Value <- MCValue
  Configs <- MCConfigs
  Limits <- MCLimits
  DefaultAnalysisLimit = 3
  MaxInt = 7
SPECIFICATION Spec
INVARIANTS
  TypeOK
  VerdictsAreRight
  BudgetIsGlobal
  CounterCountsLosers
  DivisorsArePositive
PROPERTIES
  OnlyOverBudgetIsSkipped
  AnalysisTerminates
\* The analysis runs once.
CHECK_DEADLOCK FALSE
