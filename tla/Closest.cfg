\* What one search answers, for every strategy.
CONSTANTS
  a = a
  b = b
  x = x
  Value <- MCValue
  Proc = {p1}
  Slices = {s1}
  NoSlice = NoSlice
  maxDims = 2
  Configs <- OneConfigs
  Inputs <- OneInputs
  Tiebreaks <- MCTiebreaks
  DimNames <- MCDimNames
  Selectors <- OneSelectors
  IntBits = 4
SPECIFICATION Spec
INVARIANTS
  TypeOK
  ResultIsNearest
  TiebreakIsHonoured
  SelectorIsHonoured
PROPERTY CallsReturn
