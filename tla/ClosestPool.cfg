\* Two searches at once on scratch slices from the shared pool.
CONSTANTS
  a = a
  b = b
  x = x
  Value <- MCValue
  Proc = {p1, p2}
  Slices = {s1, s2, s3}
  NoSlice = NoSlice
  maxDims = 16
  Configs <- PoolConfigs
  Inputs <- TwoInputs
  Tiebreaks <- MCTiebreakOne
  DimNames <- MCDimNames
  Selectors <- TwoSelectors
  IntBits = 4
SPECIFICATION Spec
INVARIANTS
  ScratchIsPrivate
  ScratchHoldsCandidate
  ResultIsNearest
SYMMETRY Symmetric
