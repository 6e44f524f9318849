\* The engine a caller sees: every query on every small configuration.
CONSTANTS
  a = a
  b = b
  x = x
  Value <- MCValue
  Configs <- MCConfigs
SPECIFICATION Spec
INVARIANTS
  TypeOK
  PartialDenyIsFinal
  PartialCheckOfFullTupleIsCheck
\* A rejected configuration yields no engine to call.
CHECK_DEADLOCK FALSE
