\* The documentation of PartialCheck against its code.
CONSTANTS
  a = a
  b = b
  x = x
  Value <- MCValue
  Configs <- DeclaredConfigs
SPECIFICATION Spec
INVARIANT PartialAllowIsReachable
CHECK_DEADLOCK FALSE
