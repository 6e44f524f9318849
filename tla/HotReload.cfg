\* Two handlers, the reloading goroutine and edits; a server that has exited stops.
CONSTANTS
  Value <- MCValue
  TrimSpace <- MCTrimSpace
  ToUpper <- MCToUpper
  Request = {r1, r2}
  Role <- MCRole
  Method <- MCMethod
  Path <- MCPath
  Files <- MCFiles
  Debug = TRUE
  SigCap = 1
  NoEngine = NoEngine
SPECIFICATION Spec
INVARIANTS
  TypeOK
  NoSignalLost
PROPERTIES
  LatestFileServed
  RequestsAreAnswered
  ImplementsAuthorizer
CHECK_DEADLOCK FALSE
