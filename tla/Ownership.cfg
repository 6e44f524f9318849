\* Slices handed to the library and handed out by it; memory runs full.
CONSTANTS
  Value <- MCValue
  Strings <- MCStrings
  Addr = {1, 2, 3, 4, 5}
SPECIFICATION Spec
INVARIANTS
  StorageIsPrivate
  EngineIsFrozen
CHECK_DEADLOCK FALSE
