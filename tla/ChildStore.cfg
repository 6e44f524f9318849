\* Every order of insertions and lookups.
CONSTANTS
  Key <- MCKey
  trieChildThreshold = 2
SPECIFICATION Spec
INVARIANT OnePlace
PROPERTY ImplementsChildMap
