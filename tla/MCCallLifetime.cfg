SPECIFICATION Spec
CONSTANTS
  MaxSize = 5
  MaxObjs = 2
  MaxArgs = 2
INVARIANTS
  Balanced
  ReferredAlive
  Released
  ConvertedAlive
