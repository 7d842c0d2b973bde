CONSTANTS
  NoVal = NoVal
  Panic = Panic
  MaxBlockId = 3
SPECIFICATION Spec
INVARIANTS
  NoNilDeref
