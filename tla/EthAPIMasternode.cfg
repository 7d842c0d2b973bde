CONSTANTS
  NoVal = NoVal
  Ids = {i1, i2}
  EnodeRecs <- AllEnodeRecs
SPECIFICATION Spec
INVARIANTS
  TypeOK
