CONSTANTS
  NoVal = NoVal
  Panic = Panic
  a1 = a1
  a2 = a2
  Accounts <- MCAccounts
  MaxBlockId = 3
  MaxPoolTxs = 2
  MaxNonce = 2
SYMMETRY AccountSymmetry
SPECIFICATION Spec
INVARIANTS
  TypeOK
