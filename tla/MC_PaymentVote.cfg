CONSTANTS
  CurveBits <- MCCurveBits
  Hashes <- MCHashes
  EcdsaSig <- MCEcdsaSig
SPECIFICATION Spec
INVARIANTS
  SignatureSplitsBack
