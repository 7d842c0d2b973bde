CONSTANTS
  vc0 = vc0
  vc1 = vc1
  NoVal = NoVal
  ZeroHash = ZeroHash
  Masternodes <- MCMasternodes
  Delegators <- MCDelegators
  Ids = {}
  WitnessLists <- MCWitnessLists
  VoteCntVals <- MCVoteCntVals
  EmptyVoteCnt = vc0
  CycleInterval = 3600
  GenesisTime = 3599
  BlockGaps = {1, 3600}
  MaxBlocks = 3
  MaxTxs = 1
  Cycles = {0, 1, 2, 3}
  MaxCount = 3
  FaultSites = {}
  MaxFaults = 1
SPECIFICATION Spec
PROPERTIES
  CheckpointCapturesState
