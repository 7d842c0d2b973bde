CONSTANTS
  id1 = id1
  vc0 = vc0
  vc1 = vc1
  wl1 = wl1
  wl2 = wl2
  NoVal = NoVal
  Masternodes <- MCMasternodes
  Delegators <- MCDelegators
  Ids <- MCIds
  WitnessLists <- MCWitnessLists
  VoteCntVals <- MCVoteCntVals
  EmptyVoteCnt = vc0
  Cycles = {0}
  MaxCount = 0
  FaultSites <- SwallowedSites
  MaxFaults = 1
  CycleInterval = 3600
  ZeroHash = ZeroHash
SPECIFICATION Spec
INVARIANTS
  CacheMatchesVote
