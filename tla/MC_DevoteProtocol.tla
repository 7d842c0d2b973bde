------------------------- MODULE MC_DevoteProtocol -------------------------
(***************************************************************************)
(* DevoteProtocol instantiated for TLC: two masternode addresses, one ID   *)
(* that is no address, two delegators, two witness lists.                 *)
(***************************************************************************)
EXTENDS DevoteProtocol

CONSTANTS id1, vc0, vc1, wl1, wl2

MCMasternodes == {1, 2}
MCDelegators == {3, 4}
MCIds == {id1}
MCWitnessLists == {wl1, wl2}
MCVoteCntVals == {vc0, vc1}

(* Storage failures the manager returns to the pipeline, which reverts.    *)
PropagatedSites ==
  {"RegisterUpdate", "DelegateMasternodeGet", "DelegateCacheUpdate",
   "DelegateVoteUpdate", "UnDelegateMasternodeGet", "UnDelegateVoteGet",
   "UnDelegateCacheDelete", "UnDelegateVoteDelete"}

(* Storage failures the manager logs or ignores and reports success.      *)
SwallowedSites ==
  {"UnregisterMasternodeDelete", "UnregisterIterate", "UnregisterCacheDelete",
   "UnregisterVoteGet", "UnregisterVoteDelete", "DelegateVoteGet",
   "DelegateStaleDelete", "SetWitnessesUpdate"}

(* The registry the pipeline sees: the tries, or the snapshot while a     *)
(* failed operation awaits its revert.                                    *)
View == IF phase = "failed" THEN snap ELSE tries

Registry == INSTANCE DevoteRegistry WITH
  RegKeys <- RegKeys,
  masternodes <- View.masternode,
  votes <- View.vote,
  witnesses <- View.cycle

(* Every step of the manager, successful, failed or reverted, is a step   *)
(* of the abstract registry or leaves it unchanged.                       *)
RegistrySpec == Registry!Spec

=============================================================================
