-------------------------- MODULE MC_DevoteChain --------------------------
(***************************************************************************)
(* DevoteChain for TLC: two masternodes, one delegator, the real cycle    *)
(* length, a genesis one second before a cycle boundary and block gaps of  *)
(* one second (same cycle, or across the boundary) and one full cycle.    *)
(***************************************************************************)
EXTENDS DevoteChain

CONSTANTS vc0, vc1

MCMasternodes == {1, 2}
MCDelegators == {3}
MCWitnessLists == {<<1>>, <<2, 1>>}
MCVoteCntVals == {vc0, vc1}

=============================================================================
