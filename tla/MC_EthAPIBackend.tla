--------------------------- MODULE MC_EthAPIBackend ---------------------------
(* EthAPIBackend for TLC: the pool's accounts are interchangeable.        *)
EXTENDS EthAPIBackend, TLC

CONSTANTS a1, a2

MCAccounts == {a1, a2}

AccountSymmetry == Permutations(MCAccounts)

=============================================================================
