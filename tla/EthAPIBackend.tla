---------------------------- MODULE EthAPIBackend ----------------------------
(***************************************************************************)
(* EthAPIBackend (src/eth/api_backend.go) serving the chain and the        *)
(* transaction-pool methods of one node.  The two components share the    *)
(* node: a block the downloader imports on the head takes the first       *)
(* pending transaction of some accounts out of the pool, in one step.      *)
(* RPC calls of either kind interleave with each other and with the node, *)
(* including between the two steps of a chain method.                     *)
(***************************************************************************)
EXTENDS Integers, Sequences

CONSTANTS MaxBlockId, NoVal, Panic, Accounts, MaxPoolTxs, MaxNonce

VARIABLES
  canon, known, stateOK, nextId, pendingBlk, syncing, call,  \* EthAPIChain
  pool, confirmed,                                            \* EthAPIPool
  reply   \* the value the last RPC method of either kind returned

chainVars == <<canon, known, stateOK, nextId, pendingBlk, syncing, call>>
poolVars == <<pool, confirmed>>
vars == <<chainVars, poolVars, reply>>

Chain == INSTANCE EthAPIChain
TxPool == INSTANCE EthAPIPool

Init == Chain!Init /\ TxPool!Init

(* The downloader imports a block on the head; the block holds the next   *)
(* pending transaction of some accounts (the pool drops them), or none.   *)
ImportBlock ==
  /\ Chain!Import
  /\ UNCHANGED call
  /\ reply' = NoVal
  /\ TxPool!Include \/ UNCHANGED poolVars

(* The miner, the downloader and state pruning, which leave the pool.     *)
NodeStep ==
  /\ Chain!MinerCommit \/ Chain!StartSync \/ Chain!Prune
  /\ UNCHANGED <<call, poolVars>>
  /\ reply' = NoVal

ChainRPC == Chain!RPC /\ UNCHANGED poolVars

PoolRPC == TxPool!RPC /\ UNCHANGED chainVars

Next == ImportBlock \/ NodeStep \/ ChainRPC \/ PoolRPC

Spec == Init /\ [][Next]_vars

-----------------------------------------------------------------------------
TypeOK ==
  /\ Chain!NodeTypeOK
  /\ TxPool!NodeTypeOK
  /\ reply = NoVal \/ reply \in Chain!Replies \/ TxPool!IsReply(reply)

=============================================================================
