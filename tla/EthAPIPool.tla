----------------------------- MODULE EthAPIPool ------------------------------
(***************************************************************************)
(* The transaction-pool methods of EthAPIBackend (src/eth/api_backend.go). *)
(* The pool holds, per account, the nonces of its pending (executable)     *)
(* transactions; blocks imported by the node take the first pending       *)
(* transaction of some accounts.                                          *)
(***************************************************************************)
EXTENDS Integers, Sequences, SequencesExt, FiniteSets

CONSTANTS
  Accounts,    \* senders of pool transactions
  MaxPoolTxs,  \* bound on transactions in the pool
  MaxNonce,    \* bound on the transactions an account ever sends
  NoVal        \* nil

VARIABLES
  pool,        \* account -> nonces of its pending transactions, in order
  confirmed,   \* account -> nonce of its next transaction not yet in a block
  reply        \* the value the last RPC method returned, until the next step

vars == <<pool, confirmed, reply>>

Tx(a, n) == [from |-> a, nonce |-> n]
Txs == [from: Accounts, nonce: 0..MaxNonce]
PendingTxs == UNION {{Tx(a, n) : n \in Range(pool[a])} : a \in Accounts}

Rep(op, val) == [op |-> op, val |-> val]

Init ==
  /\ pool = [a \in Accounts |-> <<>>]
  /\ confirmed = [a \in Accounts |-> 0]
  /\ reply = NoVal

(* The node imports a block that includes the first pending transaction   *)
(* of the accounts in inc; the pool drops them.                           *)
Include ==
  /\ \E inc \in SUBSET {a \in Accounts : pool[a] # <<>>} \ {{}} :
       /\ pool' = [a \in Accounts |-> IF a \in inc THEN Tail(pool[a]) ELSE pool[a]]
       /\ confirmed' = [a \in Accounts |->
                          IF a \in inc THEN confirmed[a] + 1 ELSE confirmed[a]]
  /\ reply' = NoVal

Answer(r) == /\ reply' = r
             /\ UNCHANGED <<pool, confirmed>>

(* SendTx: txPool.AddLocal of the account's next transaction.             *)
SendTx ==
  /\ Cardinality(PendingTxs) < MaxPoolTxs
  /\ \E a \in Accounts :
       /\ confirmed[a] + Len(pool[a]) < MaxNonce
       /\ pool' = [pool EXCEPT ![a] = Append(@, confirmed[a] + Len(@))]
  /\ reply' = Rep("SendTx", NoVal)
  /\ UNCHANGED confirmed

(* The batch txPool.Pending() holds for an account.                       *)
Batch(a) == [i \in DOMAIN pool[a] |-> Tx(a, pool[a][i])]

(* txs = append(txs, batch...)                                            *)
AppendBatch(txs, batch) == txs \o batch

(* GetPoolTransactions ranges over the map txPool.Pending() returns, in   *)
(* Go's unspecified map order, appending each account's batch.            *)
GetPoolTransactions ==
  /\ \E order \in SetToSeqs({a \in Accounts : pool[a] # <<>>}) :
       Answer(Rep("GetPoolTransactions",
                  FoldLeft(AppendBatch, <<>>, [i \in DOMAIN order |-> Batch(order[i])])))

(* GetPoolTransaction, GetPoolNonce (the pool's next nonce) and Stats.    *)
PoolQuery ==
  /\ \/ \E a \in Accounts, n \in 0..MaxNonce :
          Answer(Rep("GetPoolTransaction",
                     IF n \in Range(pool[a]) THEN Tx(a, n) ELSE NoVal))
     \/ \E a \in Accounts :
          Answer(Rep("GetPoolNonce", confirmed[a] + Len(pool[a])))
     \/ Answer(Rep("Stats", Cardinality(PendingTxs)))

(* TxPoolContent: txPool.Content(), the pending transactions of every     *)
(* account in nonce order (the pool holds no queued ones here).           *)
TxPoolContent ==
  Answer(Rep("TxPoolContent", [a \in Accounts |-> Batch(a)]))

RPC == SendTx \/ GetPoolTransactions \/ PoolQuery \/ TxPoolContent

Next == Include \/ RPC

Spec == Init /\ [][Next]_vars

-----------------------------------------------------------------------------
(* A value a method returns, by method.                                    *)
IsReply(r) ==
  /\ DOMAIN r = {"op", "val"}
  /\ CASE r.op = "SendTx"              -> r.val = NoVal
       [] r.op = "GetPoolTransactions" -> r.val \in Seq(Txs)
       [] r.op = "GetPoolTransaction"  -> r.val \in Txs \cup {NoVal}
       [] r.op = "GetPoolNonce"        -> r.val \in 0..MaxNonce
       [] r.op = "Stats"               -> r.val \in 0..MaxPoolTxs
       [] r.op = "TxPoolContent"       -> r.val \in [Accounts -> Seq(Txs)]
       [] OTHER                        -> FALSE

NodeTypeOK ==
  /\ pool \in [Accounts -> Seq(0..MaxNonce)]
  /\ confirmed \in [Accounts -> 0..MaxNonce]

TypeOK == NodeTypeOK /\ (reply = NoVal \/ IsReply(reply))

=============================================================================
