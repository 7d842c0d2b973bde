----------------------------- MODULE EthAPIChain -----------------------------
(***************************************************************************)
(* The chain queries of EthAPIBackend (src/eth/api_backend.go): the       *)
(* backend keeps no state of its own and reads the blockchain and the     *)
(* miner of the node, which change concurrently with the RPC goroutine    *)
(* (environment actions below).  The RPC client is one goroutine; a       *)
(* method with two collaborator calls is two steps, so the node may move  *)
(* between them.  A block stands for its header and body, and the state   *)
(* at a block's root is named by the block itself.                        *)
(***************************************************************************)
EXTENDS Integers, Sequences, SequencesExt

CONSTANTS
  MaxBlockId,  \* bound on blocks ever imported (ids 1..MaxBlockId, genesis 0)
  NoVal,       \* nil
  Panic        \* what a method that dereferences a nil pointer ends with

VARIABLES
  canon,       \* canonical chain: canon[n+1] is the block at number n
  known,       \* blocks stored in the database (by-hash lookups)
  stateOK,     \* blocks whose state is still available (not pruned)
  nextId,      \* the last block id minted
  pendingBlk,  \* the miner's pending block, or NoVal before the first
  syncing,     \* the downloader is synchronising
  call,        \* the two-step RPC in progress, or NoVal
  reply        \* the value the last RPC method returned, until the next step

vars == <<canon, known, stateOK, nextId, pendingBlk, syncing, call, reply>>

nodeVars == <<canon, known, stateOK, nextId, pendingBlk, syncing>>

(* rpc.BlockNumber's special values.                                      *)
PendingBlockNumber == -2
LatestBlockNumber == -1
BlockNrs == {PendingBlockNumber, LatestBlockNumber} \cup 0..MaxBlockId

(* The pending block the miner builds on block p; it has no number of its *)
(* own on the chain, so it is named apart from the imported blocks.       *)
PendingOn(p) == -1 - p
Blocks == 0..MaxBlockId \cup {PendingOn(p) : p \in 0..MaxBlockId}

Rep(op, val, st, err) == [op |-> op, val |-> val, state |-> st, err |-> err]

Init ==
  /\ canon = <<0>>
  /\ known = {0}
  /\ stateOK = {0}
  /\ nextId = 0
  /\ pendingBlk = NoVal
  /\ syncing = FALSE
  /\ call = NoVal
  /\ reply = NoVal

-----------------------------------------------------------------------------
(* The node around the backend.                                           *)

(* The downloader or the block fetcher imports a block on the head.       *)
Import ==
  /\ nextId < MaxBlockId
  /\ nextId' = nextId + 1
  /\ canon' = Append(canon, nextId + 1)
  /\ known' = known \cup {nextId + 1}
  /\ stateOK' = stateOK \cup {nextId + 1}
  /\ UNCHANGED <<pendingBlk, syncing>>

(* The miner rebuilds its pending block on the current head.              *)
MinerCommit ==
  /\ pendingBlk' = PendingOn(Last(canon))
  /\ UNCHANGED <<canon, known, stateOK, nextId, syncing>>

StartSync ==
  /\ ~syncing
  /\ syncing' = TRUE
  /\ UNCHANGED <<canon, known, stateOK, nextId, pendingBlk>>

(* The state of a block behind the head is pruned.                        *)
Prune ==
  /\ \E b \in stateOK \ {Last(canon)} : stateOK' = stateOK \ {b}
  /\ UNCHANGED <<canon, known, nextId, pendingBlk, syncing>>

(* A step of the node; the client has taken the last reply.             *)
Node == /\ Import \/ MinerCommit \/ StartSync \/ Prune
        /\ UNCHANGED call
        /\ reply' = NoVal

-----------------------------------------------------------------------------
(* The RPC methods.  A one-step method is an action that leaves the node   *)
(* as it is and returns its value in reply.                                *)

Idle == call = NoVal

Answer(r) == /\ reply' = r
             /\ UNCHANGED <<nodeVars, call>>

(* The header HeaderByNumber returns: the miner's pending block (a nil     *)
(* one is dereferenced), the head block, or the canonical block at the     *)
(* number, nil past the head.                                             *)
HeaderOf(nr) ==
  CASE nr = PendingBlockNumber -> IF pendingBlk = NoVal THEN Panic ELSE pendingBlk
    [] nr = LatestBlockNumber  -> Last(canon)
    [] OTHER                   -> IF nr < Len(canon) THEN canon[nr + 1] ELSE NoVal

(* BlockByNumber resolves the number the same way but returns a nil       *)
(* pending block as it is.                                                *)
BlockOf(nr) == IF nr = PendingBlockNumber THEN pendingBlk ELSE HeaderOf(nr)

ByNumber ==
  /\ Idle
  /\ \E nr \in BlockNrs :
       \/ Answer(Rep("HeaderByNumber", HeaderOf(nr), NoVal, FALSE))
       \/ Answer(Rep("BlockByNumber", BlockOf(nr), NoVal, FALSE))

(* CurrentBlock: the head of the canonical chain.                          *)
CurrentBlock ==
  /\ Idle
  /\ Answer(Rep("CurrentBlock", Last(canon), NoVal, FALSE))

(* HeaderByHash, GetBlock, GetReceipts, GetLogs, GetTd: nil for a block   *)
(* that is not in the database (a value is named by its block).           *)
ByHash ==
  /\ Idle
  /\ \E m \in {"HeaderByHash", "GetBlock", "GetReceipts", "GetLogs", "GetTd"},
        h \in 0..MaxBlockId :
       Answer(Rep(m, IF h \in known THEN h ELSE NoVal, NoVal, FALSE))

(* StateAndHeaderByNumber, first step.  For "pending", miner.Pending()     *)
(* returns the block and its state together and the block's header is     *)
(* taken.  Otherwise the header is resolved by HeaderByNumber: nil ends   *)
(* the call with no state and no error, else the state is looked up next. *)
StateAndHeaderByNumber ==
  /\ Idle
  /\ \E nr \in BlockNrs :
       \/ /\ nr = PendingBlockNumber
          /\ Answer(IF pendingBlk = NoVal
                      THEN Rep("StateAndHeaderByNumber", Panic, NoVal, FALSE)
                      ELSE Rep("StateAndHeaderByNumber", pendingBlk, pendingBlk, FALSE))
       \/ /\ nr # PendingBlockNumber
          /\ HeaderOf(nr) = NoVal
          /\ Answer(Rep("StateAndHeaderByNumber", NoVal, NoVal, FALSE))
       \/ /\ nr # PendingBlockNumber
          /\ HeaderOf(nr) # NoVal
          /\ call' = [op |-> "StateAndHeaderByNumber", header |-> HeaderOf(nr)]
          /\ UNCHANGED nodeVars /\ reply' = NoVal

(* BlockChain().StateAt(root): the state, or an error once it is pruned.  *)
StateAt(root) ==
  IF root \in stateOK THEN [st |-> root, err |-> FALSE]
                      ELSE [st |-> NoVal, err |-> TRUE]

(* Second step: the state at the root of the header read in the first.    *)
StateAndHeaderStateAt ==
  /\ call # NoVal /\ call.op = "StateAndHeaderByNumber"
  /\ LET s == StateAt(call.header) IN
       reply' = Rep(call.op, call.header, s.st, s.err)
  /\ call' = NoVal
  /\ UNCHANGED nodeVars

(* SetHead, first step: downloader.Cancel() stops the running sync.        *)
SetHead ==
  /\ Idle
  /\ \E n \in 0..MaxBlockId : call' = [op |-> "SetHead", number |-> n]
  /\ syncing' = FALSE
  /\ UNCHANGED <<canon, known, stateOK, nextId, pendingBlk>>
  /\ reply' = NoVal

(* Mutant: rewound one block too far.                                    *)
RewindBelow(n) == IF n < Len(canon) THEN SubSeq(canon, 1, n) ELSE canon

(* Second step: blockchain.SetHead(number) rewinds the chain to the block  *)
(* at number and deletes the blocks above it.                             *)
Rewind(n) == IF n + 1 < Len(canon) THEN SubSeq(canon, 1, n + 1) ELSE canon

BlockchainSetHead ==
  /\ call # NoVal /\ call.op = "SetHead"
  /\ canon' = Rewind(call.number)
  /\ known' = known \ (Range(canon) \ Range(Rewind(call.number)))
  /\ call' = NoVal
  /\ reply' = Rep("SetHead", NoVal, NoVal, FALSE)
  /\ UNCHANGED <<stateOK, nextId, pendingBlk, syncing>>

RPC ==
  \/ CurrentBlock \/ ByNumber \/ ByHash \/ StateAndHeaderByNumber \/ StateAndHeaderStateAt
  \/ SetHead \/ BlockchainSetHead

Next == Node \/ RPC

Spec == Init /\ [][Next]_vars

-----------------------------------------------------------------------------
(* The values the methods return.                                         *)
Replies ==
  [op: {"CurrentBlock", "HeaderByNumber", "BlockByNumber", "HeaderByHash",
        "GetBlock", "GetReceipts", "GetLogs", "GetTd", "StateAndHeaderByNumber",
        "SetHead"},
   val: Blocks \cup {NoVal, Panic}, state: Blocks \cup {NoVal}, err: BOOLEAN]

NodeTypeOK ==
  /\ canon \in Seq(0..MaxBlockId) /\ Len(canon) >= 1 /\ canon[1] = 0
  /\ known \subseteq 0..MaxBlockId /\ stateOK \subseteq 0..MaxBlockId
  /\ pendingBlk \in (Blocks \ (0..MaxBlockId)) \cup {NoVal}
  /\ syncing \in BOOLEAN
  /\ call \in {NoVal} \cup [op: {"StateAndHeaderByNumber"}, header: 0..MaxBlockId]
                      \cup [op: {"SetHead"}, number: 0..MaxBlockId]

TypeOK == NodeTypeOK /\ reply \in {NoVal} \cup Replies

(* No RPC method dereferences a nil pending block: each returns a value or *)
(* an error, as BlockByNumber does for "pending" (line 84).               *)
NoNilDeref == reply = NoVal \/ reply.val # Panic

=============================================================================
