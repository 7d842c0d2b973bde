----------------------------- MODULE DevoteChain -----------------------------
(***************************************************************************)
(* The block pipeline around the Devote manager: for each new block it      *)
(* reopens a manager at the head header's checkpoint, applies the block's  *)
(* consensus operations, calls Rolling for the block's witness, calls      *)
(* Commit and appends a header carrying the returned checkpoint.  Only the *)
(* manager's calls are code of this repository (DevoteProtocol); the       *)
(* pipeline itself follows the spec's data flow.  The node may crash at    *)
(* any point, losing the open manager; the disk survives.                  *)
(***************************************************************************)
EXTENDS Integers, FiniteSets, Sequences, SequencesExt

CONSTANTS Masternodes, Delegators, Ids, WitnessLists, Cycles, MaxCount,
          VoteCntVals, EmptyVoteCnt, NoVal, CycleInterval, ZeroHash,
          FaultSites, MaxFaults,
          GenesisTime,  \* timestamp of the genesis header
          BlockGaps,    \* how far a block's timestamp may be past its parent's
          MaxBlocks,    \* bound on the chain's length
          MaxTxs        \* bound on consensus operations in one block

VARIABLES
  chain,    \* headers after genesis: [time, witness, root]
  disk,     \* <<trie, content>> pairs committed to the database
  work,     \* the open manager's tries, or NoVal
  stage,    \* "none" | "open" | "rolled": where the pipeline is in a block
  pending,  \* [time, witness] of the block being built, or NoVal
  ntxs,     \* operations applied to the open manager
  faults    \* storage failures so far

vars == <<chain, disk, work, stage, pending, ntxs, faults>>

P == INSTANCE DevoteProtocol WITH tries <- work, snap <- NoVal, phase <- "idle",
                               before <- NoVal

(* The genesis header carries the checkpoint of NewDevoteProtocol.        *)
Genesis == [time |-> GenesisTime, witness |-> NoVal,
            root |-> P!ProtocolAtomic(P!EmptyTries)]

Tip == IF chain = <<>> THEN Genesis ELSE Last(chain)

Cycle(time) == time \div CycleInterval

Init ==
  /\ chain = <<>>
  /\ disk = {}
  /\ work = NoVal
  /\ stage = "none"
  /\ pending = NoVal
  /\ ntxs = 0
  /\ faults = 0

(* NewDevoteProtocolFromAtomic at the head's checkpoint.  If a root does  *)
(* not open, the block cannot be processed and nothing changes.           *)
OpenParent ==
  /\ stage = "none"
  /\ Len(chain) < MaxBlocks
  /\ LET r == P!NewDevoteProtocolFromAtomic(Tip.root, disk) IN
       /\ r.ok
       /\ work' = r.tries
  /\ stage' = "open"
  /\ ntxs' = 0
  /\ UNCHANGED <<chain, disk, pending, faults>>

(* One consensus operation of the block.  An operation that returns an  *)
(* error is reverted by the pipeline and leaves the tries as they were   *)
(* (DevoteProtocol checks that); SetVoteCnt stands for the code outside   *)
(* this repository that replaces the voteCnt trie.                        *)
BlockOps(t) ==
  {P!RegisterOp(t, k, a, P!NoFault) : k \in P!RegKeys, a \in Masternodes}
  \cup {P!UnregisterOp(t, m, P!NoFault) : m \in Masternodes}
  \cup {P!DelegateOp(t, d, m, P!NoFault) : d \in Delegators, m \in Masternodes}
  \cup {P!UnDelegateOp(t, d, m, P!NoFault) : d \in Delegators, m \in Masternodes}
  \cup {P!SetWitnessesOp(t, l, P!NoFault) : l \in WitnessLists}
  \cup {P!Result([t EXCEPT !.voteCnt = v], FALSE) : v \in VoteCntVals}

ApplyTx ==
  /\ stage = "open"
  /\ ntxs < MaxTxs
  /\ \E res \in BlockOps(work) :
       /\ ~res.err
       /\ work' = res.tries
  /\ ntxs' = ntxs + 1
  /\ UNCHANGED <<chain, disk, stage, pending, faults>>

(* The block's witness comes from the manager's witness list (a list that *)
(* does not decode stops block production), its time from the parent's;   *)
(* then Rolling(parent time, block time, witness), whose storage failures *)
(* are logged and ignored.                                                *)
Rolling ==
  /\ stage = "open"
  /\ LET wl == P!GetWitnesses(work) IN
       /\ wl.ok
       /\ \E w \in Range(wl.list), gap \in BlockGaps,
            f \in P!FaultChoices({"RollingIterate", "RollingGet",
                                  "RollingUpdate"}, {NoVal}, faults) :
            /\ pending' = [time |-> Tip.time + gap, witness |-> w]
            /\ work' = P!RollingOp(work, Tip.time, Tip.time + gap, w, f)
            /\ faults' = IF f = P!NoFault THEN faults ELSE faults + 1
  /\ stage' = "rolled"
  /\ UNCHANGED <<chain, disk, ntxs>>

(* Commit; an error rejects the block, otherwise the header is appended  *)
(* with whatever checkpoint Commit returned.                              *)
Commit ==
  /\ stage = "rolled"
  /\ \E f \in P!FaultChoices({"CommitTo", "Flush"}, ToSet(P!CommitOrder), faults) :
       LET r == P!CommitOp(work, f) IN
       /\ disk' = disk \cup r.persisted
       /\ chain' = IF r.err THEN chain
                   ELSE Append(chain, [time |-> pending.time,
                                       witness |-> pending.witness,
                                       root |-> r.atomic])
       /\ faults' = IF f = P!NoFault THEN faults ELSE faults + 1
  /\ work' = NoVal
  /\ stage' = "none"
  /\ pending' = NoVal
  /\ UNCHANGED ntxs

(* The node stops; everything but the disk and the stored headers is lost. *)
Crash ==
  /\ stage # "none"
  /\ work' = NoVal
  /\ stage' = "none"
  /\ pending' = NoVal
  /\ UNCHANGED <<chain, disk, ntxs, faults>>

(* The model stops extending the chain at MaxBlocks.                      *)
Done ==
  /\ Len(chain) = MaxBlocks
  /\ stage = "none"
  /\ UNCHANGED vars

Next == OpenParent \/ ApplyTx \/ Rolling \/ Commit \/ Crash \/ Done

Spec == Init /\ [][Next]_vars

(* The pipeline's steps for a block run one after the other in the node's *)
(* block-processing goroutine, so a step that stays enabled is taken      *)
(* (weak fairness for OpenParent).  Rolling and Commit are only enabled   *)
(* while a block is open, which a crash ends; strong fairness says that a *)
(* node restarted again and again is not always crashed before the same  *)
(* step.  Crash and the choice of operations (ApplyTx) are the            *)
(* environment's and get no fairness.                                     *)
LiveSpec == Spec /\ WF_vars(OpenParent) /\ SF_vars(Rolling) /\ SF_vars(Commit)

-----------------------------------------------------------------------------
Checkpoints ==
  [cycle: WitnessLists \cup {NoVal},
   cache: SUBSET (Masternodes \X Delegators),
   vote: [Delegators -> Masternodes \cup {NoVal}],
   masternode: [P!RegKeys -> Masternodes \cup {NoVal}],
   rolling: [Cycles \X Masternodes -> 0..MaxCount],
   voteCnt: VoteCntVals \cup {ZeroHash}]

TypeOK ==
  /\ chain \in Seq([time: Nat, witness: Masternodes,
                    root: Checkpoints \cup {NoVal}])
  /\ \A p \in disk : [P!EmptyTries EXCEPT ![p[1]] = p[2]] \in P!Tries
  /\ work \in P!Tries \cup {NoVal}
  /\ stage \in {"none", "open", "rolled"}
  /\ ntxs \in 0..MaxTxs
  /\ faults \in 0..MaxFaults

(* Blocks minted by witness w in cycle c, counted on the chain.           *)
MintedIn(c, w) ==
  Cardinality({i \in 1..Len(chain) :
                 Cycle(chain[i].time) = c /\ chain[i].witness = w})

(* The rolling counters in the head's checkpoint count, for every cycle  *)
(* and witness, the blocks of the chain that witness minted in that cycle: *)
(* Rolling adds one within a cycle and restarts at one when the block's   *)
(* cycle differs from its parent's, across commits and reopenings.        *)
MintCntMatchesChain ==
  Tip.root # NoVal =>
    \A c \in Cycles, w \in Masternodes :
      Tip.root.rolling[<<c, w>>] = MintedIn(c, w)

(* Every header's checkpoint reopens: each of its roots was committed to  *)
(* disk by Commit before the header was appended, whatever Commit failed  *)
(* at and whenever the node crashed.                                      *)
ChainStateAvailable ==
  \A i \in 1..Len(chain) : P!NewDevoteProtocolFromAtomic(chain[i].root, disk).ok

(* A header appended after Commit carries a checkpoint that reopens to     *)
(* exactly the manager state that was committed, as the next block's      *)
(* processing assumes.                                                    *)
CheckpointCapturesState ==
  [][Len(chain') > Len(chain) =>
       LET r == P!NewDevoteProtocolFromAtomic(Last(chain').root, disk') IN
       r.ok /\ r.tries = work]_vars

(* Once a committed checkpoint carries a witness list, block production   *)
(* does not stall: the pipeline reopens the head's checkpoint, reads the   *)
(* witnesses back with GetWitnesses, rolls and commits until the chain has *)
(* MaxBlocks headers, despite crashes and a failing CommitTo.             *)
WitnessesCommitted == Tip.root # NoVal /\ Tip.root.cycle # NoVal

ChainGrows == WitnessesCommitted ~> (Len(chain) = MaxBlocks)

=============================================================================
