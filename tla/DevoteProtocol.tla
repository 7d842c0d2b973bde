--------------------------- MODULE DevoteProtocol ---------------------------
(***************************************************************************)
(* The Devote consensus-state manager (type DevoteProtocol, src/unnamed/    *)
(* part_000 lines 30-486) driven by the block pipeline's per-operation      *)
(* snapshot discipline: Snapshot, one operation, RevertToSnapShot if the    *)
(* operation returned an error.                                            *)
(*                                                                         *)
(* Each trie is abstracted to its content, and a trie root to that content *)
(* (the hash is taken to be injective).  Trie accesses may fail with a      *)
(* MissingNodeError, the storage failure of a pruned or corrupt database;  *)
(* FaultSites names the calls whose failure a run lets happen and          *)
(* MaxFaults bounds how many happen in one behaviour.                      *)
(***************************************************************************)
EXTENDS Integers, FiniteSets, Sequences, SequencesExt

CONSTANTS
  Masternodes,   \* masternode account addresses (naturals: keys are ordered bytes)
  Delegators,    \* delegator addresses (naturals)
  Ids,           \* masternode ID strings whose bytes equal no address
  WitnessLists,  \* witness lists the pipeline may pass to SetWitnesses
  Cycles,        \* cycle indices a rolling-counter key may carry
  MaxCount,      \* bound of a rolling counter
  VoteCntVals,   \* contents the external voteCnt trie may be set to
  EmptyVoteCnt,  \* the content of an empty voteCnt trie
  NoVal,         \* an absent key
  CycleInterval, \* CycleInterval, 3600
  ZeroHash,      \* common.Hash{}, the root of no trie content
  FaultSites,    \* trie calls that may fail with MissingNodeError
  MaxFaults      \* bound on storage failures per behaviour

ASSUME EmptyVoteCnt \in VoteCntVals
ASSUME Masternodes \subseteq Nat /\ Delegators \subseteq Nat

(* A masternode ID is any string: one equal to an address's bytes is the   *)
(* only kind of registration Delegate (which looks up by address) finds.   *)
RegKeys == Ids \cup Masternodes

(* Raw trie keys compare as bytes: cache key masternode++delegator orders  *)
(* first by masternode, then by delegator.                                 *)
KeyLess(a, b) == a[1] < b[1] \/ (a[1] = b[1] /\ a[2] < b[2])

Tries ==
  [cycle: WitnessLists \cup {NoVal},
   cache: SUBSET (Masternodes \X Delegators),
   vote: [Delegators -> Masternodes \cup {NoVal}],
   masternode: [RegKeys -> Masternodes \cup {NoVal}],
   rolling: [Cycles \X Masternodes -> 0..MaxCount],
   voteCnt: VoteCntVals]

(* NewDevoteProtocol: every trie opened at the zero hash, i.e. empty.      *)
EmptyTries ==
  [cycle |-> NoVal,
   cache |-> {},
   vote |-> [d \in Delegators |-> NoVal],
   masternode |-> [k \in RegKeys |-> NoVal],
   rolling |-> [k \in Cycles \X Masternodes |-> 0],
   voteCnt |-> EmptyVoteCnt]

(* Copy: a new DevoteProtocol holding the five tries cycle, cache, vote,   *)
(* masternode and minerRolling; voteCntTrie is not copied.                 *)
Copy(t) == [cycle |-> t.cycle, cache |-> t.cache, vote |-> t.vote,
            masternode |-> t.masternode, rolling |-> t.rolling]

-----------------------------------------------------------------------------
(* Storage faults.  A call fails at most once per operation; a fault in   *)
(* Unregister's loop also names the cache entry being processed.          *)

NoFault == [site |-> "none", at |-> NoVal]

FaultChoices(sites, ats, nfaults) ==
  {NoFault} \cup
  IF nfaults < MaxFaults
  THEN {[site |-> s, at |-> a] : s \in sites \cap FaultSites, a \in ats}
  ELSE {}

Fails(f, s) == f.site = s
FailsAt(f, s, e) == f.site = s /\ f.at = e

(* Every operation below maps a trie state t to [tries, err].             *)
Result(t, e) == [tries |-> t, err |-> e]

-----------------------------------------------------------------------------
(* Mutant: the ID, not the account, stored as the value.                  *)
RegisterOpStoresId(t, id, acct, f) ==
  Result([t EXCEPT !.masternode[id] = id], FALSE)

(* Register: masternodeTrie.TryUpdate(id, account).                        *)
RegisterOp(t, id, acct, f) ==
  IF Fails(f, "RegisterUpdate") THEN Result(t, TRUE)
  ELSE Result([t EXCEPT !.masternode[id] = acct], FALSE)

(* Mutant: the vote is deleted without checking that it names m.         *)
UnregisterEntryAnyVote(t, m, e, f) ==
  [t EXCEPT !.cache = @ \ {<<m, e[2]>>}, !.vote[e[2]] = NoVal]

(* One turn of Unregister's loop for the entry e = <<m2, dlg>> the         *)
(* iterator yields: delete cache key m++dlg, then delete dlg's vote if it  *)
(* reads m.  Every failure is a MissingNodeError and is ignored.          *)
UnregisterEntry(t, m, e, f) ==
  LET dlg == e[2]
      voteRead == ~FailsAt(f, "UnregisterVoteGet", e)
      dropVote == voteRead /\ t.vote[dlg] = m
                  /\ ~FailsAt(f, "UnregisterVoteDelete", e)
  IN [t EXCEPT
        !.cache = IF FailsAt(f, "UnregisterCacheDelete", e) THEN @
                  ELSE @ \ {<<m, dlg>>},
        !.vote = IF dropVote THEN [@ EXCEPT ![dlg] = NoVal] ELSE @]

(* Mutant: the iteration starts after every key of m.                     *)
UnregisterVisitsAfter(t, m, f) ==
  SetToSortSeq({e \in t.cache : e[1] > m}, KeyLess)

(* The cache iterator NodeIterator(m) starts at key m and runs to the end  *)
(* of the trie, so it yields every entry whose key is >= m, not only those *)
(* with prefix m.  A failing iterator stops silently before entry f.at.   *)
UnregisterVisits(t, m, f) ==
  LET all == SetToSortSeq({e \in t.cache : e[1] >= m}, KeyLess)
  IN IF Fails(f, "UnregisterIterate")
     THEN SelectSeq(all, LAMBDA e : KeyLess(e, f.at))
     ELSE all

UnregisterOp(t, m, f) ==
  LET t1 == IF Fails(f, "UnregisterMasternodeDelete") THEN t
            ELSE [t EXCEPT !.masternode[m] = NoVal]
  IN Result(FoldLeft(LAMBDA acc, e : UnregisterEntry(acc, m, e, f), t1,
                     UnregisterVisits(t, m, f)),
            FALSE)

(* Mutant: the old vote's cache entry is left in place.                  *)
DelegateOpKeepsStale(t, dlg, m, f) ==
  IF t.masternode[m] = NoVal THEN Result(t, TRUE)
  ELSE Result([t EXCEPT !.cache = @ \cup {<<m, dlg>>}, !.vote[dlg] = m], FALSE)

(* Delegate: the target must be registered under its address; the old    *)
(* vote's cache entry is dropped (voteTrie.TryGet's MissingNodeError and   *)
(* cacheTrie.Delete's failure are both swallowed), then the cache entry    *)
(* and the vote are written, each failure returned to the caller.         *)
DelegateOp(t, dlg, m, f) ==
  LET old == IF Fails(f, "DelegateVoteGet") THEN NoVal ELSE t.vote[dlg]
      cache1 == IF old # NoVal /\ ~Fails(f, "DelegateStaleDelete")
                THEN t.cache \ {<<old, dlg>>} ELSE t.cache
      cache2 == cache1 \cup {<<m, dlg>>}
  IN CASE Fails(f, "DelegateMasternodeGet") -> Result(t, TRUE)
       [] t.masternode[m] = NoVal -> Result(t, TRUE)
       [] Fails(f, "DelegateCacheUpdate") ->
            Result([t EXCEPT !.cache = cache1], TRUE)
       [] Fails(f, "DelegateVoteUpdate") ->
            Result([t EXCEPT !.cache = cache2], TRUE)
       [] OTHER -> Result([t EXCEPT !.cache = cache2, !.vote[dlg] = m], FALSE)

(* UnDelegate: registered target, current vote equal to it, then delete   *)
(* the cache entry and the vote; every failure is returned.               *)
UnDelegateOp(t, dlg, m, f) ==
  CASE Fails(f, "UnDelegateMasternodeGet") -> Result(t, TRUE)
    [] t.masternode[m] = NoVal -> Result(t, TRUE)
    [] Fails(f, "UnDelegateVoteGet") -> Result(t, TRUE)
    [] t.vote[dlg] # m -> Result(t, TRUE)
    [] Fails(f, "UnDelegateCacheDelete") -> Result(t, TRUE)
    [] Fails(f, "UnDelegateVoteDelete") ->
         Result([t EXCEPT !.cache = @ \ {<<m, dlg>>}], TRUE)
    [] OTHER ->
         Result([t EXCEPT !.cache = @ \ {<<m, dlg>>}, !.vote[dlg] = NoVal],
                FALSE)

(* SetWitnesses: cycleTrie.Update logs a failed write and returns nil.    *)
SetWitnessesOp(t, l, f) ==
  IF Fails(f, "SetWitnessesUpdate") THEN Result(t, FALSE)
  ELSE Result([t EXCEPT !.cycle = l], FALSE)

(* GetWitnesses: decoding the absent key (nil bytes) is an error.          *)
GetWitnesses(t) ==
  IF t.cycle = NoVal THEN [ok |-> FALSE, list |-> <<>>]
  ELSE [ok |-> TRUE, list |-> t.cycle]

-----------------------------------------------------------------------------
(* Mutant: the parent cycle's counter is carried on without comparing the *)
(* two cycles.                                                            *)
RollingOpNoCycleCheck(t, parentTime, currentTime, w, f) ==
  LET old == t.rolling[<<parentTime \div CycleInterval, w>>]
  IN [t EXCEPT !.rolling[<<currentTime \div CycleInterval, w>>] =
                 IF old > 0 THEN old + 1 ELSE 1]

(* Rolling: the mint counter of witness w for the cycle of the new block. *)
(* A cycle is a timestamp divided by CycleInterval (Go's / on int64, the  *)
(* timestamps being non-negative).  The iterator NodeIterator(cycle)      *)
(* yields any key at or after the cycle's 8-byte prefix, i.e. any counter *)
(* of this or a later cycle.  Every failure is logged or ignored: a       *)
(* failed iteration or Get reads as "no count", a failed TryUpdate writes *)
(* nothing.                                                               *)
RollingOp(t, parentTime, currentTime, w, f) ==
  LET cur == parentTime \div CycleInterval
      new == currentTime \div CycleInterval
      started == \E k \in DOMAIN t.rolling : k[1] >= cur /\ t.rolling[k] > 0
                 /\ ~Fails(f, "RollingIterate")
      old == IF Fails(f, "RollingGet") THEN 0 ELSE t.rolling[<<cur, w>>]
      cnt == IF cur = new /\ started /\ old > 0 THEN old + 1 ELSE 1
  IN IF Fails(f, "RollingUpdate") THEN t
     ELSE [t EXCEPT !.rolling[<<new, w>>] = cnt]

(* The tries in the order Commit commits them.                            *)
CommitOrder == <<"cycle", "cache", "vote", "masternode", "rolling">>

(* A checkpoint (DevoteProtocolAtomic) maps each trie to its root.        *)
ProtocolAtomic(t) ==
  [n \in {"cycle", "cache", "vote", "masternode", "rolling", "voteCnt"} |-> t[n]]

(* Mutant: the masternode and vote roots swapped in Commit's literal.    *)
CommitAtomicSwapsRoots(t) ==
  [n \in {"cycle", "cache", "vote", "masternode", "rolling", "voteCnt"} |->
     CASE n = "vote" -> t.masternode [] n = "masternode" -> t.vote
       [] n = "voteCnt" -> ZeroHash [] OTHER -> t[n]]

(* The DevoteProtocolAtomic literal Commit returns: the five committed    *)
(* roots, VoteCntHash left as the zero hash.                              *)
CommitAtomic(t) == [ProtocolAtomic(t) EXCEPT !["voteCnt"] = ZeroHash]

(* Mutant: a CommitTo error is ignored like a failed disk commit.         *)
CommitOpIgnoresCommitTo(t, f) ==
  LET flushed == {<<n, t[n]>> : n \in {CommitOrder[i] : i \in 1..5} \ {f.at}}
  IN [atomic |-> [ProtocolAtomic(t) EXCEPT !["voteCnt"] = ZeroHash],
      err |-> FALSE, persisted |-> flushed]

(* Commit: for each trie in CommitOrder, CommitTo (its error returned) then *)
(* triedb.Commit to disk.  A failed disk commit of the cycle trie returns  *)
(* (nil, err) with err nil, i.e. no checkpoint and no error; failed disk   *)
(* commits of the other tries are ignored.  The checkpoint's VoteCntHash  *)
(* is never set and stays the zero hash.  Result: the checkpoint (NoVal   *)
(* for none), the error flag and the <<trie, content>> pairs put on disk. *)
CommitOp(t, f) ==
  LET idx(n) == CHOOSE i \in 1..5 : CommitOrder[i] = n
      failAt == IF f.site \in {"CommitTo", "Flush"} THEN idx(f.at) ELSE 6
      flushed == {<<CommitOrder[i], t[CommitOrder[i]]>> :
                    i \in {j \in 1..5 : j < failAt \/ (j > failAt /\ f.site = "Flush")}}
      atomic == CommitAtomic(t)
  IN CASE f.site = "CommitTo" ->
            [atomic |-> NoVal, err |-> TRUE, persisted |-> flushed]
       [] f.site = "Flush" /\ f.at = "cycle" ->
            [atomic |-> NoVal, err |-> FALSE, persisted |-> {}]
       [] OTHER -> [atomic |-> atomic, err |-> FALSE, persisted |-> flushed]

(* A root opens (trie.New) if it is the zero hash or an empty trie's root, *)
(* which need no node, or if its content was committed to disk.           *)
Opens(n, root, disk) ==
  root = ZeroHash \/ root = EmptyTries[n] \/ <<n, root>> \in disk

(* Mutant: the cycle trie is not reopened at its root (left empty), as   *)
(* FromAtomic leaves voteCnt.                                             *)
FromAtomicSkipsCycle(a, disk) ==
  IF a = NoVal \/ \E n \in DOMAIN a : ~Opens(n, a[n], disk)
  THEN [ok |-> FALSE, tries |-> EmptyTries]
  ELSE [ok |-> TRUE,
        tries |-> [n \in DOMAIN a |-> IF a[n] = ZeroHash \/ n = "cycle"
                                      THEN EmptyTries[n] ELSE a[n]]]

(* NewDevoteProtocolFromAtomic: every trie reopened at its checkpoint root; *)
(* the zero hash opens an empty trie.  ok is FALSE if a root does not open *)
(* or there is no checkpoint at all.                                      *)
NewDevoteProtocolFromAtomic(a, disk) ==
  IF a = NoVal \/ \E n \in DOMAIN a : ~Opens(n, a[n], disk)
  THEN [ok |-> FALSE, tries |-> EmptyTries]
  ELSE [ok |-> TRUE,
        tries |-> [n \in DOMAIN a |-> IF a[n] = ZeroHash THEN EmptyTries[n]
                                      ELSE a[n]]]

-----------------------------------------------------------------------------
(* The manager as the pipeline drives it.  phase is the pipeline's        *)
(* position around one operation: "idle", "snapped" after Snapshot,       *)
(* "failed" after an operation returned an error.                         *)

VARIABLES
  tries,   \* the manager's six tries
  snap,    \* the DevoteProtocol that Snapshot returned (five tries)
  phase,   \* "idle" | "snapped" | "failed"
  faults,  \* storage failures so far
  before   \* history: all six tries as they were at the last Snapshot

vars == <<tries, snap, phase, faults, before>>

Init ==
  /\ tries = EmptyTries
  /\ snap = Copy(EmptyTries)
  /\ phase = "idle"
  /\ faults = 0
  /\ before = EmptyTries

(* An operation with fault choice f ends with result res.                 *)
Call(res, f) ==
  /\ phase = "snapped"
  /\ tries' = res.tries
  /\ phase' = IF res.err THEN "failed" ELSE "idle"
  /\ faults' = IF f = NoFault THEN faults ELSE faults + 1
  /\ UNCHANGED <<snap, before>>

Snapshot ==
  /\ phase = "idle"
  /\ snap' = Copy(tries)
  /\ before' = tries
  /\ phase' = "snapped"
  /\ UNCHANGED <<tries, faults>>

(* RevertToSnapShot restores the five tries Copy kept; voteCnt stays.     *)
RevertToSnapShot ==
  /\ phase = "failed"
  /\ tries' = [tries EXCEPT !.cycle = snap.cycle, !.cache = snap.cache,
                  !.masternode = snap.masternode, !.vote = snap.vote,
                  !.rolling = snap.rolling]
  /\ phase' = "idle"
  /\ UNCHANGED <<snap, faults, before>>

Register(id, acct) ==
  \E f \in FaultChoices({"RegisterUpdate"}, {NoVal}, faults) :
    Call(RegisterOp(tries, id, acct, f), f)

Unregister(m) ==
  \E f \in FaultChoices({"UnregisterMasternodeDelete"}, {NoVal}, faults)
         \cup FaultChoices({"UnregisterIterate", "UnregisterCacheDelete",
                            "UnregisterVoteGet", "UnregisterVoteDelete"},
                           {e \in tries.cache : e[1] >= m}, faults) :
    Call(UnregisterOp(tries, m, f), f)

Delegate(dlg, m) ==
  \E f \in FaultChoices({"DelegateMasternodeGet", "DelegateVoteGet",
                         "DelegateStaleDelete", "DelegateCacheUpdate",
                         "DelegateVoteUpdate"}, {NoVal}, faults) :
    Call(DelegateOp(tries, dlg, m, f), f)

UnDelegate(dlg, m) ==
  \E f \in FaultChoices({"UnDelegateMasternodeGet", "UnDelegateVoteGet",
                         "UnDelegateCacheDelete", "UnDelegateVoteDelete"},
                        {NoVal}, faults) :
    Call(UnDelegateOp(tries, dlg, m, f), f)

SetWitnesses(l) ==
  \E f \in FaultChoices({"SetWitnessesUpdate"}, {NoVal}, faults) :
    Call(SetWitnessesOp(tries, l, f), f)

(* SetVoteCnt: the setter through which code outside this file replaces  *)
(* the voteCnt trie; it cannot fail.  The vote tally is written as part  *)
(* of the speculative work under the snapshot, before the operation.     *)
SetVoteCnt(v) ==
  /\ phase = "snapped"
  /\ tries' = [tries EXCEPT !.voteCnt = v]
  /\ UNCHANGED <<snap, phase, faults, before>>

Next ==
  \/ Snapshot
  \/ RevertToSnapShot
  \/ \E id \in RegKeys, acct \in Masternodes : Register(id, acct)
  \/ \E m \in Masternodes : Unregister(m)
  \/ \E dlg \in Delegators, m \in Masternodes :
       Delegate(dlg, m) \/ UnDelegate(dlg, m)
  \/ \E l \in WitnessLists : SetWitnesses(l)
  \/ \E v \in VoteCntVals : SetVoteCnt(v)

Spec == Init /\ [][Next]_vars

-----------------------------------------------------------------------------
TypeOK ==
  /\ tries \in Tries
  /\ snap \in [cycle: WitnessLists \cup {NoVal},
               cache: SUBSET (Masternodes \X Delegators),
               vote: [Delegators -> Masternodes \cup {NoVal}],
               masternode: [RegKeys -> Masternodes \cup {NoVal}],
               rolling: [Cycles \X Masternodes -> 0..MaxCount]]
  /\ phase \in {"idle", "snapped", "failed"}
  /\ faults \in 0..MaxFaults
  /\ before \in Tries

(* The cache trie is the reverse index of the vote trie: outside a failed *)
(* operation that is about to be reverted, cache holds m++d exactly when  *)
(* d's vote is m.  Re-delegation (Delegate's stale-entry removal) and      *)
(* Unregister's cascade over the cache iterator are what keep it.          *)
CacheMatchesVote ==
  phase # "failed" =>
    \A m \in Masternodes, dlg \in Delegators :
      <<m, dlg>> \in tries.cache <=> tries.vote[dlg] = m

(* A vote only ever names a masternode registered under that address:     *)
(* Delegate checks registration, Unregister must remove every vote for    *)
(* the masternode it removes (through the cache entries it iterates).     *)
VoteTargetsRegistered ==
  phase # "failed" =>
    \A dlg \in Delegators :
      tries.vote[dlg] # NoVal => tries.masternode[tries.vote[dlg]] # NoVal

(* RevertToSnapShot discards every mutation made since the last Snapshot: *)
(* after an operation failed and was reverted, all six tries are as they   *)
(* were when the snapshot was taken, the vote tally included.            *)
RevertRestoresSnapshot ==
  [][phase = "failed" /\ phase' = "idle" => tries' = before]_vars

=============================================================================
