--------------------------- MODULE DevoteRegistry ---------------------------
(***************************************************************************)
(* What the Devote manager promises its callers, without tries, the cache *)
(* index or storage: a registration table keyed by masternode ID or        *)
(* address, one vote per delegator, and the witness list.  Unregistering  *)
(* a masternode withdraws every vote for it in the same step.  An          *)
(* operation that fails changes nothing (the pipeline reverts it).        *)
(***************************************************************************)
CONSTANTS Masternodes, Delegators, RegKeys, WitnessLists, NoVal

VARIABLES
  masternodes,  \* registration key -> bonded account, or NoVal
  votes,        \* delegator -> masternode address voted for, or NoVal
  witnesses     \* the current witness list, or NoVal before the first one

vars == <<masternodes, votes, witnesses>>

Init ==
  /\ masternodes = [k \in RegKeys |-> NoVal]
  /\ votes = [d \in Delegators |-> NoVal]
  /\ witnesses = NoVal

Register(k, a) ==
  /\ masternodes' = [masternodes EXCEPT ![k] = a]
  /\ UNCHANGED <<votes, witnesses>>

Unregister(m) ==
  /\ masternodes' = [masternodes EXCEPT ![m] = NoVal]
  /\ votes' = [d \in Delegators |-> IF votes[d] = m THEN NoVal ELSE votes[d]]
  /\ UNCHANGED witnesses

Delegate(d, m) ==
  /\ masternodes[m] # NoVal
  /\ votes' = [votes EXCEPT ![d] = m]
  /\ UNCHANGED <<masternodes, witnesses>>

UnDelegate(d, m) ==
  /\ masternodes[m] # NoVal
  /\ votes[d] = m
  /\ votes' = [votes EXCEPT ![d] = NoVal]
  /\ UNCHANGED <<masternodes, witnesses>>

SetWitnesses(l) ==
  /\ witnesses' = l
  /\ UNCHANGED <<masternodes, votes>>

Next ==
  \/ \E k \in RegKeys, a \in Masternodes : Register(k, a)
  \/ \E m \in Masternodes : Unregister(m)
  \/ \E d \in Delegators, m \in Masternodes : Delegate(d, m) \/ UnDelegate(d, m)
  \/ \E l \in WitnessLists : SetWitnesses(l)

Spec == Init /\ [][Next]_vars

=============================================================================
