--------------------------- MODULE EthAPIMasternode ---------------------------
(***************************************************************************)
(* The masternode methods of EthAPIBackend (src/eth/api_backend.go): they  *)
(* read the masternode contract, the enodeinfo contract and this node's    *)
(* p2p identity.  Contract transactions and the start of the server happen *)
(* concurrently (environment actions); a contract call may fail.  A nodeid *)
(* argument is abstracted to what its hex decoding yields.                 *)
(***************************************************************************)
EXTENDS Integers

CONSTANTS
  Ids,         \* 8-byte masternode ids
  EnodeRecs,   \* enode records the contract may hold
  NoVal        \* nil

VARIABLES
  registered,  \* ids registered in the masternode contract
  enodes,      \* id -> enode record in the enodeinfo contract, or NoVal
  enodeReady,  \* the enodeinfo contract binding has been created
  self,        \* the id of this node's p2p key once the server runs, or NoVal
  reply        \* the value the last RPC method returned, until the next step

vars == <<registered, enodes, enodeReady, self, reply>>

nodeVars == <<registered, enodes, enodeReady, self>>

(* An enode record: both halves of the node key and the ip:port, each     *)
(* zero (FALSE) or set.                                                   *)
AllEnodeRecs == [id1: BOOLEAN, id2: BOOLEAN, port: BOOLEAN]

(* What hex.DecodeString of a nodeid argument yields: the bytes decoded  *)
(* before any error (an argument with a bad character after 16 good hex   *)
(* digits yields 8 bytes and an error), the first eight of which name an  *)
(* id.                                                                    *)
NodeIdArgs == {[ok |-> FALSE, len |-> 0, id |-> NoVal]}
              \cup [ok: BOOLEAN, len: {8}, id: Ids]
              \cup [ok: {TRUE}, len: {7}, id: {NoVal}]

Rep(op, val) == [op |-> op, val |-> val, arg |-> NoVal]

Init ==
  /\ registered = {}
  /\ enodes = [i \in Ids |-> NoVal]
  /\ enodeReady = FALSE
  /\ self = NoVal
  /\ reply = NoVal

(* Transactions to the masternode and enodeinfo contracts, the creation   *)
(* of the enodeinfo binding, and the start of the p2p server.             *)
ContractChange ==
  /\ \/ \E i \in Ids : registered' = registered \cup {i}
                       /\ UNCHANGED <<enodes, enodeReady, self>>
     \/ \E i \in Ids, r \in EnodeRecs : enodes' = [enodes EXCEPT ![i] = r]
                       /\ UNCHANGED <<registered, enodeReady, self>>
     \/ enodeReady' = TRUE /\ UNCHANGED <<registered, enodes, self>>
     \/ self = NoVal /\ \E i \in Ids : self' = i
                       /\ UNCHANGED <<registered, enodes, enodeReady>>
  /\ reply' = NoVal

Answer(r) == /\ reply' = r
             /\ UNCHANGED nodeVars

(* Masternodes: the list, or nil when MasternodeList fails.               *)
Masternodes ==
  /\ \E fail \in BOOLEAN :
       Answer(Rep("Masternodes", [list |-> IF fail THEN NoVal ELSE registered]))

(* GetInfo: "" for a nodeid that is not 8 bytes of hex or when the         *)
(* contract call fails, else the contract's record for the id (zero for   *)
(* an id that is not registered).                                         *)
InfoReply(arg, fail) ==
  IF ~arg.ok \/ arg.len # 8 \/ fail THEN [kind |-> "", id |-> NoVal]
  ELSE [kind |-> "info", id |-> arg.id, registered |-> arg.id \in registered]

GetInfo ==
  /\ \E arg \in NodeIdArgs, fail \in BOOLEAN :
       Answer([Rep("GetInfo", InfoReply(arg, fail)) EXCEPT !.arg = arg])

(* GetEnode's early returns, in the code's order.  A record the contract  *)
(* does not hold reads as all zero.                                       *)
EnodeReply(arg, fail) ==
  CASE ~enodeReady            -> [kind |-> "wait for initializing", id |-> NoVal]
    [] ~arg.ok \/ arg.len # 8 -> [kind |-> "nodeid is illegal", id |-> NoVal]
    [] fail                   -> [kind |-> "", id |-> NoVal]
    [] enodes[arg.id] = NoVal
       \/ ~(enodes[arg.id].id1 /\ enodes[arg.id].id2 /\ enodes[arg.id].port)
                              -> [kind |-> "No enodeinfo", id |-> arg.id]
    [] OTHER                  -> [kind |-> "enode", id |-> arg.id]

GetEnode ==
  /\ \E arg \in NodeIdArgs, fail \in BOOLEAN :
       Answer([Rep("GetEnode", EnodeReply(arg, fail)) EXCEPT !.arg = arg])

DataNoSelfCheck(fail) ==
  CASE fail  -> [kind |-> "", id |-> NoVal]
    [] OTHER -> [kind |-> IF self \in registered THEN "already a masternode" ELSE "data",
                 id |-> self]

(* Data: this node's registration payload, prefixed by a warning when its *)
(* id is already registered; "" when contract.Has fails.                  *)
DataReply(fail) ==
  CASE self = NoVal -> [kind |-> "wait for initializing", id |-> NoVal]
    [] fail         -> [kind |-> "", id |-> NoVal]
    [] OTHER        -> [kind |-> IF self \in registered THEN "already a masternode" ELSE "data",
                        id |-> self]

Data ==
  /\ \E fail \in BOOLEAN : Answer(Rep("Data", DataReply(fail)))

(* StartMasternode and StopMasternode do nothing and report success.      *)
StartStopMasternode ==
  /\ \E m \in {"StartMasternode", "StopMasternode"} :
       Answer(Rep(m, [ok |-> TRUE]))

Next ==
  \/ ContractChange
  \/ Masternodes \/ GetInfo \/ GetEnode \/ Data \/ StartStopMasternode

Spec == Init /\ [][Next]_vars

-----------------------------------------------------------------------------
(* The values the methods return: an id only of a well-formed nodeid.      *)
Replies ==
  [op: {"Masternodes"}, val: [list: (SUBSET Ids) \cup {NoVal}], arg: {NoVal}]
  \cup [op: {"GetInfo"}, val: [kind: {""}, id: {NoVal}]
                             \cup [kind: {"info"}, id: Ids, registered: BOOLEAN],
        arg: NodeIdArgs]
  \cup [op: {"GetEnode"}, val: [kind: STRING, id: Ids \cup {NoVal}], arg: NodeIdArgs]
  \cup [op: {"Data"}, val: [kind: {"wait for initializing", ""}, id: {NoVal}]
                          \cup [kind: {"already a masternode", "data"}, id: Ids],
        arg: {NoVal}]
  \cup [op: {"StartMasternode", "StopMasternode"}, val: [ok: {TRUE}], arg: {NoVal}]

TypeOK ==
  /\ registered \subseteq Ids
  /\ enodes \in [Ids -> EnodeRecs \cup {NoVal}]
  /\ enodeReady \in BOOLEAN
  /\ self \in Ids \cup {NoVal}
  /\ reply \in Replies \cup {NoVal}

=============================================================================
