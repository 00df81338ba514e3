------------------------------- MODULE CmLink -------------------------------
(***************************************************************************)
(* The two connection managers between the compute node                    *)
(* (dev-rdma/multiswap_rdma.c) and the memory servers                      *)
(* (farmemserver/rmserver.c), as far as the two programs use them.  A      *)
(* connection is named by the queue that the compute node connects, memory *)
(* node and index, and by the load of the module that it belongs to.       *)
(* Messages between the managers may be delayed and overtake each other,   *)
(* also those of one connection; what gets lost they send again.           *)
(***************************************************************************)
EXTENDS Integers, Sequences, FiniteSets

CONSTANTS
  NrNodes,    \* NUM_SERVER
  NumQueues,  \* numqueues_perserver
  MaxLoads    \* bound: how often the module is loaded

ASSUME LinkAssumption ==
  /\ NrNodes \in Nat \ {0}
  /\ NumQueues \in Nat \ {0}
  /\ MaxLoads \in Nat \ {0}

Node == 0 .. NrNodes - 1
Queue == 0 .. NumQueues - 1
Loads == 1 .. MaxLoads
Id == Node \X Queue \X Loads

NodeOf(id) == id[1]
QueueOf(id) == id[2]
LoadOf(id) == id[3]

VARIABLES
  msgs,   \* msgs[id]: what the compute node's manager has sent
  peer,   \* peer[id]: the server's end of the connection
  sent    \* sent[n]: the connections over which node n has sent its region

linkVars == <<msgs, peer, sent>>

LinkInit ==
  /\ msgs = [id \in Id |-> {}]
  /\ peer = [id \in Id |-> "none"]
  /\ sent = [n \in Node |-> {}]

Send(id, m) == msgs' = [msgs EXCEPT ![id] = @ \cup {m}]

LinkTypeOK ==
  /\ msgs \in [Id -> SUBSET {"REQ", "RTU", "DREQ", "REJ"}]
  /\ peer \in [Id -> {"none", "accepted", "established", "closed"}]
  /\ sent \in [Node -> SUBSET Id]
=============================================================================
