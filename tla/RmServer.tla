------------------------------ MODULE RmServer ------------------------------
(***************************************************************************)
(* farmemserver/rmserver.c, one process per memory node: a loop over the   *)
(* events of the connection manager, first while it counts the queues      *)
(* being connected, then until the first disconnect.  The process serves   *)
(* every load of the compute node's module until it ends or is restarted.  *)
(***************************************************************************)
EXTENDS CmLink

CONSTANTS
  ServerQueues,  \* NUM_QUEUES
  NoQueue        \* the context of a connection not seen yet

(* Both ends are built for the same number of processors (NUM_PROCS, and    *)
(* the remark at multiswap_rdma.c:878).                                     *)
ASSUME ProcsAssumption ==
  /\ ServerQueues \in Nat
  /\ NumQueues <= ServerQueues
  /\ NoQueue \notin Nat

VARIABLES
  queue_ctr,   \* queue_ctr[n]
  context,     \* context[id]: id->context, the server queue of a connection
  state,       \* state[n][k]: of server queue k, or of what lies there
  accepting,   \* accepting[n]: i of the first loop, ServerQueues in the second
  mr_buffer,   \* mr_buffer[n]: the buffer is registered
  process      \* process[n]

serverVars == <<queue_ctr, context, state, accepting, mr_buffer, process>>

ServerQueue == 0 .. ServerQueues - 1

(* The queues, and what lies in memory behind the array, as far as          *)
(* queue_ctr can get.                                                       *)
Cell == ServerQueue \cup 0 .. NumQueues * MaxLoads - 1

ServerInit ==
  /\ queue_ctr = [n \in Node |-> 0]
  /\ context = [id \in Id |-> NoQueue]
  /\ state = [n \in Node |-> [k \in Cell |-> "INIT"]]
  /\ accepting = [n \in Node |-> 0]
  /\ mr_buffer = [n \in Node |-> FALSE]
  /\ process = [n \in Node |-> "up"]

SetState(id, s) == state' = [state EXCEPT ![NodeOf(id)][context[id]] = s]
SetPeer(id, s) == peer' = [peer EXCEPT ![id] = s]

Dies(n) ==
  /\ process' = [process EXCEPT ![n] = "died"]
  /\ mr_buffer' = [mr_buffer EXCEPT ![n] = FALSE]

(* What the first loop does with the result of on_event: it moves on when   *)
(* that is not 0 or when the queue it waits for is connected.               *)
CountConnected(n, result) ==
  accepting' = IF /\ accepting[n] < ServerQueues
                  /\ state'[n][accepting[n]] = "CONNECTED"
                 THEN [accepting EXCEPT ![n] = @ + 1] ELSE accepting
Count(n, result) ==
  accepting' = IF /\ accepting[n] < ServerQueues
                  /\ result # 0 \/ state'[n][accepting[n]] = "CONNECTED"
                 THEN [accepting EXCEPT ![n] = @ + 1] ELSE accepting

LeaveWhenDone(n, result) ==
  IF accepting'[n] = ServerQueues
  THEN /\ mr_buffer' = [mr_buffer EXCEPT ![n] = FALSE]
       /\ process' = [process EXCEPT ![n] = "exited"]
  ELSE UNCHANGED <<mr_buffer, process>>

(* The second loop ends at the first result that is not 0, and with it the  *)
(* process and its buffer.                                                  *)
Leave(n, result) ==
  IF accepting[n] = ServerQueues /\ result # 0
  THEN /\ mr_buffer' = [mr_buffer EXCEPT ![n] = FALSE]
       /\ process' = [process EXCEPT ![n] = "exited"]
  ELSE UNCHANGED <<mr_buffer, process>>

Loop(n, result) == Count(n, result) /\ Leave(n, result)

TakeNoQueue(n) == UNCHANGED queue_ctr
TakeQueue(n) == queue_ctr' = [queue_ctr EXCEPT ![n] = @ + 1]

(* Only the first queue carries the memory region. *)
CarriesRegionAlways(id) == TRUE
CarriesRegionLast(id) == context[id] = ServerQueues - 1
CarriesRegion(id) == context[id] = 0

Up(id) == process[NodeOf(id)] = "up"

(* The request has come in, and those of the loads before it have been      *)
(* handled: between two loads pass seconds, not the delays of a network.    *)
Requested(id) ==
  /\ peer[id] = "none" /\ "REQ" \in msgs[id]
  /\ \A old \in Id :
       /\ NodeOf(old) = NodeOf(id) /\ LoadOf(old) < LoadOf(id)
       /\ "REQ" \in msgs[old]
       => peer[old] # "none"

(* RDMA_CM_EVENT_CONNECT_REQUEST: takes the next queue, or what lies where  *)
(* the next one would be, registers the buffer if it has not been, and      *)
(* accepts.                                                                 *)
OnConnectRequest(id) ==
  /\ Up(id)
  /\ Requested(id)
  /\ context' = [context EXCEPT ![id] = queue_ctr[NodeOf(id)]]
  /\ TakeQueue(NodeOf(id))
  /\ mr_buffer' = [mr_buffer EXCEPT ![NodeOf(id)] = TRUE]
  /\ SetPeer(id, "accepted")
  /\ UNCHANGED <<state, process, msgs, sent>>
  /\ Count(NodeOf(id), 0)

(* Behind the array anything may lie, also something that is not INIT or    *)
(* that the accesses destroy: the process ends.                             *)
OverrunDies(id) ==
  /\ Up(id)
  /\ Requested(id)
  /\ queue_ctr[NodeOf(id)] >= ServerQueues
  /\ Dies(NodeOf(id))
  /\ UNCHANGED <<queue_ctr, context, state, accepting, linkVars>>

(* rdma_accept fails because the compute node has given up meanwhile:       *)
(* TEST_NZ ends the process.                                                *)
AcceptDies(id) ==
  /\ Up(id)
  /\ Requested(id)
  /\ "REJ" \in msgs[id]
  /\ Dies(NodeOf(id))
  /\ UNCHANGED <<queue_ctr, context, state, accepting, linkVars>>

(* RDMA_CM_EVENT_ESTABLISHED *)
OnConnection(id) ==
  /\ Up(id)
  /\ peer[id] = "accepted" /\ "RTU" \in msgs[id]
  /\ state[NodeOf(id)][context[id]] = "INIT"
  /\ sent' = IF CarriesRegion(id) THEN [sent EXCEPT ![NodeOf(id)] = @ \cup {id}] ELSE sent
  /\ SetState(id, "CONNECTED")
  /\ SetPeer(id, "established")
  /\ Loop(NodeOf(id), 0)
  /\ UNCHANGED <<queue_ctr, context, msgs>>

(* RDMA_CM_EVENT_DISCONNECTED, which may come although the connection was   *)
(* never reported as established.                                           *)
OnDisconnect(id) ==
  /\ Up(id)
  /\ peer[id] \in {"accepted", "established"} /\ "DREQ" \in msgs[id]
  /\ SetState(id, "INIT")
  /\ SetPeer(id, "closed")
  /\ Loop(NodeOf(id), 1)
  /\ UNCHANGED <<queue_ctr, context, msgs, sent>>

(* Any other event, such as RDMA_CM_EVENT_REJECTED. *)
OnUnknownEvent(id) ==
  /\ Up(id)
  /\ peer[id] = "accepted" /\ "REJ" \in msgs[id]
  /\ SetPeer(id, "closed")
  /\ UNCHANGED state
  /\ Loop(NodeOf(id), 1)
  /\ UNCHANGED <<queue_ctr, context, msgs, sent>>

OnEvent(id) ==
  \/ OnConnectRequest(id)
  \/ OverrunDies(id)
  \/ AcceptDies(id)
  \/ OnConnection(id)
  \/ OnDisconnect(id)
  \/ OnUnknownEvent(id)

(* The loads whose requests the process of node n has taken. *)
Served(n) == {LoadOf(id) : id \in {c \in Id : NodeOf(c) = n /\ context[c] # NoQueue}}

(* The operator starts a process afresh on node n: the old one is gone, and *)
(* with it the connections it had.                                          *)
StartServer(n, load) ==
  LET before(id) == NodeOf(id) = n /\ LoadOf(id) <= load IN
  /\ queue_ctr' = [queue_ctr EXCEPT ![n] = 0]
  /\ context' = [id \in Id |-> IF before(id) THEN NoQueue ELSE context[id]]
  /\ state' = [state EXCEPT ![n] = [k \in Cell |-> "INIT"]]
  /\ accepting' = [accepting EXCEPT ![n] = 0]
  /\ mr_buffer' = [mr_buffer EXCEPT ![n] = FALSE]
  /\ process' = [process EXCEPT ![n] = "up"]
  /\ peer' = [id \in Id |-> IF before(id) THEN "closed" ELSE peer[id]]
  /\ msgs' = [id \in Id |-> IF before(id) THEN {} ELSE msgs[id]]
  /\ UNCHANGED sent

ServerTypeOK ==
  /\ queue_ctr \in [Node -> 0 .. Cardinality(Cell)]
  /\ context \in [Id -> Cell \cup {NoQueue}]
  /\ state \in [Node -> [Cell -> {"INIT", "CONNECTED"}]]
  /\ accepting \in [Node -> 0 .. ServerQueues]
  /\ mr_buffer \in [Node -> BOOLEAN]
  /\ process \in [Node -> {"up", "exited", "died"}]
=============================================================================
