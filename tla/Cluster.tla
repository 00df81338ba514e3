------------------------------ MODULE Cluster ------------------------------
(***************************************************************************)
(* The compute node's module (RdmaConnect) and the memory servers          *)
(* (RmServer), from the first connection to the last disconnect.           *)
(***************************************************************************)
EXTENDS RdmaConnect, RmServer

vars == <<clientVars, serverVars, linkVars>>

Init == LinkInit /\ ClientInit /\ ServerInit

Load == LoadStep /\ UNCHANGED serverVars
Unload == CleanupModule /\ UNCHANGED serverVars
Reload == LoadAgain /\ UNCHANGED serverVars
Handler(id) == CmHandler(id) /\ UNCHANGED serverVars
Server(id) == OnEvent(id) /\ UNCHANGED clientVars

(* A server is started again between two loads, whether it has ended or not. *)
RestartServer(n) ==
  /\ pc \in {"failed", "unloaded"} /\ load < MaxLoads
  /\ StartServer(n, load)
  /\ UNCHANGED clientVars

Next ==
  \/ Load
  \/ Unload
  \/ Reload
  \/ \E id \in Id : Handler(id) \/ Server(id)
  \/ \E n \in Node : RestartServer(n)

Spec == Init /\ [][Next]_vars

(***************************************************************************)
(* The loading thread runs, every wait ends (at the latest by its timer),  *)
(* the connection manager reports what has become of a request, and the    *)
(* servers handle the events they are sent.  Nobody has to unload.         *)
(***************************************************************************)
FairSpec ==
  /\ Spec
  /\ WF_vars(Load)
  /\ \A id \in Id : WF_vars(Handler(id)) /\ WF_vars(Server(id))

-----------------------------------------------------------------------------
TypeOK == LinkTypeOK /\ ClientTypeOK /\ ServerTypeOK

(* "ctrl is ready for reqs" (multiswap_rdma.c:1008): the queue that a read  *)
(* or a write picks on any processor is of its type, is connected and has   *)
(* its queue pair, whatever timer ran out or event came late.               *)
ReadyMeansUsable ==
  pc = "ready" =>
    \A n \in Node, cpu \in Cpu, type \in QpType :
      LET id == <<n, GetQueue(cpu, type), load>> IN
      /\ GetQueueType(GetQueue(cpu, type)) = type
      /\ id \in cq /\ id \in qp /\ cm_id[id] = "connected"

(* Every region has arrived then, and from a process that has seen no other *)
(* load: a load against a server that has already served one does not get   *)
(* that far, since queue_ctr only grows (rmserver.c:201).                   *)
ReadyMeansFreshServer ==
  pc = "ready" => servermr = Node /\ \A n \in Node : Served(n) = {load}

(* What is stopped and freed is there and is stopped once: the failing      *)
(* queue, whose cm_id is gone, is not among it (lines 382-384, 413-417).    *)
StopsOnlyConnected ==
  /\ \A j \in DOMAIN stop : stop[j] \in qp /\ cm_id[stop[j]] = "connected"
  /\ \A j, k \in DOMAIN stop : j # k => stop[j] # stop[k]

(* A load that fails leaves no connection behind, not even one that was     *)
(* established after its wait had ended (the todos at lines 978 and 990).   *)
FailedLoadDisconnects ==
  pc = "failed" =>
    \A id \in Id :
      /\ cm_id[id] \in {"none", "destroyed"}
      /\ "RTU" \in msgs[id] => "DREQ" \in msgs[id]

(* Of its queue pairs and completion queues, a load that fails leaves       *)
(* behind only those of the one queue that failed, whose cm_id is destroyed *)
(* without them (line 384); an unload leaves none.                          *)
AtMostOneQueueLeft ==
  \A g \in Loads :
    LET left == {id \in cq \cup qp : LoadOf(id) = g} IN
    \/ g = load /\ pc \notin {"failed", "unloaded"}
    \/ left = {}
    \/ Cardinality(left) = 1 /\ ~(g = load /\ pc = "unloaded")

(* No two live connections share a server queue, and the tests of state at  *)
(* rmserver.c:203 and 243 always succeed.                                   *)
QueuesNotShared ==
  \A id \in Id :
    /\ peer[id] = "accepted" => state[NodeOf(id)][context[id]] = "INIT"
    /\ \A other \in Id \ {id} :
         /\ NodeOf(id) = NodeOf(other)
         /\ context[id] # NoQueue /\ context[other] # NoQueue
         => context[id] # context[other]

(* A server keeps its process and its buffer for as long as the compute     *)
(* node may read and write, although it leaves at the first disconnect.     *)
BufferOutlivesClient ==
  pc = "ready" => \A n \in Node : process[n] = "up" /\ mr_buffer[n]

(* insmod returns with a usable module or with an error, or it dies for     *)
(* want of memory.  Only a server that has served another load, or that has *)
(* ended, can make it wait for ever (sswap_rdma_wait_completion,            *)
(* multiswap_rdma.c:706, has no timer).                                     *)
LoadEnds ==
  pc = "init" ~>
    \/ pc \in {"failed", "ready", "unloaded", "oops"}
    \/ pc = "poll" /\ (Served(node) # {load} \/ process[node] # "up")

(* Once the module is unloaded, the servers it used end: however the events *)
(* that the first loop counts (rmserver.c:92) were ordered, the disconnects *)
(* take it to the second loop and out of that.                              *)
UnloadEndsServers ==
  \A g \in Loads, n \in Node :
    (pc = "unloaded" /\ load = g) ~> (process[n] # "up" \/ g \notin Served(n))
=============================================================================
