---------------------------- MODULE RdmaConnect ----------------------------
(***************************************************************************)
(* dev-rdma/multiswap_rdma.c: loading and unloading the module.  One       *)
(* thread connects the queues of one memory node after the other, receives *)
(* every node's memory region over its queue 0, and tears down what it has *)
(* set up when something fails.  The connection manager's thread runs      *)
(* sswap_rdma_cm_handler, at most one at a time for a cm_id and never for  *)
(* a destroyed one.                                                        *)
(***************************************************************************)
EXTENDS CmLink

CONSTANTS
  MayTimeOut,    \* may the wait end before the manager has answered?
  VerbsMayFail,  \* may a call to the RDMA core or an allocation fail?
  CmMayFail      \* may the manager report an error or a rejection?

ASSUME ConnectAssumption == {MayTimeOut, VerbsMayFail, CmMayFail} \subseteq BOOLEAN

VARIABLES
  load,       \* which load of the module this is
  pc,         \* where the loading thread is
  node,       \* the memory node it works on
  queue,      \* and that node's queue
  stop,       \* the queues it still has to stop and free
  cm_id,      \* cm_id[id]: how far the connection of a queue is
  cm_error,   \* cm_error[id]
  cm_done,    \* cm_done[id]: the completion
  cq,         \* the queues that have a completion queue
  qp,         \* the queues that have a queue pair
  rdev,       \* the controllers, by node and load, with a device and its pd
  servermr    \* the nodes whose memory region has arrived

clientVars ==
  <<load, pc, node, queue, stop, cm_id, cm_error, cm_done, cq, qp, rdev, servermr>>

ClientInit ==
  /\ load = 1
  /\ pc = "init"
  /\ node = 0
  /\ queue = 0
  /\ stop = <<>>
  /\ cm_id = [id \in Id |-> "none"]
  /\ cm_error = [id \in Id |-> "none"]
  /\ cm_done = [id \in Id |-> FALSE]
  /\ cq = {}
  /\ qp = {}
  /\ rdev = {}
  /\ servermr = {}

Current == <<node, queue, load>>

(* The controller that a queue belongs to. *)
Ctrl(id) == <<NodeOf(id), LoadOf(id)>>

(* Queue number j, counted from 0, of the controllers on gctrl_list. *)
Nth(j) == <<j \div NumQueues, j % NumQueues, load>>

(* What is stopped when queue i of node n fails: the earlier queues of this *)
(* controller, backwards, then those of the controllers on the list.        *)
ToStopFrom(n, i) ==
  [j \in 1 .. i + 1 |-> <<n, i - j + 1, load>>] \o [j \in 1 .. n * NumQueues |-> Nth(j - 1)]
ToStop(n, i) ==
  [j \in 1 .. i |-> <<n, i - j, load>>] \o [j \in 1 .. n * NumQueues |-> Nth(j - 1)]

FailAt(n, i, label) ==
  /\ stop' = ToStop(n, i)
  /\ pc' = label

-----------------------------------------------------------------------------
(* The queues of a controller: one of each type per processor that is       *)
(* online when the module is loaded.  Processors are numbered from 0        *)
(* without gaps.                                                            *)

numcpus == NumQueues \div 3
Cpu == 0 .. numcpus - 1
QpType == {"QP_READ_SYNC", "QP_READ_ASYNC", "QP_WRITE_SYNC"}

GetQueueType(idx) ==
  CASE idx < numcpus -> "QP_READ_SYNC"
    [] idx \in numcpus .. numcpus * 2 - 1 -> "QP_READ_ASYNC"
    [] OTHER -> "QP_WRITE_SYNC"

GetQueue(cpuid, type) ==
  CASE type = "QP_READ_SYNC" -> cpuid
    [] type = "QP_READ_ASYNC" -> cpuid + numcpus
    [] OTHER -> cpuid + numcpus * 2

-----------------------------------------------------------------------------
(* The loading thread. *)

(* sswap_rdma_init_queue, up to the wait. *)
InitQueue ==
  /\ pc = "init"
  /\ cm_id' = [cm_id EXCEPT ![Current] = "addr"]
  /\ cm_error' = [cm_error EXCEPT ![Current] = "ETIMEDOUT"]
  /\ pc' = "wait"
  /\ UNCHANGED <<load, node, queue, stop, cm_done, cq, qp, rdev, servermr, linkVars>>

(* rdma_create_id or rdma_resolve_addr fails: no cm_id is left. *)
InitQueueFails ==
  /\ VerbsMayFail
  /\ pc = "init"
  /\ FailAt(node, queue, "undo")
  /\ UNCHANGED <<load, node, queue, cm_id, cm_error, cm_done, cq, qp, rdev, servermr, linkVars>>

(* sswap_rdma_wait_for_cm returns, completed or not (a time-out, a signal), *)
(* with whatever cm_error is: the next queue, the next node, the regions.   *)
WaitForCm ==
  /\ pc = "wait"
  /\ cm_done[Current] \/ MayTimeOut
  /\ cm_error[Current] = "none"
  /\ queue' = (queue + 1) % NumQueues
  /\ node' = CASE queue < NumQueues - 1 -> node
               [] queue = NumQueues - 1 /\ node < NrNodes - 1 -> node + 1
               [] OTHER -> 0
  /\ pc' = IF <<node, queue>> = <<NrNodes - 1, NumQueues - 1>> THEN "recv" ELSE "init"
  /\ UNCHANGED <<load, stop, cm_id, cm_error, cm_done, cq, qp, rdev, servermr, linkVars>>

WaitForCmFails ==
  /\ pc = "wait"
  /\ cm_done[Current] \/ MayTimeOut
  /\ cm_error[Current] # "none"
  /\ pc' = "destroy"
  /\ UNCHANGED <<load, node, queue, stop, cm_id, cm_error, cm_done, cq, qp, rdev, servermr, linkVars>>

(* rdma_destroy_id takes the connection back, if the manager has got that   *)
(* far in the meantime; a queue pair and its completion queue stay.         *)
Withdraw(id) ==
  msgs' = IF cm_id[id] = "connected" THEN [msgs EXCEPT ![id] = @ \cup {"DREQ"}]
          ELSE IF "REQ" \in msgs[id] THEN [msgs EXCEPT ![id] = @ \cup {"REJ"}]
          ELSE msgs

DestroyIdForgotten ==
  /\ pc = "destroy"
  /\ FailAt(node, queue, "undo")
  /\ UNCHANGED <<load, node, queue, cm_id, cm_error, cm_done, cq, qp, rdev, servermr, linkVars>>

DestroyId ==
  /\ pc = "destroy"
  /\ Withdraw(Current)
  /\ cm_id' = [cm_id EXCEPT ![Current] = "destroyed"]
  /\ FailAt(node, queue, "undo")
  /\ UNCHANGED <<load, node, queue, cm_error, cm_done, cq, qp, rdev, servermr, peer, sent>>

(* sswap_rdma_recv_remotemr for the next controller: post the receive. *)
PostRecv ==
  /\ pc = "recv"
  /\ pc' = "poll"
  /\ UNCHANGED <<load, node, queue, stop, cm_id, cm_error, cm_done, cq, qp, rdev, servermr, linkVars>>

(* The buffer for the region cannot be mapped (690) or ib_post_recv fails. *)
PostRecvFails ==
  /\ VerbsMayFail
  /\ pc = "recv"
  /\ FailAt(NrNodes, 0, "undo")
  /\ UNCHANGED <<load, node, queue, cm_id, cm_error, cm_done, cq, qp, rdev, servermr, linkVars>>

(* sswap_rdma_wait_completion polls until the region has come in; the       *)
(* server's send is repeated until a receive is posted (rnr_retry_count 7). *)
RecvRemoteMr ==
  /\ pc = "poll"
  /\ <<node, 0, load>> \in sent[node]
  /\ servermr' = servermr \cup {node}
  /\ node' = (node + 1) % NrNodes
  /\ pc' = IF node = NrNodes - 1 THEN "gctrl" ELSE "recv"
  /\ UNCHANGED <<load, queue, stop, cm_id, cm_error, cm_done, cq, qp, rdev, linkVars>>

(* With every region there, gctrl is allocated and filled: ready for reqs. *)
CreateGctrl ==
  /\ pc = "gctrl"
  /\ pc' = "ready"
  /\ UNCHANGED <<load, node, queue, stop, cm_id, cm_error, cm_done, cq, qp, rdev, servermr, linkVars>>

(* Neither get_req_for_buf (its test is of the address of the pointer, 681) *)
(* nor the init function (999) notices that it has got no memory: insmod    *)
(* dies with NULL, and leaves the module half loaded and connected.  The    *)
(* free of a wrong address when the buffer cannot be mapped (693) may end   *)
(* in the same way.                                                         *)
NoMemory ==
  /\ VerbsMayFail
  /\ pc \in {"recv", "gctrl"}
  /\ pc' = "oops"
  /\ UNCHANGED <<load, node, queue, stop, cm_id, cm_error, cm_done, cq, qp, rdev, servermr, linkVars>>

FreedNot(queues) == queues
Freed(queues) == queues \ {Head(stop)}

(* sswap_rdma_stop_queue and sswap_rdma_free_queue. *)
StopAndFree ==
  /\ pc \in {"undo", "cleanup"}
  /\ stop # <<>>
  /\ Withdraw(Head(stop))
  /\ qp' = Freed(qp)
  /\ cq' = Freed(cq)
  /\ cm_id' = [cm_id EXCEPT ![Head(stop)] = "destroyed"]
  /\ stop' = Tail(stop)
  /\ UNCHANGED <<load, pc, node, queue, cm_error, cm_done, rdev, servermr, peer, sent>>

(* The module's init function returns an error, or its exit function ends. *)
Stopped ==
  /\ pc \in {"undo", "cleanup"}
  /\ stop = <<>>
  /\ pc' = IF pc = "undo" THEN "failed" ELSE "unloaded"
  /\ UNCHANGED <<load, node, queue, stop, cm_id, cm_error, cm_done, cq, qp, rdev, servermr, linkVars>>

(* rmmod: sswap_rdma_cleanup_module. *)
CleanupModule ==
  /\ pc = "ready"
  /\ FailAt(NrNodes, 0, "cleanup")
  /\ UNCHANGED <<load, node, queue, cm_id, cm_error, cm_done, cq, qp, rdev, servermr, linkVars>>

(* insmod again, after a load that failed or an unload: the module's data   *)
(* is new.  What was lost stays: a queue pair with its completion queue and *)
(* the devices with their pd.  Plain memory is not modelled: what an unload *)
(* does not free of it (ctrl->queues) nor a failed load (entries,           *)
(* controllers, req_cache) is lost as well.                                 *)
LoadAgain ==
  /\ pc \in {"failed", "unloaded"} /\ load < MaxLoads
  /\ load' = load + 1
  /\ pc' = "init"
  /\ node' = 0
  /\ queue' = 0
  /\ cm_id' = [id \in Id |-> "none"]
  /\ cm_error' = [id \in Id |-> "none"]
  /\ cm_done' = [id \in Id |-> FALSE]
  /\ servermr' = {}
  /\ UNCHANGED <<stop, cq, qp, rdev, linkVars>>

LoadStep ==
  \/ InitQueue \/ InitQueueFails
  \/ WaitForCm \/ WaitForCmFails \/ DestroyId
  \/ PostRecv \/ PostRecvFails \/ RecvRemoteMr \/ CreateGctrl \/ NoMemory
  \/ StopAndFree \/ Stopped

-----------------------------------------------------------------------------
(* The connection manager's thread: sswap_rdma_cm_handler. *)

Advance(id, to) == cm_id' = [cm_id EXCEPT ![id] = to]

(* An event that ends the wait with an error. *)
Complete(id, error) ==
  /\ cm_error' = [cm_error EXCEPT ![id] = error]
  /\ cm_done' = [cm_done EXCEPT ![id] = TRUE]

(* RDMA_CM_EVENT_ADDR_RESOLVED: device, completion queue, queue pair, and   *)
(* on to the route.                                                         *)
AddrResolved(id) ==
  /\ cm_id[id] = "addr"
  /\ rdev' = rdev \cup {Ctrl(id)}
  /\ cq' = cq \cup {id}
  /\ qp' = qp \cup {id}
  /\ Advance(id, "route")
  /\ UNCHANGED <<load, pc, node, queue, stop, cm_error, cm_done, servermr, linkVars>>

(* No device, no completion queue or no queue pair: nothing is left behind  *)
(* but, perhaps, the device.                                                *)
AddrResolvedFails(id) ==
  /\ VerbsMayFail
  /\ cm_id[id] = "addr"
  /\ rdev' \in {rdev, rdev \cup {Ctrl(id)}}
  /\ Complete(id, "ENODEV")
  /\ Advance(id, "error")
  /\ UNCHANGED <<load, pc, node, queue, stop, cq, qp, servermr, linkVars>>

(* rdma_resolve_route fails.  The handler frees the completion queue, which *)
(* the core refuses as long as the queue pair uses it, and returns 0:       *)
(* nobody is told.                                                          *)
ResolveRouteFails(id) ==
  /\ VerbsMayFail
  /\ cm_id[id] = "addr"
  /\ rdev' = rdev \cup {Ctrl(id)}
  /\ cq' = cq \cup {id}
  /\ qp' = qp \cup {id}
  /\ Advance(id, "error")
  /\ UNCHANGED <<load, pc, node, queue, stop, cm_error, cm_done, servermr, linkVars>>

(* RDMA_CM_EVENT_ROUTE_RESOLVED: connect, or fail without telling. *)
RouteResolved(id) ==
  /\ cm_id[id] = "route"
  /\ Send(id, "REQ")
  /\ Advance(id, "connect")
  /\ UNCHANGED <<load, pc, node, queue, stop, cm_error, cm_done, cq, qp, rdev, servermr, peer, sent>>

ConnectFails(id) ==
  /\ VerbsMayFail
  /\ cm_id[id] = "route"
  /\ Advance(id, "error")
  /\ UNCHANGED <<load, pc, node, queue, stop, cm_error, cm_done, cq, qp, rdev, servermr, linkVars>>

(* RDMA_CM_EVENT_ESTABLISHED, once the server has accepted. *)
Established(id) ==
  /\ cm_id[id] = "connect" /\ peer[id] # "none"
  /\ Send(id, "RTU")
  /\ Complete(id, "none")
  /\ Advance(id, "connected")
  /\ UNCHANGED <<load, pc, node, queue, stop, cq, qp, rdev, servermr, peer, sent>>

(* RDMA_CM_EVENT_ADDR_ERROR, ROUTE_ERROR, CONNECT_ERROR, UNREACHABLE. *)
CmErrorEventIsSuccess(id) ==
  /\ CmMayFail
  /\ cm_id[id] \in {"addr", "route", "connect"}
  /\ Complete(id, "none")
  /\ Advance(id, "error")
  /\ UNCHANGED <<load, pc, node, queue, stop, cq, qp, rdev, servermr, linkVars>>

CmErrorEvent(id) ==
  /\ CmMayFail
  /\ cm_id[id] \in {"addr", "route", "connect"}
  /\ Complete(id, "ECONNRESET")
  /\ Advance(id, "error")
  /\ UNCHANGED <<load, pc, node, queue, stop, cq, qp, rdev, servermr, linkVars>>

(* RDMA_CM_EVENT_REJECTED is logged and completes nothing. *)
Rejected(id) ==
  /\ CmMayFail
  /\ cm_id[id] = "connect"
  /\ Advance(id, "error")
  /\ UNCHANGED <<load, pc, node, queue, stop, cm_error, cm_done, cq, qp, rdev, servermr, linkVars>>

CmHandler(id) ==
  \/ AddrResolved(id) \/ AddrResolvedFails(id) \/ ResolveRouteFails(id)
  \/ RouteResolved(id) \/ ConnectFails(id)
  \/ Established(id)
  \/ CmErrorEvent(id) \/ Rejected(id)

ClientTypeOK ==
  /\ load \in Loads
  /\ pc \in {"init", "wait", "destroy", "recv", "poll", "gctrl", "ready", "oops",
             "undo", "cleanup", "failed", "unloaded"}
  /\ node \in Node
  /\ queue \in Queue
  /\ stop \in Seq(Id)
  /\ cm_id \in [Id -> {"none", "addr", "route", "connect", "connected", "error", "destroyed"}]
  /\ cm_error \in [Id -> {"none", "ETIMEDOUT", "ENODEV", "ECONNRESET"}]
  /\ cm_done \in [Id -> BOOLEAN]
  /\ cq \subseteq Id
  /\ qp \subseteq Id
  /\ rdev \subseteq Node \X Loads
  /\ servermr \subseteq Node
=============================================================================
