----------------------------- MODULE RdmaQueue -----------------------------
(***************************************************************************)
(* dev-rdma/multiswap_rdma.c: one RDMA queue pair and the threads that     *)
(* swap pages through it.  sswap_rdma_write and sswap_rdma_read_sync pick  *)
(* a queue by processor number with preemption on, so several threads can  *)
(* be inside the same queue.  They share an atomic counter of requests in  *)
(* flight (pending) and a completion queue which whoever holds cq_lock     *)
(* polls, running the completion handlers of the other threads' requests.  *)
(*                                                                         *)
(* A thread has at most one request in flight: requests are named by the   *)
(* thread that made them.  The order of completions plays no role here.    *)
(***************************************************************************)
EXTENDS Integers, FiniteSets

CONSTANTS
  Thread,        \* the threads that use this queue
  Op,            \* "read" (a QP_READ_SYNC queue) or "write" (QP_WRITE_SYNC)
  MaxSendWr,     \* QP_MAX_SEND_WR
  Slack,         \* the 8 of the back pressure on writes
  PollTarget,    \* what back pressure polls for: 2048 for writes, 8 for reads
  DrainBudget,   \* what drain_queue polls at a time: 16
  NoThread,      \* cq_lock is free
  AllocMayFail,  \* may kmem_cache_alloc fail?
  MapMayFail,    \* may ib_dma_map_page fail?
  PostMayFail,   \* may ib_post_send fail although the send queue has room?
  WcMayFail,     \* may a request complete with an error?
  MaxLeaks       \* bound: failed mappings that are explored

ASSUME QueueAssumption ==
  /\ Op \in {"read", "write"}
  /\ MaxSendWr \in Nat \ {0}
  /\ Slack \in 0 .. MaxSendWr - 1
  /\ PollTarget \in Nat \ {0}
  /\ DrainBudget \in Nat \ {0}
  /\ NoThread \notin Thread
  /\ {AllocMayFail, MapMayFail, PostMayFail, WcMayFail} \subseteq BOOLEAN
  /\ MaxLeaks \in Nat

ASSUME ThreadAssumption == IsFiniteSet(Thread)

VARIABLES
  pending,     \* q->pending
  cq_lock,     \* who holds q->cq_lock
  req,         \* req[t]: how far the request of thread t is
  reqs,        \* the objects allocated from req_cache
  moved,       \* the threads whose page the network has moved
  unlocked,    \* the threads whose page read_done marked up to date, unlocked
  pc,          \* pc[t]: where thread t is
  draining,    \* draining[t]: polls for drain_queue, else for poll_target
  completed,   \* completed[t]: of poll_target
  budget,      \* budget[t]: what ib_process_cq_direct may still process
  cur,         \* cur[t]: the request whose completion handler t runs
  ret          \* ret[t]: the return value is 0

locals == <<draining, completed, budget, cur, ret>>
vars == <<pending, cq_lock, req, reqs, moved, unlocked, pc, locals>>

(* The requests on their way: counted in pending, and using a place of the  *)
(* send queue, which ib_poll_cq gives back.                                 *)
CountedStates == {"counted", "sent", "done", "unmapped"}
Counted == {t \in Thread : req[t] \in CountedStates}
InSendQueue == {t \in Thread : req[t] \in {"sent", "done"}}

Threshold == IF Op = "write" THEN MaxSendWr - Slack ELSE MaxSendWr

Goto(t, label) == pc' = [pc EXCEPT ![t] = label]
SetReq(r, state) == req' = [req EXCEPT ![r] = state]

-----------------------------------------------------------------------------
Init ==
  /\ pending = 0
  /\ cq_lock = NoThread
  /\ req = [t \in Thread |-> "none"]
  /\ reqs = 0
  /\ moved = {}
  /\ unlocked = {}
  /\ pc = [t \in Thread |-> "idle"]
  /\ draining = [t \in Thread |-> FALSE]
  /\ completed = [t \in Thread |-> 0]
  /\ budget = [t \in Thread |-> 0]
  /\ cur = [t \in Thread |-> t]
  /\ ret = [t \in Thread |-> TRUE]

(* frontswap calls with another page, locked and, for a read, not yet up to *)
(* date.                                                                    *)
Call(t) ==
  /\ pc[t] = "idle"
  /\ Goto(t, "check")
  /\ UNCHANGED <<pending, cq_lock, req, reqs, moved, unlocked, locals>>

(* The loop at the head of write_queue_add and read_queue_add. *)
Admit(t) ==
  /\ pc[t] = "check"
  /\ pending < Threshold
  /\ Goto(t, "get")
  /\ UNCHANGED <<pending, cq_lock, req, reqs, moved, unlocked, locals>>

BackPressure(t) ==
  /\ pc[t] = "check"
  /\ pending \in Threshold .. MaxSendWr
  /\ Goto(t, "test")
  /\ UNCHANGED <<pending, cq_lock, req, reqs, moved, unlocked, locals>>

InflightBug(t) ==
  /\ pc[t] = "check"
  /\ pending > MaxSendWr
  /\ Goto(t, "bug")
  /\ UNCHANGED <<pending, cq_lock, req, reqs, moved, unlocked, locals>>

(* get_req_for_page, and atomic_inc at the head of sswap_rdma_post_rdma. *)
GetReq(t) ==
  /\ pc[t] = "get"
  /\ reqs' = reqs + 1
  /\ SetReq(t, "counted")
  /\ pending' = pending + 1
  /\ Goto(t, "post")
  /\ UNCHANGED <<cq_lock, moved, unlocked, locals>>

(* The test looks at the address of the pointer, never at the pointer. *)
AllocFails(t) ==
  /\ AllocMayFail
  /\ pc[t] = "get"
  /\ Goto(t, "bug")
  /\ UNCHANGED <<pending, cq_lock, req, reqs, moved, unlocked, locals>>

FailForgotten(t) ==
  /\ draining' = [draining EXCEPT ![t] = TRUE]
  /\ Goto(t, IF Op = "write" THEN "bug" ELSE "test")
  /\ UNCHANGED <<completed, budget, cur, ret>>

(* An error of write_queue_add meets BUG_ON(ret); one of read_queue_add is  *)
(* returned after the queue is drained.                                     *)
Fail(t) ==
  /\ ret' = [ret EXCEPT ![t] = FALSE]
  /\ draining' = [draining EXCEPT ![t] = TRUE]
  /\ Goto(t, IF Op = "write" THEN "bug" ELSE "test")
  /\ UNCHANGED <<completed, budget, cur>>

(* What is given back to req_cache is the address of the caller's variable  *)
(* (line 662): the request itself stays allocated, and the effect of the    *)
(* free is undefined.  A slab allocator that checks refuses the address and *)
(* the call goes on; one that does not finds no slab there and oopses.      *)
BadFree(t) ==
  /\ Goto(t, "bug")
  /\ UNCHANGED locals

MapFails(t) ==
  /\ MapMayFail
  /\ reqs < Cardinality(Thread) + MaxLeaks
  /\ pc[t] = "get"
  /\ reqs' = reqs + 1
  /\ Fail(t) \/ BadFree(t)
  /\ UNCHANGED <<pending, cq_lock, req, moved, unlocked>>

(* ib_post_send *)
PostSend(t) ==
  /\ pc[t] = "post"
  /\ Cardinality(InSendQueue) < MaxSendWr
  /\ SetReq(t, "sent")
  /\ draining' = [draining EXCEPT ![t] = TRUE]
  /\ Goto(t, "test")
  /\ UNCHANGED <<pending, cq_lock, reqs, moved, unlocked, completed, budget, cur, ret>>

PostFails(t) ==
  /\ pc[t] = "post"
  /\ PostMayFail \/ Cardinality(InSendQueue) >= MaxSendWr
  /\ Fail(t)
  /\ UNCHANGED <<pending, cq_lock, req, reqs, moved, unlocked>>

(* The loops of drain_queue and poll_target. *)
MustPollLate(t) == pending > 1 /\ (draining[t] \/ completed[t] < PollTarget)
MustPoll(t) == pending > 0 /\ (draining[t] \/ completed[t] < PollTarget)

KeepPolling(t) ==
  /\ pc[t] = "test"
  /\ MustPoll(t)
  /\ Goto(t, "lock")
  /\ UNCHANGED <<pending, cq_lock, req, reqs, moved, unlocked, locals>>

StopPolling(t) ==
  /\ pc[t] = "test"
  /\ ~MustPoll(t)
  /\ completed' = [completed EXCEPT ![t] = 0]
  /\ Goto(t, IF draining[t] THEN "return" ELSE "check")
  /\ UNCHANGED <<pending, cq_lock, req, reqs, moved, unlocked, draining, budget, cur, ret>>

LockCq(t) ==
  /\ pc[t] = "lock"
  /\ cq_lock = NoThread
  /\ cq_lock' = t
  /\ budget' = [budget EXCEPT ![t] =
                  IF draining[t] THEN DrainBudget ELSE PollTarget - completed[t]]
  /\ Goto(t, "poll")
  /\ UNCHANGED <<pending, req, reqs, moved, unlocked, draining, completed, cur, ret>>

(* ib_process_cq_direct: run the handler of one completed request after the *)
(* other, until none is left or the budget is used up.  The handlers,       *)
(* sswap_rdma_write_done and sswap_rdma_read_done, log the status and       *)
(* otherwise ignore it; they unmap the page, mark a page read up to date    *)
(* and unlock it, and only then let pending go down.                        *)
PollCqOwnPage(t) ==
  /\ pc[t] = "poll"
  /\ budget[t] > 0
  /\ \E r \in Thread :
       /\ req[r] = "done"
       /\ SetReq(r, "unmapped")
       /\ unlocked' = IF Op = "read" THEN unlocked \cup {t} ELSE unlocked
       /\ cur' = [cur EXCEPT ![t] = r]
  /\ Goto(t, "dec")
  /\ UNCHANGED <<pending, cq_lock, reqs, moved, draining, completed, budget, ret>>

PollCq(t) ==
  /\ pc[t] = "poll"
  /\ budget[t] > 0
  /\ \E r \in Thread :
       /\ req[r] = "done"
       /\ SetReq(r, "unmapped")
       /\ unlocked' = IF Op = "read" THEN unlocked \cup {r} ELSE unlocked
       /\ cur' = [cur EXCEPT ![t] = r]
  /\ Goto(t, "dec")
  /\ UNCHANGED <<pending, cq_lock, reqs, moved, draining, completed, budget, ret>>

UnlockCq(t) ==
  /\ pc[t] = "poll"
  /\ budget[t] = 0 \/ \A r \in Thread : req[r] # "done"
  /\ cq_lock' = NoThread
  /\ budget' = [budget EXCEPT ![t] = 0]
  /\ Goto(t, "test")
  /\ UNCHANGED <<pending, req, reqs, moved, unlocked, draining, completed, cur, ret>>

DoneDecTwice(t) ==
  /\ pc[t] = "dec"
  /\ pending' = pending - 2
  /\ SetReq(cur[t], "none")
  /\ Goto(t, "free")
  /\ UNCHANGED <<cq_lock, reqs, moved, unlocked, locals>>

DoneDecDropped(t) ==
  /\ pc[t] = "dec"
  /\ SetReq(cur[t], "none")
  /\ Goto(t, "free")
  /\ UNCHANGED <<pending, cq_lock, reqs, moved, unlocked, locals>>

DoneDec(t) ==
  /\ pc[t] = "dec"
  /\ pending' = pending - 1
  /\ SetReq(cur[t], "none")
  /\ Goto(t, "free")
  /\ UNCHANGED <<cq_lock, reqs, moved, unlocked, locals>>

DoneFreeDropped(t) ==
  /\ pc[t] = "free"
  /\ budget' = [budget EXCEPT ![t] = @ - 1]
  /\ completed' = IF draining[t] THEN completed ELSE [completed EXCEPT ![t] = @ + 1]
  /\ cur' = [cur EXCEPT ![t] = t]
  /\ Goto(t, "poll")
  /\ UNCHANGED <<pending, cq_lock, req, reqs, moved, unlocked, draining, ret>>

DoneFree(t) ==
  /\ pc[t] = "free"
  /\ reqs' = reqs - 1
  /\ budget' = [budget EXCEPT ![t] = @ - 1]
  /\ completed' = IF draining[t] THEN completed ELSE [completed EXCEPT ![t] = @ + 1]
  /\ cur' = [cur EXCEPT ![t] = t]
  /\ Goto(t, "poll")
  /\ UNCHANGED <<pending, cq_lock, req, moved, unlocked, draining, ret>>

(* The call returns; its locals and its page are gone. *)
Return(t) ==
  /\ pc[t] = "return"
  /\ moved' = moved \ {t}
  /\ unlocked' = unlocked \ {t}
  /\ ret' = [ret EXCEPT ![t] = TRUE]
  /\ draining' = [draining EXCEPT ![t] = FALSE]
  /\ Goto(t, "idle")
  /\ UNCHANGED <<pending, cq_lock, req, reqs, completed, budget, cur>>

(* The network adapter: moves the page and puts a completion in the queue,  *)
(* or only reports an error there.                                          *)
Complete(r) ==
  /\ req[r] = "sent"
  /\ SetReq(r, "done")
  /\ moved' = moved \cup {r}
  /\ UNCHANGED <<pending, cq_lock, reqs, unlocked, pc, locals>>

CompleteInError(r) ==
  /\ WcMayFail
  /\ req[r] = "sent"
  /\ SetReq(r, "done")
  /\ UNCHANGED <<pending, cq_lock, reqs, moved, unlocked, pc, locals>>

ThreadStep(t) ==
  \/ Admit(t) \/ BackPressure(t) \/ InflightBug(t)
  \/ GetReq(t) \/ AllocFails(t) \/ MapFails(t)
  \/ PostSend(t) \/ PostFails(t)
  \/ KeepPolling(t) \/ StopPolling(t)
  \/ LockCq(t) \/ PollCq(t) \/ UnlockCq(t)
  \/ DoneDec(t) \/ DoneFree(t)
  \/ Return(t)

Next ==
  \E t \in Thread :
    \/ Call(t)
    \/ ThreadStep(t)
    \/ Complete(t)
    \/ CompleteInError(t)

Spec == Init /\ [][Next]_vars

(***************************************************************************)
(* A thread inside the queue keeps running, the adapter completes every    *)
(* request it was given, and cq_lock is a queued spin lock: who waits for  *)
(* it gets it.  Nothing makes frontswap call.                              *)
(***************************************************************************)
FairSpec ==
  /\ Spec
  /\ \A t \in Thread : /\ WF_vars(ThreadStep(t))
                        /\ SF_vars(LockCq(t))
                        /\ WF_vars(Complete(t) \/ CompleteInError(t))

-----------------------------------------------------------------------------
TypeOK ==
  /\ pending \in Nat
  /\ cq_lock \in Thread \cup {NoThread}
  /\ req \in [Thread -> CountedStates \cup {"none"}]
  /\ reqs \in Nat
  /\ moved \subseteq Thread
  /\ unlocked \subseteq Thread
  /\ pc \in [Thread -> {"idle", "check", "get", "post", "test", "lock", "poll",
                        "dec", "free", "return", "bug"}]
  /\ draining \in [Thread -> BOOLEAN]
  /\ completed \in [Thread -> 0 .. PollTarget]
  /\ budget \in [Thread -> Nat]
  /\ cur \in [Thread -> Thread]
  /\ ret \in [Thread -> BOOLEAN]

(* pending is the number of requests on their way (multiswap_rdma.h:47),    *)
(* although it goes up before the request is posted and down in a handler   *)
(* that another thread may run.                                             *)
PendingExact ==
  pending = Cardinality({t \in Thread : pc[t] = "post"} \cup
                        (Counted \ {t \in Thread : req[t] = "counted"}))

(* drain_queue waits for the shared counter, not for the caller's own       *)
(* request; even so, when a call returns the adapter is done with its page  *)
(* and nothing maps it any more.                                            *)
DrainCoversOwn ==
  \A t \in Thread : pc[t] \in {"return", "idle"} => req[t] = "none"

(* A call that returns 0 has moved its page, whoever polled the completion: *)
(* sswap_store and sswap_load have no other way of telling that a page      *)
(* "could not" be written or read (multiswap.c:95-96, 139-140).             *)
ReturnMeansMoved ==
  \A t \in Thread : pc[t] = "return" /\ ret[t] => t \in moved

(* read_done never marks up to date, nor unlocks, a page whose data has not *)
(* arrived.                                                                 *)
UnlockedMeansMoved == unlocked \subseteq moved

(* "can't send more than QP_MAX_SEND_WR at a time" and "only valid case is  *)
(* ==" (lines 779-782): the check of pending and the post are not atomic,   *)
(* yet no post finds the send queue full and no BUG_ON is met.              *)
SendQueueHasRoom ==
  \A t \in Thread :
    /\ pc[t] = "post" => Cardinality(InSendQueue) < MaxSendWr
    /\ pc[t] # "bug"

(* Every object of req_cache belongs to a request that is being posted, is  *)
(* on its way, or has gone down in pending and is about to be freed by its  *)
(* handler, which another thread may run: no call leaves one behind.  So it *)
(* is while mappings and posts succeed, whatever status a request completes *)
(* with (lines 530-531, 553-554, 652).                                      *)
NoRequestLeaks ==
  reqs = Cardinality({t \in Thread : \/ req[t] \in CountedStates \ {"counted"}
                                     \/ pc[t] = "post"})
           + Cardinality({t \in Thread : pc[t] = "free"})

(* Once frontswap makes no further calls, every call returns: no lost       *)
(* decrement of pending and no forgotten lock keeps a thread polling.       *)
CallsReturn ==
  <>[][\A t \in Thread : ~Call(t)]_vars => \A t \in Thread : <>[](pc[t] = "idle")

-----------------------------------------------------------------------------
(***************************************************************************)
(* The refinement mapping: a moved page is released once its handler has   *)
(* unmapped it and, for a read, unlocked it.                               *)
(***************************************************************************)
Released(t) ==
  /\ req[t] \in {"unmapped", "none"}
  /\ Op = "read" => t \in unlocked

phaseMapping ==
  [t \in Thread |->
     IF t \in moved THEN IF Released(t) THEN "released" ELSE "moved"
     ELSE IF pc[t] = "idle" THEN "idle"
     ELSE IF ret[t] THEN "called" ELSE "refused"]

Promise == INSTANCE PageTransfer WITH Caller <- Thread, phase <- phaseMapping

(* sswap_rdma_write and sswap_rdma_read_sync (multiswap_rdma.c:790-872) are *)
(* one-sided transfers as the handlers take them to be, whichever thread    *)
(* polls the completion and whatever of mapping and post fails, as long as  *)
(* no request completes with an error.  A call that oopses never returns.   *)
TransfersPages == Promise!Spec
=============================================================================
