# A verification development for multiswap

multiswap lets a Linux compute node swap to the memory of several other
machines.  When the kernel swaps a page out, frontswap calls the kernel module
`multiswap`; that asks the module `remote_schedule` for a place (a memory node
and an offset) and has the module `multiswap_rdma` write the page there with a
one-sided RDMA write.  Swapping in looks the place up and reads it back.  The
memory nodes run `rmserver`, which registers a buffer, accepts the connections,
tells the compute node where the buffer is, and takes no part afterwards.

This directory holds TLA+ modules translated from that code, the TLC
configurations that check them, and theorems about them that TLAPS proves.
Paths below are relative to `src/`.

## 1. Inventory

### Remote scheduler: `dev-rdma/remote_schedule.c`, `.h`

* State: per memory node an array of bitmaps (`remote_map`), each with 2^14
  bits, a spin lock and a free counter; one XArray per 2^14 page ids
  (`remote_spaces`) that maps a swap page id to `slot << 4 | node`.
* Operations: `sswap_scheduler_write` (give back the old slot, scan for a free
  one, install the mapping, fall back to the other node), `sswap_scheduler_read`.
* Called by the frontswap handlers in the context of the swapping thread, on all
  processors at once.
* Hard: a store is a sequence of separately locked steps; the scan sees one map
  at a time; `mapping_full` is sticky; `xa_store` can fail.
* Correct when: bitmaps, counters, XArray and running calls agree on who owns
  which slot; no slot has two owners; a transfer goes to the slot of its page;
  a node is never reported full while it has room; offsets stay inside the
  server's buffer.

### Frontswap handlers: `dev-rdma/multiswap.c`

* State: none of its own.  The kernel's frontswap records which page ids were
  stored with success and loads only those.
* Operations: `sswap_store`, `sswap_load`, `sswap_invalidate_page`,
  `sswap_invalidate_area`, `sswap_init`; a compile-time choice among five
  placement strategies (`USE_SCHEDULE` as shipped); registration with frontswap
  when the module is inserted.
* Hard: registration is never undone; what the handlers refuse goes to the swap
  device while an older copy stays behind.
* Correct when: a load returns what the last store of that page id wrote, and the
  kernel never calls handlers whose module is gone.

### RDMA queues, data path: `dev-rdma/multiswap_rdma.c` 516-590, 637-816, 851-872

* State, per queue pair: the counter `pending`, `cq_lock`, the completion
  queue; the slab cache of requests.
* Operations: `sswap_rdma_write`, `sswap_rdma_read_sync`, the completion
  handlers `sswap_rdma_write_done` and `sswap_rdma_read_done`.
* Hard: several threads inside one queue; completion handlers run by whichever
  thread polls; waiting for a shared counter; failures of the allocation, the
  mapping and the post.
* Correct when: a call returns only after its own request is done, `pending` is
  exact, a page is unlocked only after its data arrived, nothing leaks, every
  call returns.

### Connection set-up, compute node: `dev-rdma/multiswap_rdma.c` 78-491, 592-635, 671-710, 818-848, 874-1016

* State: per memory node a controller with `3 * numcpus` queues, each with a
  connection id, an error code, a completion; the list of controllers.
* Operations: connect the queues one after the other, each driven by the
  connection manager's events; receive the memory region from the server; tear
  everything down after a failure.
* Hard: the connection manager's thread against the waiting one; a time-out
  that races a late event; errors inside the event handler; partial failure.
* Correct when: a controller is used only if every queue is connected and the
  region has arrived, and a queue torn down is never touched again.

### Memory server: `farmemserver/rmserver.c`

* State: 18 queues with a state, `queue_ctr`, the registered buffer.
* Operations: an event loop over connection requests, establishments and
  disconnects; sends the memory region over queue 0.
* Hard: it counts events, not connections; `queue_ctr` only grows.
* Correct when: the region is sent exactly once, over the queue the client
  listens on; a queue accepts one connection at a time; it keeps its buffer as
  long as a client uses it.

### DRAM backend: `dev-rdma/multiswap_dram.c`

An alternative to `multiswap_rdma`, and what a plain `make` builds: it copies to
one local `vzalloc` area (`drambuf`) and does not look at the node it is given.
Correct when no two pages share a place in the area and the area is there.

### User programs: `User/client.c`, `User/server.c`

A user-space exercise of the connection manager.  A client connects, the server
sends it a message, the client's poller thread prints it and disconnects, and
the event loops of both free what belongs to the connection.

* State: a context per process, a connection per client at either end, whatever
  is in the completion queues.
* Hard: poller against event loop; every surprise is `die()`, and one server
  process serves everybody.
* Correct when: the poller never meets a freed connection, a client exits with
  its message, everybody ends, and an orderly client never ends the server.

### Not part of the program's logic

`test/` (page walkers, the mbw and STREAM benchmarks), measurement results,
switch and shell scripts, documents, images, and the kernel submodule (an empty
directory here).

## 2. Plan

Done, in the order of importance (the first three are the path every swapped
page takes):

1. `RemoteSchedule`, `RemoteSchedule_proofs`: where a page goes.
2. `PageTransfer` (what a transfer promises), `RdmaQueue` (refining it),
   `RdmaQueue_proofs`: how the page gets there.
3. `SwapStore` (the promise), `Multiswap` (handlers, scheduler and memory
   composed, refining it), `Multiswap_proofs`.
4. `CmLink`, `RdmaConnect`, `RmServer`, composed in `Cluster`, `Cluster_proofs`:
   how the connections come about and go away, over one load or several.
5. `SchedulerLoad`, `SchedulerLoad_proofs` (insertion and removal of the
   scheduler), `SwapNode`, `SwapNode_proofs` (loader, handlers with the strategies
   that compute a place, both backends' memory, the kernel's swap device, refining
   `SwapStore`), `DramSwap` (the scheduler over the DRAM backend).
6. `UserPingPong`, `UserPingPong_proofs`: the two user programs.

Next, in this order:

7. `Multiswap` over `PageTransfer` in one module: calls that name the queue of the
   processor they run on, and the refinement of `SwapStore` from the transfer's own
   steps instead of a transfer in one.
8. What is left of `TransfersPages` when requests complete in error, as a weaker
   promise than `PageTransfer`: the page may not have moved, but it does not move
   later either.
9. A connection lost after the load: the calls that meet it end in an error
   completion.

## 3. The modules and the code

Names in the modules are the code's where TLA+ allows it.  An operator whose
name says how it is wrong (`RetryForever`, `DoneDecTwice`, ...) is not part of
the model: it is the form a plausible bug would give to the definition that
follows it, used to show that the properties notice.

### `RemoteSchedule`

`remote_schedule.c`.  `mapping` and `free_pages` are the bitmaps and counters,
`i_pages` is the XArray with its packed words, `frontswap` is the kernel's own
record of what it has stored.  The kernel swaps with the page locked, so calls
are indexed by page id: `pc[p]` and `call[p]` are the program counter and local
variables of the call on page id `p`.

| action | code |
|---|---|
| `SchedulerWrite` | entry of `sswap_scheduler_write`: the node by parity |
| `ClearOldMapping`, `NoOldMapping` | `sswap_add_mapping`, 145-160 |
| `TakeSlot`, `SkipMap` | one iteration of `sswap_select_slot`, under one map's lock |
| `OverrunMap` | the counter says there is a free slot and no bit is zero: `set_bit` past the end, 105-111 |
| `FallBack`, `GiveUp` | all maps full: 163-166, 245-258 |
| `InstallMapping`, `InstallFails` | `xa_store`, 173 |
| `StoreReturns`, `LoadReturns` | the handler after its transfer |
| `SchedulerRead` | `sswap_get_mapping` |
| `InvalidatePage` | `sswap_invalidate_page`, which does nothing |

An action is what happens between two moments where another processor can
interfere: one critical section of a map's lock, or one XArray access.
After `OverrunMap` the machine's memory is not what the program made it, and the
model stops (`MemoryIntact`): nothing is claimed of what the code does from there.

### `SwapStore` and `Multiswap`

`SwapStore` is the promise in six actions: `stored[p]` is what swapping in page
id `p` brings back.  Swapping out gives up the old copy at once and has the new
one when it returns; swapping in is possible only while something is stored and
ends with the page equal to what is stored.

`Multiswap` adds to the scheduler the memory of the nodes (`remote`), the page
of each running call (`page`) and the set of calls whose transfer the adapter has
done (`moved`).  `WriteRemote` and `ReadRemote` are the one-sided transfers: they
take place at one moment of the call, and the call returns after them
(`PageTransfer`, below).  An offset of `REMOTE_BUF_SIZE` or more is
refused without a transfer, as in lines 799 and 853 of `multiswap_rdma.c`.

The refinement mapping: `stored[p]` is the content of the slot that `p`'s XArray
word names if frontswap has a record of `p`, else `Blank`; `busy[p]` is "in"
during a load and "out" during a store.  Placing a page and writing it are steps
`SwapStore` does not see; the new content becomes `stored` when the store returns.

### `PageTransfer` and `RdmaQueue`

One queue pair and all threads that use it.  A thread has at most one request in
flight, so a request is named by its thread: `req[t]` is "counted" (in `pending`,
not yet posted), "sent", "done" (completed, not yet polled), "unmapped" (its
handler is half-way) or "none".  `pc[t]` walks through `read_queue_add` or
`write_queue_add`, `sswap_rdma_post_rdma` and then `drain_queue`; the polling
loop is shared by `drain_queue` and `poll_target` and `draining[t]` says which of
them runs it.  Each handler is three steps (`PollCq`: unmap, mark up to date and
unlock; `DoneDec`: the decrement; `DoneFree`: the free), because other threads
read `pending` between them.
A failed mapping hands the slab allocator a wrong address (line 662): a checking
allocator refuses it (`Fail`), another one oopses (`BadFree`); in both the request
stays allocated, which `reqs` counts.

`PageTransfer` is what the handlers take one call of `sswap_rdma_write` or
`sswap_rdma_read_sync` to be: it begins, its page moves at one moment, the page is
let go, the call succeeds; or it is refused, moves nothing and reports that.
The refinement mapping of `RdmaQueue` reads a call's phase off `moved` first, so
that a page that moved before or after its call, twice, or in a call that fails
would not be a step of `PageTransfer`; the page is "released" when its handler has
unmapped it and, for a read, unlocked it.

### `CmLink`, `RdmaConnect`, `RmServer`, `Cluster`

`CmLink` is what the two ends share: the set of messages the compute node's
manager has sent for each connection (any order, none lost for good), the
server's end of each, and the regions sent.  `RdmaConnect` is the compute node:
the thread in `sswap_rdma_init_module` (one action per step of
`sswap_rdma_init_queue`, of the wait, of the cleanup) and the event handler (one
action per event and outcome).  `RmServer` is the server's process: its handlers,
each followed by what the loop in `main` does with their result (`Count`,
`Leave`).  `Cluster` interleaves the two.

A connection is named by node, queue and load.  `LoadAgain` is a further `insmod`
after a load that failed or an unload: the module's data is new; what an earlier
load lost of the adapter's resources (`cq`, `qp`, and the devices with their pd,
`rdev`, which nothing ever frees) is still there.  Plain memory is not modelled.
`NoMemory` is an allocation whose failure is not noticed (681, 999): `insmod` dies
with a null pointer and the module stays half loaded.  The servers know nothing of loads: `queue_ctr`
goes on counting unless the operator starts the process again (`StartServer`).
Past the end of the array of queues anything may lie: the accesses there find a
queue in state `INIT` (`OnConnectRequest`) or end the process (`OverrunDies`).
The requests of a later load reach a server after those of the earlier ones.

### `SchedulerLoad`

`remote_schedule.c` from `insmod` to `rmmod`.  Each object that `kvcalloc`
returned is a member of `heap`, named by the insertion and the node it was for;
`remote_map` is the set of nodes whose pointer is set.  Each allocation is a
step that may fail; `DeleteBitmap` is the loop at the label of that name, which
`AllocSpacesFails` falls through to.

### `SwapNode`

The compute node as its operator and its kernel see it.  `InsertBackend`,
`InitSswap`, `ExitSswap`, `RemoveBackend` and the steps of `SchedulerLoad` are
what the four scripts run, in any order the loader allows and each possibly
failing; `ops` is frontswap's pointer to the handlers, which `exit_sswap` does not
take back ("stale").  `SswapStore` and `SswapLoad` are the handler and the backend's
copy in one step: in this module no two pages share anything but the loader's
state.  `SwapWrite` and `SwapRead` are the kernel's own device, for what the
handlers refuse.  `oops` is a call of handlers that are gone or a copy to a
buffer that `vzalloc` did not give; the machine stops there.

`CarefulOperator` says whether modules are removed only with swapping off, and
swapping goes on only if multiswap is inserted or frontswap has no handlers yet.
Nothing in the scripts sees to that (`rmmod.sh:3` does not swap off, `insmod.sh:6`
does not look whether the insertion failed).  `node_modules` and the theorems that
say so assume it.  Without it the next page swapped after a removal is an oops at
once (section 6).

Refinement: what is stored for a page is what its place holds if frontswap has a
record of it, else what the device holds.  Pages that the compute node accepts
and a memory node does not own (`Lost`) are mapped to pages never touched.

### `DramSwap`

`Multiswap` with the two transfers replaced by the DRAM backend's copies, which
ignore the node.  `kept` remembers what each store that succeeded was given.

### `UserPingPong`

| actions | code |
|---|---|
| `AddrResolved`, `RouteResolved`, `Established`, `OnDisconnect`, `UnknownEvent`, `MainReturns` | the client's event loop, one per event |
| `PollCq`, `PrintMessage`, `Disconnect` | the client's poller in `on_completion`: between them the event loop may run |
| `OnConnectRequest`, `OnConnection`, `ServerOnDisconnect` | the server's event loop |
| `ConnectRequestDies`, `ServerUnknownEvent`, `ServerPollsError` | the server's ways into `die()` |
| `Deliver`, `SendFails` | the adapters |
| `Killed` | a client ends at any point; its manager closes what was open (`Retract`) |

Calls wrapped in `TEST_NZ` and `TEST_Z` are taken to succeed, but for
`rdma_accept` of a request that was taken back: a failure of the others is the
same `die()` at a place where nothing of the other side depends on it.  Memory
that the client frees while its process goes on is "freed"; a process that has
ended runs no poller.  `Deliver` is the delivery and its acknowledgement in one
step, so a message that arrived is never reported to the server as lost.

## 4. What the runs check

| run | module | expected | question |
|---|---|---|---|
| `sched_scan` | `RemoteSchedule` | holds | do bitmaps, XArray and running calls agree, and is no node ever reported full and no map overrun? |
| `sched_nomem` | `RemoteSchedule` | holds | what still holds when `xa_store` fails, until a bitmap is overrun? |
| `sched_unmapped` | `RemoteSchedule` | violated | is every stored page mapped? (section 6) |
| `queue_write` | `RdmaQueue` | holds | is `pending` exact, does every call return and leave no request behind, also with error completions? |
| `queue_errors` | `RdmaQueue` | holds | is each call a transfer, its page safe from the adapter and no success reported early, when allocation, mapping and post fail? |
| `queue_overrun` | `RdmaQueue` | violated | does back pressure protect the send queue? (section 6) |
| `conn_load` | `Cluster` | holds | do load and unload work, whatever fails and in whatever order? which queue pairs and completion queues does a failed load leave? |
| `conn_reload` | `Cluster` | holds | what does a second load meet? |
| `swap_refine` | `Multiswap` | holds | does a load return what was stored? |
| `dram_alias` | `DramSwap` | violated | may the DRAM backend be used with the scheduler? (section 6) |
| `node_modules` | `SwapNode` | holds | do pages, handlers and heap survive the life cycle of the modules, in every build, with a careful operator? |
| `user_pingpong` | `UserPingPong` | holds | does every client get its message and end, and what ends the server? |

**Bounds, and why they are enough.**

* `sched_scan`: four maps of two slots, four page ids that all belong to node 0,
  four processors.  Two slots per map is the least with which "the first zero
  bit" means anything; four concurrent calls are as many as there are page ids,
  so every set of calls can be in the scan at once; four page ids occupy as many
  slots as the pressure argument allows.  Node 1 behaves alike and is left empty.
* `swap_refine`: one slot per map and four page ids over both nodes, two
  processors, two contents.  The servers own two pages while the compute node
  believes in four, so that `WithinServerBuffer` is tight.  Two page ids of the
  same node with two contents suffice for one page to overwrite or be read for
  another; the second pair lets calls on different nodes interleave.
* `sched_nomem` and `sched_unmapped`: two maps of one slot, two page ids.
  Repeated failures of one page id fill a node by themselves.
* `queue_write`: three threads, three places, back pressure that starts at two:
  a thread can poll for a second one while a third waits for `cq_lock`, and
  threads pass the check, wait in `poll_target` and drain at the same time.  A
  completion budget of two makes the polling loop stop both by its budget and by
  an empty queue.  Requests may complete in error, which changes nothing for
  these properties.
* `queue_errors`: one place for three threads: the second post can fail because the
  queue is full, the third thread can find `pending` above the limit, each can
  poll for another, and every other failure can come with it.  What a longer queue
  would add is proved (section 5).
  That `DrainCoversOwn` holds there too is a theorem (`CallsDrainTheirOwn`).  `MaxLeaks` bounds the number of
  failed mappings explored (each leaks one request object); it is the only
  counter that would otherwise grow for ever.
* `conn_load`: two nodes and three queues each, one load.  Two nodes are needed
  for a failure with a controller already on the list; three queues (one
  processor with each type) for a failure with more than one earlier queue in
  the same controller, which is where the cleanup's indices matter.
* `conn_reload`: one node, two queues, a server of two queues, two loads
  (`MaxLoads`): the second load's requests already run past the array when the
  server was left alone.  A third load meets nothing that the second does not.
  `ReadyMeansUsable` is left to `conn_load`, since two queues are no processor's
  worth.
* `node_modules`: a buffer of six pages, servers of three, the 4 GB of
  `COARSE_GRAINED` at three (buffer and 4 GB are in the proportion of the source),
  page 2 (always in reach, node 1 when fine grained), page 3 (exactly at 4 GB) and
  page 6 (refused); two contents, so that an old copy differs from a new one; two
  insertions of the scheduler with two maps per node.
* `dram_alias`: one page id per node is enough.
* `user_pingpong`: two clients and two devices.  Clients only affect each other
  through the server's death and its one device, for which two are enough (three
  clients gave the same result in 413,572 states).  The completion queue of ten
  never fills with so few (`ExerciseAssumption`).

Of the runs that pass, deadlock is checked in `sched_scan`, `swap_refine` and
`queue_write`.  It is not in `sched_nomem`, where an overrun bitmap stops the model,
in `queue_errors`, where a thread that meets `BUG_ON` stays there for good, in
`conn_*`, where a failed or unloaded module is the end, in `user_pingpong`, where all
clients end, nor in `node_modules`, where an oops stops the machine.

**Fairness.**

* `RemoteSchedule`: a call that has started keeps going (weak fairness of its own
  steps).  It runs in a kernel thread that holds the page lock, takes spin locks
  for a few instructions and waits for no other call.  Nothing makes the kernel
  start a call.
* `RdmaQueue`: weak fairness of a thread's steps and of the adapter's completion
  of each posted request; strong fairness of `LockCq`, because `cq_lock` is a
  queued spin lock and a waiter gets its turn although other threads take it
  again and again.  `CallsReturn` is stated for the case that the kernel stops
  calling: `drain_queue` waits for a counter shared by all threads and may wait
  for ever if others keep it above zero.
* `Cluster`: the loading thread runs, a wait ends at the latest by its timer, the
  connection manager reports the outcome of each request it was given, the
  server's loop handles the events it gets.  Nobody has to unload, to load again
  or to start a server again.  `LoadEnds` says exactly when `insmod` does not
  return: when it polls for the region of a server that has served another load or
  has ended, or when it dies for want of memory.
* `UserPingPong`: the event loops and pollers, which block in the library until
  something is there; an adapter ends every work request of a living server.
  Nobody is ever killed for fairness' sake.

## 5. What is proved

TLAPS checks the seven proof modules to the last leaf, for every value of the
constants that satisfies the named assumptions of the modules.  Every safety
invariant and every refinement that a passing run checks is among the theorems;
only liveness is left to TLC (end of this section).

**Scheduler** (`RemoteSchedule_proofs`, from `SizesAssumption`; and
`ServerAssumption` for the server's buffer).  `TypeCorrect` and `FullMapsAreFull`
hold whatever fails, as long as no bitmap has been overrun.  For the latter the invariant is `CountersCover`: a counter is
at least the number of zero bits.  Once `xa_store` has failed, the XArray may
name a slot that was given back before, and giving it back again makes the counter
too large (which is how a bitmap comes to be overrun); it never becomes too small.
The other theorems assume that `xa_store`
cannot fail (`XaMayFail = FALSE`; with it they are false, see `sched_unmapped`):
`BitmapsExact`, `CountersExact`, `MapsNotOverrun`, `SlotsExclusive`, `TransfersOwnTheirSlot`,
`StoredPagesMapped`, `NodesNeverFull`, `PressureBounded`, `ServerBufferRespected`.

The inductive invariant `IInv` joins exactness (a bit is set iff the slot has an
owner; a counter is the number of clear bits; no slot has two owners; a transfer
uses its owner's slot) with `ScanPressure`.  Exactness alone cannot show that no
scan fails: the scan looks at one map at a time, so all maps may look full
although none is at the end.  `ScanPressure` says that for every slot number `j`
the number of page ids at or above `j` (by their slot, or by where their scan has
got to), plus `j`, is at most the number of page ids of the node.  It
survives a step of the scan, because a map that is passed over is full and its
`SpacePages` owners are below the next map, and it gives both results: nobody can
be past the last slot, and nobody is above the lower half of the buffer.

**Handlers** (`Multiswap_proofs`).  `Refinement`: `MultiswapSpec => Implements`,
with the same assumption on `xa_store` and `DataAssumption`.  The invariant `MInv` adds
to `IInv`, for each page id: a transfer is "done" only while its call runs; a
page being stored has a content and no record in frontswap; once written, its
slot holds it; a recorded page's slot holds a content, and a load that is done
has brought it.  The heart is `OtherSlotsKept`: writing one page's slot changes
nobody else's, which is `NoSharedSlot` applied to a page being written and a page
that is recorded or being moved.  `TransferAccepted` derives from `ScanPressure`
that no offset is refused, and `HandlersRespectBuffer` that none is beyond what
the server owns.

**Queue** (`RdmaQueue_proofs`, from `QueueAssumption` and a finite set of
threads).  Invariant `QInv`: only the holder of `cq_lock` polls, and the request
whose handler it runs is in the state in between; where a thread is determines
what its request can be; `pending` is the number of requests on their way.

| theorem | holds as long as |
|---|---|
| `TypeCorrect`, `CallsDrainTheirOwn` | (always, whatever fails) |
| `PendingIsExact` | posts cannot fail, no more threads than places |
| `SuccessMeansMoved`, `UnlockedPagesArrived`, `Refinement` | no request completes with an error |
| `RequestsFreed` | mappings and posts cannot fail, no more threads than places |
| `FewThreadsNeverOverrun` | no other failure, no more threads than places |

The last one gives the exact reach of the finding of `queue_overrun`: what keeps
the send queue from overflowing is the number of threads, not the check.
`Refinement` is `Spec => TransfersPages`; besides `QInv` it needs `Moves`: a request
that the adapter has belongs to a call that drains and has not failed, a moved
page's request is past the adapter, and a read's page is unlocked once its request
is unmapped.

**Connections** (`Cluster_proofs`, for any number of nodes, queues and loads,
whatever fails or times out; from `LinkAssumption` and `ProcsAssumption`).
`ClusterTypeCorrect`, `ReadyModuleIsUsable`, `ReadyNeedsFreshServers`,
`BufferStays`, `StopsAreOfConnectedQueues`, `FailedLoadsDisconnect`,
`AtMostOneQueueStays`, `ServerQueuesNotShared`.  The invariant `CInv` has a half for each
end.

* `ClientInv`: queues are made in order, so `Position` cuts them in three at the
  place of the loading thread: those before it are connected, those behind it
  untouched, and only the one at it may be anything in between (`QueuesOK` says
  which of them have a queue pair).  The cleanup takes a list of queues (`StopOK`:
  connected, of this load, each once); what is not on the list any more has been
  destroyed.  `LeftOfOldLoads`: of an earlier load at most one queue is left.
* `ServerInv`: `queue_ctr` is the number of connections that have been given a
  queue, and the queues from there on are in `INIT` (`ContextOK`, `CountersOK`), so a
  queue is given out once; a load's connections come after those of the loads
  before it (`LoadsInOrder`); a region that was sent to the current load went over
  queue 0 (`RegionsFromQueue0`), so a load that has received it is the first that this
  server serves; and a server whose queue 0 belongs to a load in progress or ready
  is there with its buffer (`ServersStay`).  `MessagesOK` ties the halves together:
  which messages there can be for a connection in each state of the client's queue.

**Modules and their memory** (`SchedulerLoad_proofs`, `SwapNode_proofs`, from
`LoadAssumption` and `NodeAssumption`; any number of maps, pages and insertions).
`SchedInv` says for each place in `init_scheduler` what is on the heap and which
pointers are set (`Progress`), and that an insertion that is over has left at most a
part of one node's maps (`LeftBehind`); `SchedulerMemorySound` carries it over to
`SwapNode`, whose other steps leave the scheduler alone.  That and `NodeTypeCorrect`
hold for any operator, the other two for a careful one.  `NodeInv` adds `HandlersOK`
(while swapping is on, frontswap's handlers are those of an inserted module or
none; what is on record has handlers and a buffer behind it), which gives
`CarefulOperatorsOnlyLackBuffers`, and `ContentOK` (where the swapping of a page
stands tells where its content is).  `Refinement` (`KeepsPages`) then has one step per
operation; a store that the handlers refuse leaves no record, so the kernel's
device, and not the old copy, is what is loaded.

**User programs** (`UserPingPong_proofs`, from `ExerciseAssumption`; any finite set of
clients).  `TypeCorrect`, `PollerHasConnection`, `NoExitBeforeMessage`,
`ServerDeathsExplained`.  `UInv` relates, for each client, how far its event loop is,
what its poller does, what its connection manager has said, and how far the
server's message is.

**Only model-checked.**  The liveness properties `StorePlaced`, `CallsReturn`,
`LoadEnds`, `UnloadEndsServers`, `ClientsEnd` and `ServerFrees`: liveness under
fairness is out of this prover's reach, as is `ENABLED`.  No module declares a
recursive operator and no theorem needs an induction over data, which the
installed provers could not do.

## 6. Where the code disagrees with what it says

Three runs end in a counterexample that the code really takes.

1. `sched_unmapped`: `sswap_add_mapping` ignores a failure of `xa_store`
   (`remote_schedule.c:173`).  The page counts as stored, its slot stays taken,
   and a later load finds no mapping, which line 197 calls a failure and
   `VM_BUG_ON(1)` rules out; the load then reads slot 0 of node 0.
2. `queue_overrun`: the check of `pending` and its increment are not atomic
   (`multiswap_rdma.c:781` and 582), so more threads than places pass it
   together; "can't send more than QP_MAX_SEND_WR" is not ensured by it.
3. `dram_alias`: the comment at `multiswap.c:19` says to set `NUM_SERVERS` to 1 for
   the DRAM backend.  Nothing uses `NUM_SERVERS`; with `USE_SCHEDULE` the scheduler
   still hands out slots of two nodes and the backend puts both in one buffer, so
   a page with an even id and one with an odd id overwrite each other.  The
   strategy `USEDRAM` (or any other but the scheduler) keeps its pages
   (`node_modules`); `make` without `BACKEND` builds the other combination.

Met while modelling, in the models as they are in the code (unless the entry says
otherwise), and without a run of their own:

* `mapping_full` is set by the first attempt and not reset before the second
  (`remote_schedule.c:164`, 245-258), although line 163 says "no available slot, find
  another type": a slot that the other node grants stays taken, is neither installed
  nor returned, and the page goes to offset 0, over whatever lies there (`TakeSlot`).
  `NodesNeverFull` shows that this code is reached only after failures of `xa_store`.
* `get_req_for_page` "deallocates the request if there was an error"
  (`multiswap_rdma.c:641`).  If `ib_dma_map_page` fails it frees the address of the
  caller's variable instead (662), so the request is lost and the allocator gets an
  address that is none of its own (`MapFails`).  The check at 649 tests the
  variable's address too, which is never null (`AllocFails`).
* multiswap's handlers stay registered after `rmmod` (`multiswap.c:192`), `rmmod.sh`
  does not swap off first, and `insmod.sh:6` does not look whether multiswap was
  inserted: the next page swapped is given to code that is gone.  For the same reason
  multiswap cannot be inserted again before the machine is restarted.
  `CarefulOperatorsOnlyLackBuffers` says what holds for an operator who takes care.
* Once `xa_store` has failed, the XArray may still name a slot that was given back,
  and giving it back again makes the counter of its map too large.  A scan then
  trusts the counter, finds no zero bit, and `set_bit` writes past the end of the
  bitmap (`remote_schedule.c:105-111`); the slot that results may be one past the
  last map, whose lock and counter `sswap_add_mapping` would then use.  The model
  stops at the write (`OverrunMap`); `MapsNotOverrun` shows that it takes a failure
  of `xa_store`.
* A work request that completes with an error is treated as done
  (`multiswap_rdma.c:516-556`): the read returns 0 and the page is marked up to
  date although nothing arrived.  `SuccessMeansMoved` therefore assumes that no
  request completes in error.
* Loads and unloads leave things behind.  The queue that fails after its queue pair
  was created loses its `cm_id` and keeps its queue pair and completion queue
  (`multiswap_rdma.c:384`); `AtMostOneQueueLeft` shows that no other queue does.
  `rdev` and its pd (83, 93) are never freed, not by an unload either (in the model
  `rdev` only grows).  Nor is plain memory, which is not in the model: `ctrl->queues`
  (469) after an unload; the entries (914), controllers (461), their queues and
  `req_cache` (964) after a failed load.
* An allocation that fails in `get_req_for_buf` (681 tests the address of the pointer)
  or at 999 (not tested) is not noticed: `insmod` dies half-way (`NoMemory`).
* `insmod` against a server that has served an earlier load never returns
  (`rmserver.c:201`, 245; `multiswap_rdma.c:706` has no timer): the region goes out
  over the first queue the process ever had.  `LoadEnds` names that case;
  the operator has to start the servers again.
* `COARSE_GRAINED` sends the pages from 4 GB on beyond what a server registers
  (`multiswap.c:83`, `rmserver.c:10`), and the page at exactly 4 GB too, for which
  the comparison is `>`.  `SwapNode` counts them as lost.
* A failure in `init_remote_bitmap` leaks what it had allocated for its node
  (`remote_schedule.c:34`); `SchedulerMemory` shows that this is all.
* When the user program's server dies between a client's completion and its
  disconnect, the client's event loop frees the connection the poller still uses
  (`client.c:219`, 264).  `ConnOutlivesPoller` excludes only that.
* If `ib_post_send` fails, `pending` stays one too high for ever
  (`multiswap_rdma.c:582`): from then on `drain_queue` never ends.
  `CallsDrainTheirOwn` holds all the same, because nobody returns.  The request of
  such a post is lost (584-589), which is why `RequestsFreed` assumes that posts
  succeed.
* `rmserver` counts results, not connections (`rmserver.c:92-97`): an event other
  than an establishment makes the loop move on, so "done connecting all queues"
  may be printed, and the second loop entered, with queues that are not connected.
* The signs of a lost `REJECTED` or a failing `rdma_connect_locked` are the
  time-out only (`multiswap_rdma.c:257`, 300); `LoadEnds` holds thanks to it.

## 7. What is not modelled, and why

* `vzalloc` and the modules' insertion may fail in `SwapNode`, but the transfers of
  the RDMA backend are single steps there: `RdmaQueue` and `Multiswap` are where
  they are taken apart.
* What the code does with memory it has corrupted: after an overrun of a bitmap
  `RemoteSchedule` stops, and of the free of a wrong address `RdmaQueue` has the two
  outcomes of a slab allocator that looks at the address (the call goes on, or an
  oops) but not a cache that is damaged silently.
* Plain memory of the connection set-up (section 6 lists what of it is lost), and
  allocations there that fail with an error code and nothing else to tell apart.
* A message that reached the client of the user programs while its acknowledgement
  was lost (`Deliver` is one step).
* The kernel and the RDMA core: external, modelled from how the code uses them
  (the page lock, frontswap's record, `xa_store` and `xa_load`, the connection
  manager's events, the completion queue).
* The contents of pages beyond telling two apart, the packing of the region's
  address and key, DMA addresses, statistics, logging.
* Processor numbers with gaps (a processor taken offline before the load):
  `sswap_rdma_get_queue` then picks a queue of another type or one past the array.
  `ReadyMeansUsable` covers numbers without gaps.
* Two swap devices: the handlers ignore `type` (`multiswap.c:60`) and would mix
  their pages.  The documents configure one.
* A connection lost after the load.  The event handler only logs it
  (`multiswap_rdma.c:303-318`), the requests in flight complete in error, and
  section 6 says what an error completion does.
* A start of `rmserver`, `client` or `server` that fails before its first event: no
  process, no state.
* Tests, benchmarks, switch scripts, documents: no logic of the system.
