------------------------------ MODULE SwapNode ------------------------------
(***************************************************************************)
(* The compute node around multiswap.c with a strategy that computes a     *)
(* page's place from its id (USESWAP, USEDRAM, FINE_GRAINED,               *)
(* COARSE_GRAINED): the modules that insdram.sh, insmod.sh, rmdram.sh and  *)
(* rmmod.sh insert and remove, the handlers, the memory of the backend     *)
(* (multiswap_dram.c, or the nodes behind multiswap_rdma.c), and the       *)
(* kernel, which swaps to its disk whatever the handlers refuse.           *)
(***************************************************************************)
EXTENDS SchedulerLoad

CONSTANTS
  PageIds,      \* the swap page ids the kernel uses
  BufPages,     \* REMOTE_BUF_SIZE >> PAGE_SHIFT
  ServerPages,  \* BUFFER_SIZE of rmserver.c, in pages
  FourGB,       \* ONEGB * 4, in pages
  MaxOps,       \* pages being swapped at the same time
  Data,         \* what a page may contain
  Blank,        \* a page without content
  CarefulOperator
    \* are modules removed only with swapping off, and is swapping on again
    \* only with multiswap inserted?  The scripts see to neither.

ASSUME NodeAssumption ==
  /\ PageIds \subseteq Nat
  /\ {BufPages, ServerPages, FourGB, MaxOps} \subseteq Nat
  /\ Blank \notin Data
  /\ CarefulOperator \in BOOLEAN

Builds ==
  [BACKEND : {"DRAM", "RDMA"},
   STRATEGY : {"USESWAP", "USEDRAM", "FINE_GRAINED", "COARSE_GRAINED"}]

VARIABLES
  build,    \* what the modules were compiled with
  loaded,   \* of the backend and multiswap, the modules inserted
  buffer,   \* has the backend its memory?
  ops,      \* frontswap_ops: "none", "live", or "stale" once its module is gone
  swap,     \* is swapping on?
  oops,     \* has the kernel followed a pointer to nowhere?
  memory,   \* memory[n][offset]: the memory of the backend
  frontswap,\* the page ids that frontswap has recorded
  disk,     \* disk[p]: what the swap device holds for p, or Blank
  pc,       \* pc[p]: where the swapping of p stands
  page      \* page[p]: the content of the page being swapped, else Blank

loaderVars == <<loaded, buffer, ops, swap>>
pageVars == <<frontswap, disk, pc, page>>
nodeVars == <<schedVars, build, loaderVars, oops, memory, pageVars>>

Empty == [n \in Node |-> [offset \in PageIds |-> Blank]]

NodeInit ==
  /\ SchedulerInit
  /\ build \in Builds
  /\ loaded = {} /\ buffer = FALSE /\ ops = "none"
  /\ swap = FALSE /\ oops = FALSE
  /\ memory = Empty
  /\ frontswap = {}
  /\ disk = [p \in PageIds |-> Blank]
  /\ pc = [p \in PageIds |-> "idle"]
  /\ page = [p \in PageIds |-> Blank]

Oops == oops' = TRUE /\ UNCHANGED <<schedVars, build, loaderVars, memory, pageVars>>

-----------------------------------------------------------------------------
(* Modules.  rmmod.sh and rmdram.sh do not swap off first.                  *)

MayRemove == CarefulOperator => ~swap

(* sswap_dram_init_module does not look at what vzalloc returned; the       *)
(* insertion of multiswap_rdma succeeds only with its servers connected.    *)
InsertBackend ==
  /\ "backend" \notin loaded
  /\ loaded' = loaded \cup {"backend"}
  /\ buffer' \in IF build.BACKEND = "DRAM" THEN BOOLEAN ELSE {TRUE}
  /\ memory' = Empty
  /\ UNCHANGED <<schedVars, build, ops, swap, oops, pageVars>>

(* The loader keeps a module that another one uses. *)
RemoveBackend ==
  /\ MayRemove
  /\ "backend" \in loaded /\ "multiswap" \notin loaded
  /\ loaded' = loaded \ {"backend"}
  /\ buffer' = FALSE
  /\ UNCHANGED <<schedVars, build, ops, swap, oops, memory, pageVars>>

InitSswapUnchecked ==
  /\ "backend" \in loaded /\ "multiswap" \notin loaded
  /\ ops' = IF ops = "none" THEN "live" ELSE ops
  /\ loaded' = loaded \cup {"multiswap"}
  /\ UNCHANGED <<schedVars, build, buffer, swap, oops, memory, pageVars>>

(* init_sswap: frontswap takes one set of handlers, and nobody takes it     *)
(* back.  With handlers there already the insertion fails.                  *)
InitSswap ==
  /\ "backend" \in loaded /\ "multiswap" \notin loaded
  /\ ops = "none"
  /\ ops' = "live"
  /\ loaded' = loaded \cup {"multiswap"}
  /\ UNCHANGED <<schedVars, build, buffer, swap, oops, memory, pageVars>>

(* exit_sswap leaves the handlers registered. *)
ExitSswap ==
  /\ MayRemove
  /\ "multiswap" \in loaded
  /\ loaded' = loaded \ {"multiswap"}
  /\ ops' = "stale"
  /\ UNCHANGED <<schedVars, build, buffer, swap, oops, memory, pageVars>>

(* swapon: after insmod.sh, which goes on when the insertion of multiswap   *)
(* fails (line 6), or before it.  (The init handler only prints.)           *)
SwapOn ==
  /\ ~swap /\ sched \in {"absent", "live"}
  /\ CarefulOperator => "multiswap" \in loaded \/ ops = "none"
  /\ swap' = TRUE
  /\ UNCHANGED <<schedVars, build, loaded, buffer, ops, oops, memory, pageVars>>

(* swapoff has read every page back. *)
SwapOff ==
  /\ swap
  /\ \A p \in PageIds : pc[p] = "idle" /\ p \notin frontswap /\ disk[p] = Blank
  /\ swap' = FALSE
  /\ UNCHANGED <<schedVars, build, loaded, buffer, ops, oops, memory, pageVars>>

Restart ==
  /\ ~swap
  /\ sched' = "absent" /\ inserts' = 0 /\ node' = 0 /\ next' = 0
  /\ remote_map' = {} /\ remote_spaces' = FALSE /\ heap' = {}
  /\ loaded' = {} /\ buffer' = FALSE /\ ops' = "none"
  /\ memory' = Empty
  /\ UNCHANGED <<build, swap, oops, pageVars>>

(* The scheduler is inserted by the scripts, and not used. *)
Scheduler ==
  /\ ~swap
  /\ SchedulerStep
  /\ UNCHANGED <<build, loaderVars, oops, memory, pageVars>>

-----------------------------------------------------------------------------
(* The place of a page: pageid << PAGE_SHIFT, on a node. *)

RATING == 3
schedule_node(p) == IF p % RATING = RATING - 1 THEN 1 ELSE 0
CoarseDev(p) == IF p > FourGB THEN 1 ELSE 0

Dev(p) == CASE build.STRATEGY = "FINE_GRAINED" -> schedule_node(p)
            [] build.STRATEGY = "COARSE_GRAINED" -> CoarseDev(p)
            [] OTHER -> 0

(* The DRAM backend has one buffer and does not look at dev. *)
Place(p) == IF build.BACKEND = "DRAM" THEN 0 ELSE Dev(p)

LoadPlaceZero(p) == 0
LoadPlace(p) == Place(p)

Refused(p) == build.STRATEGY = "USESWAP" \/ p >= BufPages

(* An adapter does not write beyond the memory of its server; the handler   *)
(* does not notice (RdmaQueue: a completion with an error is a success).    *)
Owned(p) == IF build.BACKEND = "DRAM" THEN TRUE ELSE p < ServerPages

-----------------------------------------------------------------------------
(* Swapping. *)

Step(p, from, to) == pc[p] = from /\ pc' = [pc EXCEPT ![p] = to]
Quiet == UNCHANGED <<schedVars, build, loaderVars, oops>>
Running == {p \in PageIds : pc[p] # "idle"}

LetGo(p) == page' = [page EXCEPT ![p] = Blank]

(* __frontswap_store: the old copies are forgotten first. *)
BeginOut(p, d) ==
  /\ swap /\ Cardinality(Running) < MaxOps
  /\ Step(p, "idle", "store")
  /\ page' = [page EXCEPT ![p] = d]
  /\ frontswap' = frontswap \ {p}
  /\ disk' = [disk EXCEPT ![p] = Blank]
  /\ UNCHANGED memory /\ Quiet

(* sswap_store and the backend's sswap_rdma_write. *)
SswapStore(p) ==
  /\ ops = "live" /\ ~Refused(p) /\ buffer
  /\ Step(p, "store", "idle")
  /\ memory' = IF Owned(p) THEN [memory EXCEPT ![Place(p)][p] = page[p]] ELSE memory
  /\ frontswap' = frontswap \cup {p}
  /\ LetGo(p)
  /\ UNCHANGED disk /\ Quiet

SwapWrite(p) ==
  /\ ops = "none" \/ (ops = "live" /\ Refused(p))
  /\ Step(p, "store", "idle")
  /\ disk' = [disk EXCEPT ![p] = page[p]]
  /\ LetGo(p)
  /\ UNCHANGED <<memory, frontswap>> /\ Quiet

BeginIn(p) ==
  /\ Cardinality(Running) < MaxOps
  /\ p \in frontswap \/ disk[p] # Blank
  /\ Step(p, "idle", "load")
  /\ UNCHANGED <<memory, frontswap, disk, page>> /\ Quiet

(* sswap_load and the backend's sswap_rdma_read_sync. *)
SswapLoad(p) ==
  /\ p \in frontswap /\ ops = "live" /\ ~Refused(p) /\ buffer
  /\ Step(p, "load", "loaded")
  /\ page' = [page EXCEPT ![p] = memory[LoadPlace(p)][p]]
  /\ UNCHANGED <<memory, frontswap, disk>> /\ Quiet

SwapRead(p) ==
  /\ p \notin frontswap
  /\ Step(p, "load", "loaded")
  /\ page' = [page EXCEPT ![p] = disk[p]]
  /\ UNCHANGED <<memory, frontswap, disk>> /\ Quiet

EndIn(p) ==
  /\ Step(p, "loaded", "idle")
  /\ LetGo(p)
  /\ UNCHANGED <<memory, frontswap, disk>> /\ Quiet

(* A handler that is gone, or one without a buffer. *)
CallToNowhere(p) ==
  /\ \/ pc[p] = "store" /\ ops # "none"
     \/ pc[p] = "load" /\ p \in frontswap
  /\ ops = "stale" \/ (~Refused(p) /\ ~buffer)
  /\ Oops

(* The page id is freed; sswap_invalidate_page does nothing. *)
Free(p) ==
  /\ pc[p] = "idle"
  /\ p \in frontswap \/ disk[p] # Blank
  /\ frontswap' = frontswap \ {p}
  /\ disk' = [disk EXCEPT ![p] = Blank]
  /\ UNCHANGED <<memory, pc, page>> /\ Quiet

Operator ==
  \/ InsertBackend \/ RemoveBackend
  \/ InitSswap \/ ExitSswap
  \/ Scheduler
  \/ SwapOn \/ SwapOff
  \/ Restart

Swapping(p) ==
  \/ \E d \in Data : BeginOut(p, d)
  \/ SswapStore(p) \/ SwapWrite(p)
  \/ BeginIn(p) \/ SswapLoad(p) \/ SwapRead(p) \/ EndIn(p)
  \/ CallToNowhere(p)
  \/ Free(p)

NodeNext == ~oops /\ (Operator \/ \E p \in PageIds : Swapping(p))

NodeSpec == NodeInit /\ [][NodeNext]_nodeVars

-----------------------------------------------------------------------------
(* The types; and handlers that frontswap calls imply their module, which   *)
(* implies its backend.                                                     *)
NodeTypeOK ==
  /\ build \in Builds
  /\ loaded \subseteq {"backend", "multiswap"}
  /\ ops \in {"none", "live", "stale"}
  /\ buffer => "backend" \in loaded
  /\ ops = "live" <=> "multiswap" \in loaded
  /\ "multiswap" \in loaded => "backend" \in loaded
  /\ memory \in [Node -> [PageIds -> Data \cup {Blank}]]
  /\ frontswap \subseteq PageIds
  /\ disk \in [PageIds -> Data \cup {Blank}]
  /\ pc \in [PageIds -> {"idle", "store", "load", "loaded"}]
  /\ page \in [PageIds -> Data \cup {Blank}]

(* With a careful operator a call of the handlers goes nowhere only for     *)
(* want of the buffer that vzalloc could not give (multiswap_dram.c:72):    *)
(* the handlers outlive their module (multiswap.c:192-197), but a second    *)
(* insertion fails until the next start.                                    *)
OopsMeansNoBuffer ==
  oops => "backend" \in loaded /\ ~buffer

(***************************************************************************)
(* The refinement mapping.  Lost are the pages that the compute node       *)
(* accepts (offset below REMOTE_BUF_SIZE) and a memory node does not own:  *)
(* of them nothing is promised.                                            *)
(***************************************************************************)
Lost(p) == ~Refused(p) /\ ~Owned(p)

storedMapping ==
  [p \in PageIds |-> CASE Lost(p) -> Blank
                       [] ~Lost(p) /\ p \in frontswap -> memory[Place(p)][p]
                       [] OTHER -> disk[p]]

busyMapping ==
  [p \in PageIds |-> CASE Lost(p) \/ pc[p] = "idle" -> "idle"
                       [] ~Lost(p) /\ pc[p] = "store" -> "out"
                       [] OTHER -> "in"]

pageMapping == [p \in PageIds |-> IF Lost(p) THEN Blank ELSE page[p]]

Abstract == INSTANCE SwapStore
  WITH stored <- storedMapping, busy <- busyMapping, page <- pageMapping

(* With every strategy and both backends the kernel gets back what it       *)
(* swapped out, from memory or from its disk, across insertions and         *)
(* removals of the modules by a careful operator; only the pages whose      *)
(* offset is beyond what a memory node owns are not kept.                   *)
KeepsPages == Abstract!Spec
=============================================================================
