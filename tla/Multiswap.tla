----------------------------- MODULE Multiswap -----------------------------
(***************************************************************************)
(* dev-rdma/multiswap.c with USE_SCHEDULE: the store and load handlers     *)
(* over the scheduler (RemoteSchedule) and the memory of the nodes, which  *)
(* one-sided RDMA reads and writes touch at one moment of a call, before   *)
(* it returns (PageTransfer, which RdmaQueue implements).                  *)
(***************************************************************************)
EXTENDS RemoteSchedule

CONSTANTS
  Data,     \* what a page may contain
  Blank     \* the content of memory nobody has written

ASSUME DataAssumption == Blank \notin Data

VARIABLES
  remote,   \* remote[n][slot]: the memory of node n
  page,     \* page[p]: the content of the page being swapped, else Blank
  moved     \* the page ids whose transfer the adapter has done

memoryVars == <<remote, page, moved>>
allVars == <<vars, memoryVars>>

MultiswapInit ==
  /\ Init
  /\ remote = [n \in Node |-> [slot \in Slot |-> Blank]]
  /\ page = [p \in PageIds |-> Blank]
  /\ moved = {}

(* The call returns and the kernel has the page back. *)
LetGo(p) ==
  /\ page' = [page EXCEPT ![p] = Blank]
  /\ moved' = moved \ {p}
  /\ UNCHANGED remote

(* sswap_store, as far as the scheduler. *)
SwapOut(p, d) ==
  /\ SchedulerWrite(p)
  /\ page' = [page EXCEPT ![p] = d]
  /\ UNCHANGED <<remote, moved>>

PlacePage(p) == AddMapping(p) /\ UNCHANGED memoryVars

(* An offset of REMOTE_BUF_SIZE or more is refused before anything moves. *)
Accepted(p) == call[p].slot < BufPages

(* sswap_rdma_write: the adapter writes to baseaddr + roffset. *)
WriteRemote(p) ==
  /\ Standing(p, "write")
  /\ Accepted(p) /\ p \notin moved
  /\ remote' = [remote EXCEPT ![call[p].type][call[p].slot] = page[p]]
  /\ moved' = moved \cup {p}
  /\ UNCHANGED <<vars, page>>

(* It returns after its completion (PageTransfer!Succeed), or at once. *)
TransferEnds(p) == p \in moved \/ ~Accepted(p)

StoreDone(p) == TransferEnds(p) /\ StoreReturns(p) /\ LetGo(p)

(* sswap_load, into a fresh page. *)
SwapIn(p) == SchedulerRead(p) /\ UNCHANGED memoryVars

(* sswap_rdma_read_sync *)
ReadRemote(p) ==
  /\ Standing(p, "read")
  /\ Accepted(p) /\ p \notin moved
  /\ page' = [page EXCEPT ![p] = remote[call[p].type][call[p].slot]]
  /\ moved' = moved \cup {p}
  /\ UNCHANGED <<vars, remote>>

LoadDone(p) == TransferEnds(p) /\ LoadReturns(p) /\ LetGo(p)

Invalidate(p) == InvalidatePage(p) /\ UNCHANGED memoryVars

MultiswapNext ==
  \E p \in PageIds :
    \/ \E d \in Data : SwapOut(p, d)
    \/ PlacePage(p)
    \/ WriteRemote(p)
    \/ StoreDone(p)
    \/ SwapIn(p)
    \/ ReadRemote(p)
    \/ LoadDone(p)
    \/ Invalidate(p)

MultiswapSpec == MultiswapInit /\ [][MultiswapNext]_allVars

-----------------------------------------------------------------------------
(***************************************************************************)
(* The refinement mapping: what is stored for p is what the memory node    *)
(* that its mapping names holds in the slot that its mapping names.        *)
(***************************************************************************)
storedMapping ==
  [p \in PageIds |->
     IF p \in frontswap THEN remote[RemoteType(i_pages[p])][RemoteSlot(i_pages[p])]
     ELSE Blank]

busyMapping ==
  [p \in PageIds |-> IF pc[p] = "idle" THEN "idle"
                     ELSE IF pc[p] = "read" THEN "in" ELSE "out"]

Abstract == INSTANCE SwapStore WITH stored <- storedMapping, busy <- busyMapping

(* multiswap keeps its promise: whatever stores, loads and invalidations    *)
(* run on other page ids at the same time, a load brings back what the last *)
(* successful store of its page id wrote.                                   *)
Implements == Abstract!Spec
=============================================================================
