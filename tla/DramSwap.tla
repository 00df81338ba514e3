------------------------------ MODULE DramSwap ------------------------------
(***************************************************************************)
(* dev-rdma/multiswap_dram.c under dev-rdma/multiswap.c with USE_SCHEDULE, *)
(* which is what a plain "make" builds: the handlers and the scheduler of  *)
(* Multiswap over one buffer in local memory instead of two memory nodes.  *)
(***************************************************************************)
EXTENDS Multiswap

VARIABLE
  kept      \* kept[p]: what the last successful store of p was given

dramVars == <<allVars, kept>>

(* The one buffer takes the place of the first node's memory. *)
Drambuf == 0

DramInit ==
  /\ MultiswapInit
  /\ kept = [p \in PageIds |-> Blank]

(* sswap_rdma_write: copy_page to drambuf + roffset, whatever dev is. *)
DramWrite(p) ==
  /\ Standing(p, "write")
  /\ Accepted(p) /\ p \notin moved
  /\ remote' = [remote EXCEPT ![Drambuf][call[p].slot] = page[p]]
  /\ moved' = moved \cup {p}
  /\ UNCHANGED <<vars, page, kept>>

(* sswap_rdma_read_sync: copy_page from drambuf + roffset. *)
DramRead(p) ==
  /\ Standing(p, "read")
  /\ Accepted(p) /\ p \notin moved
  /\ page' = [page EXCEPT ![p] = remote[Drambuf][call[p].slot]]
  /\ moved' = moved \cup {p}
  /\ UNCHANGED <<vars, remote, kept>>

DramStoreDone(p) ==
  /\ StoreDone(p)
  /\ kept' = [kept EXCEPT ![p] = page[p]]

DramNext ==
  \E p \in PageIds :
    \/ DramWrite(p)
    \/ DramRead(p)
    \/ DramStoreDone(p)
    \/ /\ \/ \E d \in Data : SwapOut(p, d)
          \/ PlacePage(p) \/ SwapIn(p) \/ LoadDone(p) \/ Invalidate(p)
       /\ UNCHANGED kept

DramSpec == DramInit /\ [][DramNext]_dramVars

(* The DRAM backend can be used as it is once NUM_SERVERS is 1              *)
(* (multiswap.c:19): a load brings back what was stored.                    *)
DramKeepsPages ==
  \A p \in PageIds : pc[p] = "read" /\ p \in moved => page[p] = kept[p]
=============================================================================
