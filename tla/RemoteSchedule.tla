--------------------------- MODULE RemoteSchedule ---------------------------
(***************************************************************************)
(* dev-rdma/remote_schedule.c: the module that decides where on the memory *)
(* nodes a swapped-out page lives.  Per node it keeps an array of bitmaps  *)
(* (one bit per remote slot, each bitmap with a lock and a free counter),  *)
(* and one XArray that maps a swap page id to a packed (slot, node) word.  *)
(*                                                                         *)
(* The kernel calls in with the page locked, so at most one operation is   *)
(* running for a page id: operations are indexed by their page id, and pc  *)
(* and call are the local state of the running one.  Operations on         *)
(* different page ids interleave at every lock and at every XArray access. *)
(***************************************************************************)
EXTENDS Integers, FiniteSets

CONSTANTS
  BufPages,     \* REMOTE_BUF_SIZE >> PAGE_SHIFT
  SpacePages,   \* REMOTE_ADDRESS_SPACE_PAGES, the bits of one bitmap
  PageIds,      \* the swap page ids the kernel uses
  ServerPages,  \* BUFFER_SIZE of farmemserver/rmserver.c, in pages
  MaxOps,       \* operations running at the same time (one per processor)
  XaMayFail,    \* may xa_store run out of memory?
  NULL          \* what xa_load returns for an absent index

Node == 0 .. 1                         \* MAX_REMOTE_NODES

NrMaps == (BufPages + SpacePages - 1) \div SpacePages   \* DIV_ROUND_UP

(***************************************************************************)
(* The swap file is no larger than the remote buffer (the todo at          *)
(* multiswap_rdma.c:8), so that pageid >> 14 indexes remote_spaces within  *)
(* bounds.                                                                 *)
(***************************************************************************)
ASSUME SizesAssumption ==
  /\ BufPages \in Nat \ {0}
  /\ SpacePages \in Nat \ {0}
  /\ ServerPages \in Nat
  /\ MaxOps \in Nat
  /\ PageIds \subseteq 0 .. BufPages - 1
  /\ XaMayFail \in BOOLEAN
  /\ NULL \notin Nat

(***************************************************************************)
(* The memory nodes really own BUFFER_SIZE bytes, which may be less than   *)
(* the REMOTE_BUF_SIZE the compute node assumes (4 GB and 8 GB as          *)
(* shipped): it is enough that one node owns half of it.                   *)
(***************************************************************************)
ASSUME ServerAssumption == 2 * ServerPages >= BufPages

VARIABLES
  mapping,      \* mapping[n][m]: the bits set in bitmap m of node n
  free_pages,   \* free_pages[n][m]: its free counter
  i_pages,      \* the XArray: page id to packed word, or NULL
  frontswap,    \* frontswap's own record of the page ids stored with success
  pc,           \* pc[p]: where the operation on page id p stands
  call          \* call[p]: its local variables

vars == <<mapping, free_pages, i_pages, frontswap, pc, call>>

Map == 0 .. NrMaps - 1
Bit == 0 .. SpacePages - 1
Slot == 0 .. NrMaps * SpacePages - 1

-----------------------------------------------------------------------------
(* The packed word of the XArray. *)

MakeXaMsg(slot, type) == slot * 16 + (type % 16)
RemoteType(msg) == msg % 16
RemoteSlotWrongShift(msg) == msg \div 8
RemoteSlot(msg) == msg \div 16
XaToValue(entry) == IF entry = NULL THEN 0 ELSE entry

(* A slot number counts through the maps of a node: slot + offset in        *)
(* sswap_select_slot, / and % in sswap_add_mapping.                         *)
GlobalSlotNoOffset(m, b) == b
GlobalSlot(m, b) == m * SpacePages + b
MapOf(slot) == slot \div SpacePages
BitOf(slot) == slot % SpacePages

(* find_first_zero_bit, of a map that has a zero bit. *)
IsFirstZeroBit(b, bits) == 0 .. b - 1 \subseteq bits /\ b \notin bits

SetBitDropped(bits, b) == bits
SetBit(bits, b) == bits \cup {b}
ClearBitDropped(bits, b) == bits
ClearBit(bits, b) == bits \ {b}

(* sswap_scheduler_write appoints a node by the parity of the page id. *)
AppointFirstNode(p) == 0
Appoint(p) == p % 2
OtherNodeUnwrapped(n) == n + 1
OtherNode(n) == 1 - n

Home(n) == {p \in PageIds : Appoint(p) = n}

NoCall == [type |-> 0, map |-> 0, slot |-> 0, full |-> FALSE, second |-> FALSE]

(* What the second attempt of sswap_scheduler_write starts from. *)
RetryForever(c) == [NoCall EXCEPT !.type = OtherNode(c.type), !.full = TRUE]
Retry(c) == [NoCall EXCEPT !.type = OtherNode(c.type), !.full = TRUE, !.second = TRUE]

HasOldMappingNever(p) == FALSE
HasOldMapping(p) == i_pages[p] # NULL

Running == {p \in PageIds : pc[p] # "idle"}

(* A call that has set a bit past the end of a map has written into memory  *)
(* that belongs to somebody else.  What the machine does from then on is    *)
(* undefined: the model stops there and promises nothing about it.          *)
MemoryIntact == \A q \in PageIds : pc[q] # "overrun"

Standing(p, place) == pc[p] = place /\ MemoryIntact

-----------------------------------------------------------------------------
Init ==
  /\ mapping = [n \in Node |-> [m \in Map |-> {}]]
  /\ free_pages = [n \in Node |-> [m \in Map |-> SpacePages]]
  /\ i_pages = [p \in PageIds |-> NULL]
  /\ frontswap = {}
  /\ pc = [p \in PageIds |-> "idle"]
  /\ call = [p \in PageIds |-> NoCall]

(* The kernel swaps page p out: frontswap forgets the old copy and the      *)
(* store handler asks the scheduler for a place.                            *)
SchedulerWrite(p) ==
  /\ Standing(p, "idle")
  /\ Cardinality(Running) < MaxOps
  /\ frontswap' = frontswap \ {p}
  /\ pc' = [pc EXCEPT ![p] = "replace"]
  /\ call' = [call EXCEPT ![p] = [NoCall EXCEPT !.type = Appoint(p)]]
  /\ UNCHANGED <<mapping, free_pages, i_pages>>

(* sswap_add_mapping: drop the slot an earlier mapping of p holds, if any. *)
ClearOldMapping(p) ==
  /\ Standing(p, "replace")
  /\ HasOldMapping(p)
  /\ LET n == RemoteType(i_pages[p])
         m == MapOf(RemoteSlot(i_pages[p]))
         b == BitOf(RemoteSlot(i_pages[p]))
     IN  /\ mapping' = [mapping EXCEPT ![n][m] = ClearBit(@, b)]
         /\ free_pages' = [free_pages EXCEPT ![n][m] = @ + 1]
  /\ pc' = [pc EXCEPT ![p] = "select"]
  /\ UNCHANGED <<i_pages, frontswap, call>>

NoOldMapping(p) ==
  /\ Standing(p, "replace")
  /\ ~HasOldMapping(p)
  /\ pc' = [pc EXCEPT ![p] = "select"]
  /\ UNCHANGED <<mapping, free_pages, i_pages, frontswap, call>>

(* sswap_select_slot: one iteration of the scan, under the lock of one map. *)
(* mapping_full is never reset, so a slot taken by the second attempt is    *)
(* not installed: sswap_add_mapping returns offset 0 instead.               *)
TakeSlot(p) ==
  /\ Standing(p, "select")
  /\ call[p].map < NrMaps
  /\ LET n == call[p].type
         m == call[p].map
     IN  /\ free_pages[n][m] # 0
         /\ \E b \in Bit :
              /\ IsFirstZeroBit(b, mapping[n][m])
              /\ mapping' = [mapping EXCEPT ![n][m] = SetBit(@, b)]
              /\ call' = [call EXCEPT ![p].slot =
                            IF call[p].full THEN 0 ELSE GlobalSlot(m, b)]
         /\ free_pages' = [free_pages EXCEPT ![n][m] = @ - 1]
  /\ pc' = [pc EXCEPT ![p] = IF call[p].full THEN "write" ELSE "install"]
  /\ UNCHANGED <<i_pages, frontswap>>

(* find_first_zero_bit returns the size of a full map, and set_bit writes   *)
(* past the end of the bitmap.                                              *)
OverrunMap(p) ==
  /\ Standing(p, "select")
  /\ call[p].map < NrMaps
  /\ free_pages[call[p].type][call[p].map] # 0
  /\ Bit \subseteq mapping[call[p].type][call[p].map]
  /\ pc' = [pc EXCEPT ![p] = "overrun"]
  /\ UNCHANGED <<mapping, free_pages, i_pages, frontswap, call>>

SkipMapUnchecked(p) ==
  /\ Standing(p, "select")
  /\ call[p].map < NrMaps
  /\ call' = [call EXCEPT ![p].map = @ + 1]
  /\ UNCHANGED <<mapping, free_pages, i_pages, frontswap, pc>>

SkipMap(p) ==
  /\ Standing(p, "select")
  /\ call[p].map < NrMaps
  /\ free_pages[call[p].type][call[p].map] = 0
  /\ call' = [call EXCEPT ![p].map = @ + 1]
  /\ UNCHANGED <<mapping, free_pages, i_pages, frontswap, pc>>

(* Every map was full: the first attempt falls back to the other node, the  *)
(* second one gives up with offset 0.                                       *)
FallBack(p) ==
  /\ Standing(p, "select")
  /\ call[p].map = NrMaps
  /\ ~call[p].second
  /\ call' = [call EXCEPT ![p] = Retry(@)]
  /\ pc' = [pc EXCEPT ![p] = "replace"]
  /\ UNCHANGED <<mapping, free_pages, i_pages, frontswap>>

GiveUp(p) ==
  /\ Standing(p, "select")
  /\ call[p].map = NrMaps
  /\ call[p].second
  /\ call' = [call EXCEPT ![p].slot = 0]
  /\ pc' = [pc EXCEPT ![p] = "write"]
  /\ UNCHANGED <<mapping, free_pages, i_pages, frontswap>>

(* xa_store of the new word; the call then returns slot << PAGE_SHIFT. *)
InstallMapping(p) ==
  /\ Standing(p, "install")
  /\ i_pages' = [i_pages EXCEPT ![p] = MakeXaMsg(call[p].slot, call[p].type)]
  /\ pc' = [pc EXCEPT ![p] = "write"]
  /\ UNCHANGED <<mapping, free_pages, frontswap, call>>

(* xa_store allocates only when the index is absent.  Its failure is logged *)
(* and VM_BUG_ON(1) is empty without CONFIG_DEBUG_VM: the call goes on.     *)
InstallFails(p) ==
  /\ XaMayFail
  /\ Standing(p, "install")
  /\ i_pages[p] = NULL
  /\ pc' = [pc EXCEPT ![p] = "write"]
  /\ UNCHANGED <<mapping, free_pages, i_pages, frontswap, call>>

(* The handler has written the page to (type, slot) and returns; an offset  *)
(* of REMOTE_BUF_SIZE or more is refused, and frontswap keeps no record.    *)
StoreReturns(p) ==
  /\ Standing(p, "write")
  /\ frontswap' = IF call[p].slot < BufPages THEN frontswap \cup {p} ELSE frontswap
  /\ pc' = [pc EXCEPT ![p] = "idle"]
  /\ call' = [call EXCEPT ![p] = NoCall]
  /\ UNCHANGED <<mapping, free_pages, i_pages>>

(* The kernel swaps p in: sswap_get_mapping.  An absent mapping is logged   *)
(* and VM_BUG_ON(1) is empty without CONFIG_DEBUG_VM: NULL decodes to 0.    *)
SchedulerRead(p) ==
  /\ Standing(p, "idle")
  /\ p \in frontswap
  /\ Cardinality(Running) < MaxOps
  /\ LET msg == XaToValue(i_pages[p])
     IN  call' = [call EXCEPT ![p] = [NoCall EXCEPT !.type = RemoteType(msg),
                                                    !.slot = RemoteSlot(msg)]]
  /\ pc' = [pc EXCEPT ![p] = "read"]
  /\ UNCHANGED <<mapping, free_pages, i_pages, frontswap>>

LoadReturns(p) ==
  /\ Standing(p, "read")
  /\ pc' = [pc EXCEPT ![p] = "idle"]
  /\ call' = [call EXCEPT ![p] = NoCall]
  /\ UNCHANGED <<mapping, free_pages, i_pages, frontswap>>

(* The kernel frees the swap entry: frontswap drops its record, and         *)
(* sswap_invalidate_page keeps the mapping and its slot.                    *)
InvalidatePage(p) ==
  /\ Standing(p, "idle")
  /\ p \in frontswap
  /\ frontswap' = frontswap \ {p}
  /\ UNCHANGED <<mapping, free_pages, i_pages, pc, call>>

AddMapping(p) ==
  \/ ClearOldMapping(p)
  \/ NoOldMapping(p)
  \/ TakeSlot(p)
  \/ OverrunMap(p)
  \/ SkipMap(p)
  \/ FallBack(p)
  \/ GiveUp(p)
  \/ InstallMapping(p)
  \/ InstallFails(p)

Next ==
  \E p \in PageIds :
    \/ SchedulerWrite(p)
    \/ AddMapping(p)
    \/ StoreReturns(p)
    \/ SchedulerRead(p)
    \/ LoadReturns(p)
    \/ InvalidatePage(p)

Spec == Init /\ [][Next]_vars

(***************************************************************************)
(* A call runs in the context of a kernel thread that holds the page lock, *)
(* takes each map's spin lock for a few instructions and never sleeps on   *)
(* another call: once started it keeps going.  Nothing makes the kernel    *)
(* start one.                                                              *)
(***************************************************************************)
FairSpec ==
  /\ Spec
  /\ \A p \in PageIds : /\ WF_vars(AddMapping(p))
                         /\ WF_vars(StoreReturns(p))
                         /\ WF_vars(LoadReturns(p))

-----------------------------------------------------------------------------
(* The slot that belongs to page id p, if any: the one its mapping names,   *)
(* or the one taken and not yet installed; between giving the old slot back *)
(* and taking a new one, none.                                              *)
HasPlace(p) == pc[p] = "install" \/ (pc[p] # "select" /\ i_pages[p] # NULL)
PlaceNode(p) ==
  IF pc[p] = "install" THEN call[p].type ELSE RemoteType(i_pages[p])
PlaceSlot(p) ==
  IF pc[p] = "install" THEN call[p].slot ELSE RemoteSlot(i_pages[p])

PlacedAt(p, n, slot) == HasPlace(p) /\ PlaceNode(p) = n /\ PlaceSlot(p) = slot

(* How far along the maps of its node page id p is: at its slot, or at the  *)
(* first slot of the map it is about to look at.                            *)
Level(p) ==
  IF pc[p] = "select" THEN call[p].map * SpacePages
  ELSE IF HasPlace(p) THEN PlaceSlot(p) ELSE -1

Above(n, j) == {p \in Home(n) : Level(p) >= j}

Transferring(p) == pc[p] \in {"write", "read"}

Call == [type : Node, map : 0 .. NrMaps, slot : Slot,
         full : BOOLEAN, second : BOOLEAN]

(* The words of the XArray name slots that exist, so that giving one back   *)
(* stays within remote_map.                                                 *)
WordsDecode ==
  \A p \in PageIds :
    i_pages[p] # NULL => RemoteType(i_pages[p]) \in Node /\ RemoteSlot(i_pages[p]) \in Slot

-----------------------------------------------------------------------------
(* The state keeps its shape, and every bit, map and slot that is used lies *)
(* within its array, as long as no map is overrun: also when xa_store       *)
(* fails, nodes fill up and the fallback code runs.                         *)
TypeOK ==
  /\ mapping \in [Node -> [Map -> SUBSET Bit]]
  /\ free_pages \in [Node -> [Map -> Nat]]
  /\ i_pages \in [PageIds -> Nat \cup {NULL}]
  /\ frontswap \subseteq PageIds
  /\ pc \in [PageIds -> {"idle", "replace", "select", "overrun", "install",
                           "write", "read"}]
  /\ call \in [PageIds -> Call]
  /\ WordsDecode

(* A bit is set exactly when its slot belongs to a page id: replacing a     *)
(* mapping in several locked steps (remote_schedule.c:145-173) neither      *)
(* leaks a slot nor frees one that is in use.                               *)
BitmapExact ==
  \A n \in Node, m \in Map :
    mapping[n][m] = {b \in Bit : \E p \in PageIds : PlacedAt(p, n, GlobalSlot(m, b))}

(* The counter that sswap_select_slot trusts before it searches a map       *)
(* (line 105) agrees with the bits of that map.                             *)
FreeCountExact ==
  \A n \in Node, m \in Map :
    free_pages[n][m] = SpacePages - Cardinality(mapping[n][m])

(* No two page ids ever own the same slot of the same node, whatever stores *)
(* run at the same time.                                                    *)
NoSharedSlot ==
  \A p, q \in PageIds :
    p # q /\ HasPlace(p) /\ HasPlace(q) =>
      PlaceNode(p) # PlaceNode(q) \/ PlaceSlot(p) # PlaceSlot(q)

(* The transfer a caller starts goes to the slot its own page id owns and   *)
(* still owns when the transfer ends: slot reuse never overtakes it.        *)
TransferOwnsSlot ==
  \A p \in PageIds :
    Transferring(p) => PlacedAt(p, call[p].type, call[p].slot)

(* The fallback of sswap_scheduler_write (lines 245-258) is never needed:   *)
(* although the scan takes one lock at a time, no call sees every map full. *)
NeverFull ==
  \A p \in PageIds : call[p].map < NrMaps /\ ~call[p].full

(* The compute node allows offsets up to REMOTE_BUF_SIZE (8 GB) while       *)
(* rmserver.c:10 registers 4 GB; first fit and the parity rule keep every   *)
(* transfer inside what the server owns.                                    *)
WithinServerBuffer ==
  \A p \in PageIds : Transferring(p) => call[p].slot < ServerPages

(* sswap_select_slot trusts the counter before it searches the bits (line   *)
(* 105): no scan ever finds a counter above zero and no zero bit, and       *)
(* set_bit (line 111) never writes past the end of a map.                   *)
NoOverrun == MemoryIntact

(* A zero counter means a full map, also after xa_store has failed and      *)
(* slots were given back twice, as long as no map is overrun: the scan      *)
(* never passes over a map that still has a zero bit.  (The converse, a     *)
(* full map with a zero counter, is what NoOverrun is about; it takes a     *)
(* failure of xa_store to break it.)                                        *)
FullMeansFull ==
  \A n \in Node, m \in Map : free_pages[n][m] = 0 => Bit \subseteq mapping[n][m]

(* The page ids at or above slot j are few: what makes NeverFull and        *)
(* WithinServerBuffer inductive although the scan is not atomic.            *)
ScanPressure ==
  \A n \in Node, j \in 0 .. NrMaps * SpacePages :
    \/ Above(n, j) = {}
    \/ Cardinality(Above(n, j)) + j <= Cardinality(Home(n))

(* sswap_get_mapping (lines 195-198) takes for granted that a page stored   *)
(* with success has a mapping.                                              *)
FrontswapMapped ==
  \A p \in frontswap : i_pages[p] # NULL

(* Every call for a place comes to an end, also when both nodes are full,   *)
(* unless a map is overrun: the second attempt is the last.                 *)
StorePlaced ==
  \A p \in PageIds : pc[p] = "replace" ~> (pc[p] = "write" \/ ~MemoryIntact)
=============================================================================
