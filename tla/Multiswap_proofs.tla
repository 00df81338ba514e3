-------------------------- MODULE Multiswap_proofs --------------------------
(***************************************************************************)
(* TLAPS proves that Multiswap implements SwapStore, for every size of the *)
(* buffers, every set of page ids and contents and any number of           *)
(* processors, as long as xa_store does not run out of memory.             *)
(***************************************************************************)
EXTENDS Multiswap, RemoteSchedule_proofs

USE DEF Standing

-----------------------------------------------------------------------------
(* The inductive invariant: the scheduler's (IInv) and what it makes of the *)
(* memory of the nodes.                                                     *)

Content == Data \cup {Blank}
At(p) == remote[RemoteType(i_pages[p])][RemoteSlot(i_pages[p])]
Storing(p) == pc[p] \in {"replace", "select", "install", "write"}

MemoryTypes ==
  /\ remote \in [Node -> [Slot -> Content]]
  /\ page \in [PageIds -> Content]
  /\ moved \subseteq PageIds

(* A transfer is done only while its call runs; a page being stored has a   *)
(* content and no record in frontswap; once written, its slot holds it; a   *)
(* recorded page is in its slot, and a load that is done has brought it.    *)
PageOK(p) ==
  /\ ~Transferring(p) => p \notin moved
  /\ Storing(p) => page[p] \in Data /\ p \notin frontswap
  /\ pc[p] = "write" /\ p \in moved => At(p) = page[p]
  /\ pc[p] = "read" => p \in frontswap
  /\ pc[p] = "read" /\ p \in moved => page[p] = At(p)
  /\ p \in frontswap => At(p) \in Data

MInv == IInv /\ MemoryTypes /\ \A p \in PageIds : PageOK(p)

-----------------------------------------------------------------------------
(* What the scheduler's invariant gives. *)

(* A transfer stays inside the remote buffer: no offset is refused. *)
LEMMA TransferAccepted ==
  ASSUME IInv, NEW p \in PageIds, Transferring(p)
  PROVE  Accepted(p)
<1> DEFINE s == PlaceSlot(p)
           n == PlaceNode(p)
<1>1. HasPlace(p) /\ call[p].slot = s /\ pc[p] # "select"
  BY DEF IInv, TransferOwnsSlot, PlacedAt, Transferring
<1>2. /\ n = Appoint(p) /\ n \in Node
      /\ s \in Nat /\ s < NrMaps * SpacePages
  BY <1>1, PlaceFacts DEF IInv, TypeOK
<1>3. p \in Above(n, s)
  <2>1. Level(p) = s
    BY <1>1 DEF Level
  <2> QED BY <1>2, <2>1 DEF Above, Home
<1>4. s \in 0 .. NrMaps * SpacePages
  BY <1>2, NrMapsFacts
<1>5. Cardinality(Above(n, s)) + s <= Cardinality(Home(n))
  BY <1>2, <1>3, <1>4 DEF IInv, ScanPressure
<1>6. Cardinality(Above(n, s)) \in Nat /\ Cardinality(Above(n, s)) # 0
  <2>1. Above(n, s) \in SUBSET Home(n)
    BY DEF Above
  <2>2. IsFiniteSet(Above(n, s))
    BY <2>1, HomeFinite, FS_Subset
  <2> QED BY <1>3, <2>2, FS_EmptySet, FS_CardinalityType
<1>7. Cardinality(Home(n)) <= BufPages /\ Cardinality(Home(n)) \in Nat
  BY HomeFinite
<1> HIDE DEF s, n
<1> QED BY <1>1, <1>2, <1>5, <1>6, <1>7, SizesAssumption DEF Accepted

(* A transfer goes to the slot that the mapping of its page id names. *)
LEMMA TransferAt ==
  ASSUME IInv, NEW p \in PageIds, Transferring(p)
  PROVE  /\ call[p].type = RemoteType(i_pages[p])
         /\ call[p].slot = RemoteSlot(i_pages[p])
         /\ call[p].type \in Node
         /\ call[p].slot \in Slot
<1>1. HasPlace(p) /\ PlaceNode(p) = call[p].type /\ PlaceSlot(p) = call[p].slot
  BY DEF IInv, TransferOwnsSlot, PlacedAt
<1>2. PlaceNode(p) = RemoteType(i_pages[p]) /\ PlaceSlot(p) = RemoteSlot(i_pages[p])
  BY DEF Transferring, PlaceNode, PlaceSlot
<1>3. PlaceNode(p) \in Node /\ PlaceSlot(p) \in Nat /\ PlaceSlot(p) < NrMaps * SpacePages
  BY <1>1, PlaceFacts DEF IInv, TypeOK
<1> QED BY <1>1, <1>2, <1>3, NrMapsFacts DEF Slot

(* A page that frontswap has recorded is in a slot of its own. *)
LEMMA RecordedPlace ==
  ASSUME IInv, NEW q \in frontswap, PageOK(q)
  PROVE  /\ q \in PageIds /\ HasPlace(q)
         /\ PlaceNode(q) = RemoteType(i_pages[q])
         /\ PlaceSlot(q) = RemoteSlot(i_pages[q])
<1>1. q \in PageIds /\ i_pages[q] # NULL
  BY DEF IInv, TypeOK, FrontswapMapped
<1>2. pc[q] \notin {"select", "install"}
  BY DEF PageOK, Storing
<1> QED BY <1>1, <1>2 DEF HasPlace, PlaceNode, PlaceSlot

(* Writing the slot of one page leaves the slots of the others alone. *)
LEMMA OtherSlotsKept ==
  ASSUME MInv, NEW p \in PageIds, WriteRemote(p), NEW q \in PageIds, q # p,
         q \in frontswap \/ Transferring(q)
  PROVE  At(q)' = At(q)
<1>1. HasPlace(p) /\ PlaceNode(p) = call[p].type /\ PlaceSlot(p) = call[p].slot
  BY DEF MInv, IInv, TransferOwnsSlot, PlacedAt, WriteRemote, Transferring
<1>2. /\ HasPlace(q)
      /\ PlaceNode(q) = RemoteType(i_pages[q])
      /\ PlaceSlot(q) = RemoteSlot(i_pages[q])
  <2>1. CASE q \in frontswap
    BY <2>1, RecordedPlace DEF MInv
  <2>2. CASE Transferring(q)
    BY <2>2 DEF MInv, IInv, TransferOwnsSlot, PlacedAt, Transferring, PlaceNode, PlaceSlot
  <2> QED BY <2>1, <2>2
<1>3. PlaceNode(q) # PlaceNode(p) \/ PlaceSlot(q) # PlaceSlot(p)
  BY <1>1, <1>2 DEF MInv, IInv, NoSharedSlot
<1>4. /\ call[p].type \in Node /\ call[p].slot \in Slot
      /\ PlaceNode(q) \in Node
  <2>1. PlaceNode(q) \in Node
    BY <1>2, PlaceFacts DEF MInv, IInv, TypeOK
  <2> QED BY <2>1, TransferAt DEF MInv, WriteRemote, Transferring
<1>5. /\ remote' = [remote EXCEPT ![call[p].type][call[p].slot] = page[p]]
      /\ i_pages' = i_pages
  BY DEF WriteRemote, vars
<1>6. remote \in [Node -> [Slot -> Content]]
  BY DEF MInv, MemoryTypes
<1>7. remote'[PlaceNode(q)][PlaceSlot(q)] = remote[PlaceNode(q)][PlaceSlot(q)]
  BY <1>1, <1>3, <1>4, <1>5, <1>6
<1> QED BY <1>2, <1>5, <1>7 DEF At

-----------------------------------------------------------------------------
(* Every step keeps the invariant. *)

(* A step of the handlers is a step of the scheduler, or invisible to it. *)
LEMMA SchedulerSteps == [MultiswapNext]_allVars => [Next]_vars
<1> SUFFICES ASSUME [MultiswapNext]_allVars PROVE [Next]_vars
  OBVIOUS
<1>1. CASE MultiswapNext
  BY <1>1 DEF MultiswapNext, SwapOut, PlacePage, WriteRemote, StoreDone, SwapIn,
              ReadRemote, LoadDone, Invalidate, Next
<1>2. CASE UNCHANGED allVars
  BY <1>2 DEF allVars
<1> QED BY <1>1, <1>2

(* An operation on p leaves the other page ids alone. *)
LEMMA OthersQuiet ==
  ASSUME TypeOK, NEW p \in PageIds,
         \/ SchedulerWrite(p) \/ AddMapping(p) \/ StoreReturns(p)
         \/ SchedulerRead(p) \/ LoadReturns(p) \/ InvalidatePage(p)
  PROVE  OnlyPage(p)
BY DEF TypeOK, OnlyPage, AddMapping, SchedulerWrite, ClearOldMapping, NoOldMapping,
       TakeSlot, OverrunMap, SkipMap, FallBack, GiveUp, InstallMapping, InstallFails,
       StoreReturns, SchedulerRead, LoadReturns, InvalidatePage

(* What PageOK looks at has not changed for page id q. *)
LEMMA PageFrame ==
  ASSUME NEW q \in PageIds, PageOK(q),
         pc'[q] = pc[q], page'[q] = page[q],
         q \in frontswap' <=> q \in frontswap, q \in moved' <=> q \in moved,
         q \in frontswap \/ Transferring(q) => At(q)' = At(q)
  PROVE  PageOK(q)'
BY DEF PageOK, Storing, Transferring

(* A step that leaves the memory of the nodes alone: only p's own clauses   *)
(* have to be checked.                                                      *)
LEMMA MemoryKept ==
  ASSUME MInv, NEW p \in PageIds, OnlyPage(p), UNCHANGED remote,
         \A q \in PageIds \ {p} : page'[q] = page[q] /\ (q \in moved' <=> q \in moved),
         PageOK(p)'
  PROVE  \A q \in PageIds : PageOK(q)'
<1> SUFFICES ASSUME NEW q \in PageIds, q # p PROVE PageOK(q)'
  OBVIOUS
<1>1. /\ pc'[q] = pc[q] /\ i_pages'[q] = i_pages[q]
      /\ q \in frontswap' <=> q \in frontswap
  BY DEF OnlyPage
<1>2. At(q)' = At(q)
  BY <1>1 DEF At
<1> QED BY <1>1, <1>2, PageFrame DEF MInv

(* The steps of a store before its transfer. *)
LEMMA PlaceKeeps ==
  ASSUME MInv, NEW p \in PageIds, AddMapping(p)
  PROVE  /\ frontswap' = frontswap
         /\ Storing(p) /\ p \notin frontswap /\ p \notin moved
         /\ Storing(p)'
<1>1. /\ frontswap' = frontswap
      /\ pc[p] \in {"replace", "select", "install"}
      /\ pc'[p] \in {"replace", "select", "install", "write"}
  BY NeverOverruns
     DEF MInv, IInv, TypeOK, AddMapping, ClearOldMapping, NoOldMapping,
         TakeSlot, SkipMap, FallBack, GiveUp, InstallMapping, InstallFails
<1> QED BY <1>1 DEF MInv, PageOK, Storing, Transferring

(* The memory keeps its shape. *)
LEMMA StepMemoryTypes ==
  ASSUME MInv, NEW p \in PageIds,
         \/ \E d \in Data : SwapOut(p, d)
         \/ PlacePage(p) \/ WriteRemote(p) \/ StoreDone(p) \/ SwapIn(p)
         \/ ReadRemote(p) \/ LoadDone(p) \/ Invalidate(p)
  PROVE  MemoryTypes'
<1> USE DEF MInv, MemoryTypes, Content
<1>1. CASE \E d \in Data : SwapOut(p, d)
  BY <1>1 DEF SwapOut
<1>2. CASE PlacePage(p) \/ SwapIn(p) \/ Invalidate(p)
  BY <1>2 DEF PlacePage, SwapIn, Invalidate, memoryVars
<1>3. CASE WriteRemote(p)
  <2>1. call[p].type \in Node /\ call[p].slot \in Slot
    BY <1>3, TransferAt DEF WriteRemote, Transferring
  <2>2. [remote[call[p].type] EXCEPT ![call[p].slot] = page[p]] \in [Slot -> Content]
    BY <2>1
  <2> QED BY <1>3, <2>1, <2>2 DEF WriteRemote
<1>4. CASE ReadRemote(p)
  <2>1. call[p].type \in Node /\ call[p].slot \in Slot
    BY <1>4, TransferAt DEF ReadRemote, Transferring
  <2> QED BY <1>4, <2>1 DEF ReadRemote
<1>5. CASE StoreDone(p) \/ LoadDone(p)
  BY <1>5 DEF StoreDone, LoadDone, LetGo
<1> QED BY <1>1, <1>2, <1>3, <1>4, <1>5

(* Every action of a handler keeps each page id's clauses. *)
LEMMA StepPageOK ==
  ASSUME MInv, NEW p \in PageIds,
         \/ \E d \in Data : SwapOut(p, d)
         \/ PlacePage(p) \/ WriteRemote(p) \/ StoreDone(p) \/ SwapIn(p)
         \/ ReadRemote(p) \/ LoadDone(p) \/ Invalidate(p)
  PROVE  \A q \in PageIds : PageOK(q)'
<1>t. /\ TypeOK /\ MemoryTypes
      /\ pc \in [PageIds -> {"idle", "replace", "select", "overrun", "install",
                            "write", "read"}]
      /\ page \in [PageIds -> Content]
  BY DEF MInv, IInv, TypeOK, MemoryTypes
<1>p. PageOK(p)
  BY DEF MInv
<1>1. CASE \E d \in Data : SwapOut(p, d)
  <2>1. PICK d \in Data : SwapOut(p, d)
    BY <1>1
  <2>2. /\ SchedulerWrite(p)
        /\ page' = [page EXCEPT ![p] = d]
        /\ remote' = remote /\ moved' = moved
    BY <2>1 DEF SwapOut
  <2>3. /\ pc[p] = "idle" /\ pc'[p] = "replace"
        /\ p \notin frontswap'
        /\ page'[p] = d
    BY <2>2, <1>t DEF SchedulerWrite
  <2>4. PageOK(p)'
    BY <2>2, <2>3, <1>p DEF PageOK, Storing, Transferring
  <2> QED BY <2>2, <2>4, <1>t, OthersQuiet, MemoryKept
<1>2. CASE PlacePage(p)
  <2>1. AddMapping(p) /\ remote' = remote /\ page' = page /\ moved' = moved
    BY <1>2 DEF PlacePage, memoryVars
  <2>2. PageOK(p)'
    BY <2>1, <1>p, PlaceKeeps DEF PageOK, Storing, Transferring
  <2> QED BY <2>1, <2>2, <1>t, OthersQuiet, MemoryKept
<1>3. CASE WriteRemote(p)
  <2>1. /\ pc[p] = "write" /\ pc' = pc /\ frontswap' = frontswap /\ page' = page
        /\ i_pages' = i_pages
        /\ moved' = moved \cup {p}
        /\ remote' = [remote EXCEPT ![call[p].type][call[p].slot] = page[p]]
    BY <1>3 DEF WriteRemote, vars
  <2>2. At(p)' = page[p]
    BY <2>1, <1>t, TransferAt DEF At, MInv, Transferring, MemoryTypes
  <2>3. PageOK(p)'
    BY <2>1, <2>2, <1>p DEF PageOK, Storing, Transferring
  <2>4. ASSUME NEW q \in PageIds, q # p PROVE PageOK(q)'
    BY <1>3, <2>1, <2>4, OtherSlotsKept, PageFrame DEF MInv
  <2> QED BY <2>3, <2>4
<1>4. CASE StoreDone(p)
  <2>1. /\ StoreReturns(p) /\ (p \in moved \/ ~Accepted(p))
        /\ page' = [page EXCEPT ![p] = Blank]
        /\ moved' = moved \ {p} /\ remote' = remote
    BY <1>4 DEF StoreDone, TransferEnds, LetGo
  <2>2. /\ pc[p] = "write" /\ pc'[p] = "idle" /\ i_pages' = i_pages
    BY <2>1, <1>t DEF StoreReturns
  <2>3. p \in moved
    BY <2>1, <2>2, TransferAccepted DEF MInv, Transferring
  <2>4. At(p)' = At(p) /\ At(p) \in Data
    BY <2>1, <2>2, <2>3, <1>p DEF At, PageOK, Storing
  <2>5. PageOK(p)'
    BY <2>1, <2>2, <2>4 DEF PageOK, Storing, Transferring
  <2>6. \A q \in PageIds \ {p} : page'[q] = page[q] /\ (q \in moved' <=> q \in moved)
    BY <2>1, <1>t
  <2> QED BY <2>1, <2>5, <2>6, <1>t, OthersQuiet, MemoryKept
<1>5. CASE SwapIn(p)
  <2>1. SchedulerRead(p) /\ remote' = remote /\ page' = page /\ moved' = moved
    BY <1>5 DEF SwapIn, memoryVars
  <2>2. /\ pc[p] = "idle" /\ pc'[p] = "read" /\ i_pages' = i_pages
        /\ frontswap' = frontswap /\ p \in frontswap
    BY <2>1, <1>t DEF SchedulerRead
  <2>3. PageOK(p)'
    BY <2>1, <2>2, <1>p DEF PageOK, Storing, Transferring, At
  <2> QED BY <2>1, <2>3, <1>t, OthersQuiet, MemoryKept
<1>6. CASE ReadRemote(p)
  <2>1. /\ pc[p] = "read" /\ UNCHANGED <<vars, remote>>
        /\ moved' = moved \cup {p}
        /\ page' = [page EXCEPT ![p] = remote[call[p].type][call[p].slot]]
    BY <1>6 DEF ReadRemote
  <2>2. page'[p] = At(p) /\ At(p)' = At(p)
    BY <2>1, <1>t, TransferAt DEF At, MInv, Transferring, vars
  <2>3. PageOK(p)'
    BY <2>1, <2>2, <1>p DEF PageOK, Storing, Transferring, vars
  <2>4. OnlyPage(p)
    BY <2>1 DEF OnlyPage, vars
  <2>5. \A q \in PageIds \ {p} : page'[q] = page[q] /\ (q \in moved' <=> q \in moved)
    BY <2>1, <1>t
  <2> QED BY <2>1, <2>3, <2>4, <2>5, MemoryKept
<1>7. CASE LoadDone(p)
  <2>1. /\ LoadReturns(p)
        /\ page' = [page EXCEPT ![p] = Blank]
        /\ moved' = moved \ {p} /\ remote' = remote
    BY <1>7 DEF LoadDone, LetGo
  <2>2. /\ pc[p] = "read" /\ pc'[p] = "idle" /\ i_pages' = i_pages
        /\ frontswap' = frontswap
    BY <2>1, <1>t DEF LoadReturns
  <2>3. PageOK(p)'
    BY <2>1, <2>2, <1>p DEF PageOK, Storing, Transferring, At
  <2>4. \A q \in PageIds \ {p} : page'[q] = page[q] /\ (q \in moved' <=> q \in moved)
    BY <2>1, <1>t
  <2> QED BY <2>1, <2>3, <2>4, <1>t, OthersQuiet, MemoryKept
<1>8. CASE Invalidate(p)
  <2>1. InvalidatePage(p) /\ remote' = remote /\ page' = page /\ moved' = moved
    BY <1>8 DEF Invalidate, memoryVars
  <2>2. pc[p] = "idle" /\ pc' = pc /\ p \notin frontswap'
    BY <2>1 DEF InvalidatePage
  <2>3. PageOK(p)'
    BY <2>1, <2>2, <1>p DEF PageOK, Storing, Transferring
  <2> QED BY <2>1, <2>3, <1>t, OthersQuiet, MemoryKept
<1> QED BY <1>1, <1>2, <1>3, <1>4, <1>5, <1>6, <1>7, <1>8

(* The invariant holds when the module has been loaded. *)
LEMMA InitMInv == MultiswapInit => MInv
<1> SUFFICES ASSUME MultiswapInit PROVE MInv
  OBVIOUS
<1>1. IInv
  BY InitIInv DEF MultiswapInit
<1>2. MemoryTypes
  BY DEF MultiswapInit, MemoryTypes, Content
<1>3. \A p \in PageIds : PageOK(p)
  BY DEF MultiswapInit, Init, PageOK, Storing
<1> QED BY <1>1, <1>2, <1>3 DEF MInv

(* Every step preserves it. *)
LEMMA NextMInv ==
  ASSUME XaMayFail = FALSE
  PROVE  MInv /\ [MultiswapNext]_allVars => MInv'
<1> SUFFICES ASSUME MInv, [MultiswapNext]_allVars PROVE MInv'
  OBVIOUS
<1>1. IInv'
  BY SchedulerSteps, NextIInv DEF MInv
<1>2. CASE MultiswapNext
  <2>1. PICK p \in PageIds :
          \/ \E d \in Data : SwapOut(p, d)
          \/ PlacePage(p) \/ WriteRemote(p) \/ StoreDone(p) \/ SwapIn(p)
          \/ ReadRemote(p) \/ LoadDone(p) \/ Invalidate(p)
    BY <1>2 DEF MultiswapNext
  <2>2. MemoryTypes' /\ \A q \in PageIds : PageOK(q)'
    BY <2>1, StepMemoryTypes, StepPageOK
  <2> QED BY <1>1, <2>2 DEF MInv
<1>3. CASE UNCHANGED allVars
  <2>1. MemoryTypes'
    BY <1>3 DEF MInv, allVars, memoryVars, MemoryTypes
  <2>2. \A q \in PageIds : PageOK(q)'
    BY <1>3, PageFrame DEF MInv, allVars, memoryVars, vars, At
  <2> QED BY <1>1, <2>1, <2>2 DEF MInv
<1> QED BY <1>2, <1>3

-----------------------------------------------------------------------------
(* The refinement. *)

(* A page id stands still for SwapStore when its record, its pc class and   *)
(* what its slot holds do.                                                  *)
LEMMA StoredKept ==
  ASSUME NEW q \in PageIds,
         q \in frontswap' <=> q \in frontswap,
         q \in frontswap => At(q)' = At(q)
  PROVE  storedMapping'[q] = storedMapping[q]
BY DEF storedMapping, At

(* Nothing is stored when the module has been loaded. *)
LEMMA InitRefines == MultiswapInit => Abstract!Init
BY DEF MultiswapInit, Init, Abstract!Init, storedMapping, busyMapping

(* A scheduler step on p that leaves the memory of the nodes alone changes  *)
(* the abstract state of p only.                                            *)
LEMMA OnlyPageMaps ==
  ASSUME NEW p \in PageIds, OnlyPage(p), UNCHANGED remote
  PROVE  /\ storedMapping' = [storedMapping EXCEPT ![p] = storedMapping'[p]]
         /\ busyMapping' = [busyMapping EXCEPT ![p] = busyMapping'[p]]
<1>1. ASSUME NEW q \in PageIds, q # p
      PROVE  storedMapping'[q] = storedMapping[q] /\ busyMapping'[q] = busyMapping[q]
  <2>1. /\ pc'[q] = pc[q] /\ i_pages'[q] = i_pages[q]
        /\ q \in frontswap' <=> q \in frontswap
    BY <1>1 DEF OnlyPage
  <2>2. At(q)' = At(q)
    BY <2>1 DEF At
  <2>3. storedMapping'[q] = storedMapping[q]
    BY <1>1, <2>1, <2>2, StoredKept
  <2> QED BY <1>1, <2>1, <2>3 DEF busyMapping
<1>2. /\ storedMapping = [q \in PageIds |-> storedMapping[q]]
      /\ storedMapping' = [q \in PageIds |-> storedMapping'[q]]
      /\ busyMapping = [q \in PageIds |-> busyMapping[q]]
      /\ busyMapping' = [q \in PageIds |-> busyMapping'[q]]
  BY DEF storedMapping, busyMapping
<1> QED BY <1>1, <1>2

(* Each action of the handlers is the action of SwapStore it stands for, or *)
(* a step that SwapStore does not see.                                      *)
LEMMA StepRefines ==
  ASSUME MInv, MInv', NEW p \in PageIds,
         \/ \E d \in Data : SwapOut(p, d)
         \/ PlacePage(p) \/ WriteRemote(p) \/ StoreDone(p) \/ SwapIn(p)
         \/ ReadRemote(p) \/ LoadDone(p) \/ Invalidate(p)
  PROVE  [Abstract!Next]_(Abstract!vars)
<1>t. /\ TypeOK
      /\ pc \in [PageIds -> {"idle", "replace", "select", "overrun", "install",
                            "write", "read"}]
      /\ pc' \in [PageIds -> {"idle", "replace", "select", "overrun", "install",
                            "write", "read"}]
      /\ page \in [PageIds -> Content]
  BY DEF MInv, IInv, TypeOK, MemoryTypes
<1>p. PageOK(p) /\ PageOK(p)'
  BY DEF MInv
<1>1. CASE \E d \in Data : SwapOut(p, d)
  <2>1. PICK d \in Data : SwapOut(p, d)
    BY <1>1
  <2>2. /\ SchedulerWrite(p)
        /\ page' = [page EXCEPT ![p] = d]
        /\ remote' = remote
    BY <2>1 DEF SwapOut
  <2>3. pc[p] = "idle" /\ pc'[p] = "replace" /\ p \notin frontswap'
    BY <2>2, <1>t DEF SchedulerWrite
  <2>4. busyMapping[p] = "idle" /\ busyMapping'[p] = "out" /\ storedMapping'[p] = Blank
    BY <2>3 DEF busyMapping, storedMapping
  <2>5. OnlyPage(p)
    BY <2>2, <1>t, OthersQuiet
  <2>6. Abstract!BeginOut(p, d)
    BY <2>2, <2>4, <2>5, OnlyPageMaps DEF Abstract!BeginOut
  <2> QED BY <2>6 DEF Abstract!Next
<1>2. CASE PlacePage(p)
  <2>1. AddMapping(p) /\ remote' = remote /\ page' = page
    BY <1>2 DEF PlacePage, memoryVars
  <2>2. OnlyPage(p)
    BY <2>1, <1>t, OthersQuiet
  <2>3. /\ pc[p] \in {"replace", "select", "install", "write"}
        /\ pc'[p] \in {"replace", "select", "install", "write"}
        /\ p \notin frontswap /\ p \notin frontswap'
    BY <2>1, PlaceKeeps DEF Storing
  <2>4. storedMapping'[p] = storedMapping[p] /\ busyMapping'[p] = busyMapping[p]
    BY <2>3 DEF storedMapping, busyMapping
  <2>5. /\ storedMapping = [storedMapping EXCEPT ![p] = storedMapping[p]]
        /\ busyMapping = [busyMapping EXCEPT ![p] = busyMapping[p]]
    BY DEF storedMapping, busyMapping
  <2>6. storedMapping' = storedMapping /\ busyMapping' = busyMapping
    BY <2>1, <2>2, <2>4, <2>5, OnlyPageMaps
  <2> QED BY <2>1, <2>6 DEF Abstract!vars
<1>3. CASE WriteRemote(p)
  <2>1. pc[p] = "write" /\ UNCHANGED <<vars, page>>
    BY <1>3 DEF WriteRemote
  <2>2. ASSUME NEW q \in PageIds PROVE storedMapping'[q] = storedMapping[q]
    <3>1. q \in frontswap => q # p
      BY <2>1, <1>p DEF PageOK, Storing
    <3>2. q \in frontswap => At(q)' = At(q)
      BY <1>3, <3>1, OtherSlotsKept
    <3> QED BY <2>1, <3>2, StoredKept DEF vars
  <2>3. storedMapping' = storedMapping
    BY <2>2 DEF storedMapping
  <2>4. busyMapping' = busyMapping
    BY <2>1 DEF busyMapping, vars
  <2> QED BY <2>1, <2>3, <2>4 DEF Abstract!vars
<1>4. CASE StoreDone(p)
  <2>1. /\ StoreReturns(p) /\ (p \in moved \/ ~Accepted(p))
        /\ page' = [page EXCEPT ![p] = Blank]
        /\ remote' = remote
    BY <1>4 DEF StoreDone, TransferEnds, LetGo
  <2>2. /\ pc[p] = "write" /\ pc'[p] = "idle" /\ i_pages' = i_pages
    BY <2>1, <1>t DEF StoreReturns
  <2>3. Accepted(p)
    BY <2>2, TransferAccepted DEF MInv, Transferring
  <2>4. At(p)' = page[p]
    BY <2>1, <2>2, <2>3, <1>p DEF At, PageOK
  <2>5. p \in frontswap'
    BY <2>1, <2>3 DEF StoreReturns, Accepted
  <2>6. busyMapping[p] = "out" /\ busyMapping'[p] = "idle" /\ storedMapping'[p] = page[p]
    BY <2>2, <2>4, <2>5 DEF busyMapping, storedMapping, At
  <2>7. OnlyPage(p)
    BY <2>1, <1>t, OthersQuiet
  <2>8. Abstract!EndOut(p)
    BY <2>1, <2>6, <2>7, OnlyPageMaps DEF Abstract!EndOut
  <2> QED BY <2>8 DEF Abstract!Next
<1>5. CASE SwapIn(p)
  <2>1. SchedulerRead(p) /\ remote' = remote /\ page' = page
    BY <1>5 DEF SwapIn, memoryVars
  <2>2. /\ pc[p] = "idle" /\ pc'[p] = "read" /\ i_pages' = i_pages
        /\ frontswap' = frontswap /\ p \in frontswap
    BY <2>1, <1>t DEF SchedulerRead
  <2>3. /\ busyMapping[p] = "idle" /\ busyMapping'[p] = "in"
        /\ storedMapping[p] # Blank /\ storedMapping' = storedMapping
    BY <2>1, <2>2, <1>p, DataAssumption DEF busyMapping, storedMapping, At, PageOK
  <2>4. OnlyPage(p)
    BY <2>1, <1>t, OthersQuiet
  <2>5. Abstract!BeginIn(p)
    BY <2>1, <2>3, <2>4, OnlyPageMaps DEF Abstract!BeginIn
  <2> QED BY <2>5 DEF Abstract!Next
<1>6. CASE ReadRemote(p)
  <2>1. /\ pc[p] = "read" /\ UNCHANGED <<vars, remote>>
        /\ page' = [page EXCEPT ![p] = remote[call[p].type][call[p].slot]]
    BY <1>6 DEF ReadRemote
  <2>2. remote[call[p].type][call[p].slot] = storedMapping[p]
    BY <2>1, <1>p, TransferAt DEF storedMapping, MInv, Transferring, PageOK
  <2>3. busyMapping[p] = "in" /\ busyMapping' = busyMapping /\ storedMapping' = storedMapping
    BY <2>1 DEF busyMapping, storedMapping, vars
  <2>4. Abstract!Fetch(p)
    BY <2>1, <2>2, <2>3 DEF Abstract!Fetch
  <2> QED BY <2>4 DEF Abstract!Next
<1>7. CASE LoadDone(p)
  <2>1. /\ LoadReturns(p) /\ (p \in moved \/ ~Accepted(p))
        /\ page' = [page EXCEPT ![p] = Blank]
        /\ remote' = remote
    BY <1>7 DEF LoadDone, TransferEnds, LetGo
  <2>2. /\ pc[p] = "read" /\ pc'[p] = "idle" /\ i_pages' = i_pages
        /\ frontswap' = frontswap
    BY <2>1, <1>t DEF LoadReturns
  <2>3. p \in moved
    BY <2>1, <2>2, TransferAccepted DEF MInv, Transferring
  <2>4. page[p] = storedMapping[p]
    BY <2>2, <2>3, <1>p DEF PageOK, storedMapping, At
  <2>5. busyMapping[p] = "in" /\ busyMapping'[p] = "idle" /\ storedMapping' = storedMapping
    BY <2>1, <2>2 DEF busyMapping, storedMapping
  <2>6. OnlyPage(p)
    BY <2>1, <1>t, OthersQuiet
  <2>7. Abstract!EndIn(p)
    BY <2>1, <2>4, <2>5, <2>6, OnlyPageMaps DEF Abstract!EndIn
  <2> QED BY <2>7 DEF Abstract!Next
<1>8. CASE Invalidate(p)
  <2>1. InvalidatePage(p) /\ remote' = remote /\ page' = page
    BY <1>8 DEF Invalidate, memoryVars
  <2>2. pc[p] = "idle" /\ pc' = pc /\ p \notin frontswap'
    BY <2>1 DEF InvalidatePage
  <2>3. busyMapping[p] = "idle" /\ busyMapping' = busyMapping /\ storedMapping'[p] = Blank
    BY <2>2 DEF busyMapping, storedMapping
  <2>4. OnlyPage(p)
    BY <2>1, <1>t, OthersQuiet
  <2>5. Abstract!Free(p)
    BY <2>1, <2>3, <2>4, OnlyPageMaps DEF Abstract!Free
  <2> QED BY <2>5 DEF Abstract!Next
<1> QED BY <1>1, <1>2, <1>3, <1>4, <1>5, <1>6, <1>7, <1>8

(* So does a stuttering step. *)
LEMMA NextRefines ==
  MInv /\ MInv' /\ [MultiswapNext]_allVars => [Abstract!Next]_(Abstract!vars)
<1> SUFFICES ASSUME MInv, MInv', [MultiswapNext]_allVars
             PROVE  [Abstract!Next]_(Abstract!vars)
  OBVIOUS
<1>1. CASE MultiswapNext
  BY <1>1, StepRefines DEF MultiswapNext
<1>2. CASE UNCHANGED allVars
  BY <1>2 DEF allVars, memoryVars, vars, Abstract!vars, storedMapping, busyMapping
<1> QED BY <1>1, <1>2

(* sswap_store and sswap_load (multiswap.c:60-145) over the scheduler and *)
(* one-sided transfers implement SwapStore: a load that completes returns   *)
(* what the last successful store of its page id wrote, whatever calls on   *)
(* other page ids run meanwhile, as long as xa_store finds memory.          *)
THEOREM Refinement ==
  ASSUME XaMayFail = FALSE
  PROVE  MultiswapSpec => Implements
<1>1. MultiswapInit => MInv /\ Abstract!Init
  BY InitMInv, InitRefines
<1>2. MInv /\ [MultiswapNext]_allVars => MInv'
  BY NextMInv
<1>3. MInv /\ MInv' /\ [MultiswapNext]_allVars => [Abstract!Next]_(Abstract!vars)
  BY NextRefines
<1> QED BY <1>1, <1>2, <1>3, PTL DEF MultiswapSpec, Implements, Abstract!Spec

(* Nor does any transfer of the handlers (multiswap.c:95, 139) reach past   *)
(* what the memory server owns.                                             *)
THEOREM HandlersRespectBuffer ==
  ASSUME XaMayFail = FALSE
  PROVE  MultiswapSpec => []WithinServerBuffer
<1>1. MultiswapInit => MInv
  BY InitMInv
<1>2. MInv /\ [MultiswapNext]_allVars => MInv'
  BY NextMInv
<1>3. MInv => WithinServerBuffer
  BY ServerBufferHolds DEF MInv
<1> QED BY <1>1, <1>2, <1>3, PTL DEF MultiswapSpec
=============================================================================
