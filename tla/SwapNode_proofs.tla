--------------------------- MODULE SwapNode_proofs ---------------------------
(***************************************************************************)
(* TLAPS proves the properties of the compute node around multiswap.c, and *)
(* that it implements SwapStore, for every size of the buffers, every set  *)
(* of page ids and contents, and any number of pages being swapped.  What  *)
(* depends on the operator assumes a careful one.                          *)
(***************************************************************************)
EXTENDS SwapNode, SchedulerLoad_proofs

-----------------------------------------------------------------------------
(* The inductive invariant. *)

(* While swapping is on the handlers are those of an inserted module, or    *)
(* none; what is swapped out is so only while swapping is on, and what is   *)
(* with frontswap has handlers and a buffer behind it.                      *)
HandlersOK ==
  /\ swap => ops # "stale"
  /\ \A p \in PageIds :
       /\ pc[p] # "idle" \/ p \in frontswap \/ disk[p] # Blank => swap
       /\ p \in frontswap => ops = "live" /\ buffer /\ ~Refused(p)

(* What is stored for p, when the memory node owns its place.               *)
Kept(p) == IF p \in frontswap THEN memory[Place(p)][p] ELSE disk[p]

(* Where the swapping of p stands tells where its content is.               *)
ContentOK(p) ==
  /\ pc[p] \in {"idle", "load"} => page[p] = Blank
  /\ pc[p] = "store" => page[p] \in Data /\ p \notin frontswap /\ disk[p] = Blank
  /\ pc[p] \in {"load", "loaded"} => p \in frontswap \/ disk[p] # Blank
  /\ pc[p] = "loaded" /\ ~Lost(p) => page[p] = Kept(p)
  /\ p \in frontswap /\ ~Lost(p) => Kept(p) # Blank

NodeInv ==
  /\ CarefulOperator
  /\ NodeTypeOK
  /\ HandlersOK
  /\ \A p \in PageIds : ContentOK(p)
  /\ OopsMeansNoBuffer

-----------------------------------------------------------------------------
(* A build does not change. *)

LEMMA PlaceNode == \A p : Place(p) \in Node
BY DEF Place, Dev, schedule_node, CoarseDev, Node

LEMMA SameBuild ==
  ASSUME build' = build, NEW p
  PROVE  /\ Refused(p)' <=> Refused(p)
         /\ Owned(p)' <=> Owned(p)
         /\ Lost(p)' <=> Lost(p)
         /\ Place(p)' = Place(p)
BY DEF Refused, Owned, Lost, Place, Dev

(* What concerns page q stays as it is. *)
SamePage(q) ==
  /\ pc'[q] = pc[q] /\ page'[q] = page[q] /\ disk'[q] = disk[q]
  /\ q \in frontswap' <=> q \in frontswap
  /\ q \in frontswap => memory'[Place(q)][q] = memory[Place(q)][q]

LEMMA ContentFrame ==
  ASSUME build' = build, NEW q \in PageIds, SamePage(q), ContentOK(q)
  PROVE  ContentOK(q)'
BY SameBuild DEF SamePage, ContentOK, Kept

-----------------------------------------------------------------------------
(* Every step keeps the invariant. *)

LEMMA InitNodeInv == CarefulOperator /\ NodeInit => NodeInv
<1> SUFFICES ASSUME CarefulOperator, NodeInit PROVE NodeInv
  OBVIOUS
<1>1. NodeTypeOK
  BY DEF NodeInit, NodeTypeOK, Empty
<1>2. HandlersOK /\ OopsMeansNoBuffer
  BY DEF NodeInit, HandlersOK, OopsMeansNoBuffer
<1>3. \A p \in PageIds : ContentOK(p)
  BY DEF NodeInit, ContentOK
<1> QED BY <1>1, <1>2, <1>3 DEF NodeInv

(* The operator's steps leave the pages alone; memory goes only when none   *)
(* is with frontswap.                                                       *)
LEMMA OperatorPages ==
  ASSUME NodeInv, Operator
  PROVE  /\ build' = build /\ oops' = oops
         /\ \A q \in PageIds : SamePage(q)
<1> USE DEF NodeInv, HandlersOK, NodeTypeOK, SamePage, pageVars
<1>1. CASE InsertBackend
  <2>1. ASSUME NEW q \in PageIds PROVE q \notin frontswap
    BY <1>1 DEF InsertBackend
  <2> QED BY <1>1, <2>1 DEF InsertBackend
<1>2. CASE Restart
  <2>1. ASSUME NEW q \in PageIds PROVE q \notin frontswap
    BY <1>2 DEF Restart
  <2> QED BY <1>2, <2>1 DEF Restart
<1>3. CASE ~InsertBackend /\ ~Restart
  BY <1>3 DEF Operator, RemoveBackend, InitSswap, ExitSswap, Scheduler, SwapOn, SwapOff,
              loaderVars
<1> QED BY <1>1, <1>2, <1>3

LEMMA OperatorTypes ==
  ASSUME NodeTypeOK, Operator
  PROVE  NodeTypeOK'
<1> USE DEF NodeTypeOK, loaderVars, pageVars
<1>1. CASE InsertBackend
  BY <1>1 DEF InsertBackend, Empty
<1>2. CASE RemoveBackend
  BY <1>2 DEF RemoveBackend, MayRemove
<1>3. CASE InitSswap
  BY <1>3 DEF InitSswap
<1>4. CASE ExitSswap
  BY <1>4 DEF ExitSswap, MayRemove
<1>5. CASE Scheduler
  BY <1>5 DEF Scheduler
<1>6. CASE SwapOn
  BY <1>6 DEF SwapOn
<1>7. CASE SwapOff
  BY <1>7 DEF SwapOff
<1>8. CASE Restart
  BY <1>8 DEF Restart, Empty
<1> QED BY <1>1, <1>2, <1>3, <1>4, <1>5, <1>6, <1>7, <1>8 DEF Operator

LEMMA OperatorHandlers ==
  ASSUME NodeInv, Operator
  PROVE  HandlersOK'
<1> USE DEF NodeInv, NodeTypeOK, HandlersOK, loaderVars, pageVars
<1>0. \A p \in PageIds : Refused(p)' <=> Refused(p)
  BY OperatorPages, SameBuild
<1>1. CASE InsertBackend
  BY <1>0, <1>1 DEF InsertBackend
<1>2. CASE RemoveBackend
  BY <1>0, <1>2 DEF RemoveBackend, MayRemove
<1>3. CASE InitSswap
  BY <1>0, <1>3 DEF InitSswap
<1>4. CASE ExitSswap
  BY <1>0, <1>4 DEF ExitSswap, MayRemove
<1>5. CASE Scheduler
  BY <1>0, <1>5 DEF Scheduler
<1>6. CASE SwapOn
  BY <1>0, <1>6 DEF SwapOn
<1>7. CASE SwapOff
  BY <1>0, <1>7 DEF SwapOff
<1>8. CASE Restart
  BY <1>0, <1>8 DEF Restart
<1> QED BY <1>1, <1>2, <1>3, <1>4, <1>5, <1>6, <1>7, <1>8 DEF Operator

LEMMA OperatorStep ==
  ASSUME NodeInv, ~oops, Operator
  PROVE  NodeInv'
<1>1. ASSUME NEW q \in PageIds PROVE ContentOK(q)'
  BY OperatorPages, ContentFrame DEF NodeInv
<1>2. OopsMeansNoBuffer'
  BY OperatorPages DEF OopsMeansNoBuffer
<1> QED BY <1>1, <1>2, OperatorTypes, OperatorHandlers DEF NodeInv

(* Swapping p leaves the other pages alone, and the modules. *)
LEMMA SwappingPages ==
  ASSUME NodeInv, NEW p \in PageIds, Swapping(p)
  PROVE  /\ UNCHANGED <<schedVars, build, loaderVars>>
         /\ \A q \in PageIds \ {p} : SamePage(q)
<1> USE DEF NodeInv, NodeTypeOK, SamePage, Step, Quiet, LetGo
<1>1. CASE \E d \in Data : BeginOut(p, d)
  BY <1>1 DEF BeginOut
<1>2. CASE SswapStore(p)
  BY <1>2, PlaceNode DEF SswapStore
<1>3. CASE SwapWrite(p)
  BY <1>3 DEF SwapWrite
<1>4. CASE BeginIn(p) \/ SswapLoad(p) \/ SwapRead(p) \/ EndIn(p)
  BY <1>4 DEF BeginIn, SswapLoad, SwapRead, EndIn
<1>5. CASE CallToNowhere(p)
  BY <1>5 DEF CallToNowhere, Oops, pageVars
<1>6. CASE Free(p)
  BY <1>6 DEF Free
<1> QED BY <1>1, <1>2, <1>3, <1>4, <1>5, <1>6 DEF Swapping

LEMMA SwappingTypes ==
  ASSUME NodeTypeOK, NEW p \in PageIds, Swapping(p)
  PROVE  NodeTypeOK'
<1> USE DEF NodeTypeOK, Step, Quiet, LetGo, loaderVars
<1>1. CASE \E d \in Data : BeginOut(p, d)
  BY <1>1 DEF BeginOut
<1>2. CASE SswapStore(p)
  BY <1>2, PlaceNode DEF SswapStore
<1>3. CASE SwapWrite(p)
  BY <1>3 DEF SwapWrite
<1>4. CASE SswapLoad(p)
  BY <1>4, PlaceNode DEF SswapLoad, LoadPlace
<1>5. CASE BeginIn(p)
  BY <1>5 DEF BeginIn
<1>6. CASE SwapRead(p)
  BY <1>6 DEF SwapRead
<1>7. CASE EndIn(p)
  BY <1>7 DEF EndIn
<1>8. CASE CallToNowhere(p)
  BY <1>8 DEF CallToNowhere, Oops, pageVars
<1>9. CASE Free(p)
  BY <1>9 DEF Free
<1> QED BY <1>1, <1>2, <1>3, <1>4, <1>5, <1>6, <1>7, <1>8, <1>9 DEF Swapping

LEMMA SwappingHandlers ==
  ASSUME NodeInv, NEW p \in PageIds, Swapping(p)
  PROVE  HandlersOK'
<1> USE DEF NodeInv, NodeTypeOK, HandlersOK, Step, Quiet, LetGo, loaderVars
<1>0. \A q \in PageIds : Refused(q)' <=> Refused(q)
  BY SwappingPages, SameBuild
<1>1. CASE \E d \in Data : BeginOut(p, d)
  BY <1>0, <1>1 DEF BeginOut
<1>2. CASE SswapStore(p)
  BY <1>0, <1>2 DEF SswapStore
<1>3. CASE SwapWrite(p)
  BY <1>0, <1>3 DEF SwapWrite
<1>4. CASE BeginIn(p)
  BY <1>0, <1>4 DEF BeginIn
<1>5. CASE SswapLoad(p) \/ SwapRead(p) \/ EndIn(p)
  BY <1>0, <1>5 DEF SswapLoad, SwapRead, EndIn
<1>6. CASE CallToNowhere(p)
  BY <1>0, <1>6 DEF CallToNowhere, Oops, pageVars
<1>7. CASE Free(p)
  BY <1>0, <1>7 DEF Free
<1> QED BY <1>1, <1>2, <1>3, <1>4, <1>5, <1>6, <1>7 DEF Swapping

LEMMA SwappingContent ==
  ASSUME NodeInv, NEW p \in PageIds, Swapping(p)
  PROVE  ContentOK(p)'
<1> USE NodeAssumption DEF NodeInv, NodeTypeOK, ContentOK, Kept, Step, Quiet, LetGo
<1>0. Place(p)' = Place(p) /\ (Lost(p)' <=> Lost(p)) /\ Place(p) \in Node
  BY SwappingPages, SameBuild, PlaceNode
<1>1. CASE \E d \in Data : BeginOut(p, d)
  BY <1>0, <1>1 DEF BeginOut
<1>2. CASE SswapStore(p)
  <2>1. pc'[p] = "idle" /\ page'[p] = Blank
    BY <1>2 DEF SswapStore
  <2>2. ~Lost(p) => memory'[Place(p)][p] = page[p]
    BY <1>0, <1>2 DEF SswapStore, Lost
  <2>3. page[p] # Blank
    BY <1>2 DEF SswapStore
  <2> QED BY <1>0, <2>1, <2>2, <2>3
<1>3. CASE SwapWrite(p)
  BY <1>0, <1>3 DEF SwapWrite
<1>4. CASE BeginIn(p)
  BY <1>0, <1>4 DEF BeginIn
<1>5. CASE SswapLoad(p)
  BY <1>0, <1>5 DEF SswapLoad, LoadPlace
<1>6. CASE SwapRead(p)
  BY <1>0, <1>6 DEF SwapRead
<1>7. CASE EndIn(p)
  BY <1>0, <1>7 DEF EndIn
<1>8. CASE CallToNowhere(p)
  BY <1>0, <1>8 DEF CallToNowhere, Oops, pageVars
<1>9. CASE Free(p)
  BY <1>0, <1>9 DEF Free
<1> QED BY <1>1, <1>2, <1>3, <1>4, <1>5, <1>6, <1>7, <1>8, <1>9 DEF Swapping

LEMMA SwappingStep ==
  ASSUME NodeInv, ~oops, NEW p \in PageIds, Swapping(p)
  PROVE  NodeInv'
<1>1. ASSUME NEW q \in PageIds PROVE ContentOK(q)'
  <2>1. CASE q = p
    BY <2>1, SwappingContent
  <2>2. CASE q # p
    BY <2>2, SwappingPages, ContentFrame DEF NodeInv
  <2> QED BY <2>1, <2>2
<1>2. OopsMeansNoBuffer'
  <2>1. CASE CallToNowhere(p)
    <3>1. loaded' = loaded /\ buffer' = buffer
      BY SwappingPages DEF loaderVars
    <3>2. swap
      BY <2>1 DEF CallToNowhere, NodeInv, HandlersOK
    <3>3. ops # "stale" /\ ops # "none" /\ ~buffer
      BY <2>1, <3>2 DEF CallToNowhere, NodeInv, HandlersOK
    <3>4. "backend" \in loaded
      BY <3>3 DEF NodeInv, NodeTypeOK
    <3> QED BY <3>1, <3>3, <3>4 DEF OopsMeansNoBuffer
  <2>2. CASE ~CallToNowhere(p)
    <3>1. oops' = oops
      BY <2>2 DEF Swapping, BeginOut, SswapStore, SwapWrite, BeginIn, SswapLoad, SwapRead,
                  EndIn, Free, Quiet
    <3> QED BY <3>1 DEF OopsMeansNoBuffer
  <2> QED BY <2>1, <2>2
<1> QED BY <1>1, <1>2, SwappingTypes, SwappingHandlers DEF NodeInv

LEMMA NextNodeInv == NodeInv /\ [NodeNext]_nodeVars => NodeInv'
<1> SUFFICES ASSUME NodeInv, [NodeNext]_nodeVars PROVE NodeInv'
  OBVIOUS
<1>1. CASE NodeNext
  BY <1>1, OperatorStep, SwappingStep DEF NodeNext
<1>2. CASE UNCHANGED nodeVars
  <2> USE <1>2 DEF nodeVars, loaderVars, pageVars
  <2>1. ASSUME NEW q \in PageIds PROVE ContentOK(q)'
    BY ContentFrame DEF NodeInv, SamePage
  <2>2. NodeTypeOK' /\ OopsMeansNoBuffer'
    BY DEF NodeInv, NodeTypeOK, OopsMeansNoBuffer
  <2>3. HandlersOK'
    BY SameBuild DEF NodeInv, HandlersOK
  <2> QED BY <2>1, <2>2, <2>3 DEF NodeInv
<1> QED BY <1>1, <1>2

LEMMA Invariance ==
  ASSUME CarefulOperator
  PROVE  NodeSpec => []NodeInv
<1>1. NodeInit => NodeInv
  BY InitNodeInv
<1> QED BY <1>1, NextNodeInv, PTL DEF NodeSpec

-----------------------------------------------------------------------------
(* Every step is a step of the array of pages, or invisible to it. *)

LEMMA StoredIs ==
  ASSUME NEW p \in PageIds
  PROVE  storedMapping[p] = IF Lost(p) THEN Blank ELSE Kept(p)
BY DEF storedMapping, Kept

LEMMA BusyIs ==
  ASSUME NEW p \in PageIds
  PROVE  busyMapping[p] = IF Lost(p) \/ pc[p] = "idle" THEN "idle"
                          ELSE IF pc[p] = "store" THEN "out" ELSE "in"
BY DEF busyMapping

LEMMA StoredKept ==
  ASSUME build' = build, NEW q \in PageIds, SamePage(q)
  PROVE  /\ storedMapping'[q] = storedMapping[q]
         /\ busyMapping'[q] = busyMapping[q]
         /\ pageMapping'[q] = pageMapping[q]
BY SameBuild DEF SamePage, storedMapping, busyMapping, pageMapping

LEMMA MappingDomains ==
  /\ storedMapping = [q \in PageIds |-> storedMapping[q]]
  /\ busyMapping = [q \in PageIds |-> busyMapping[q]]
  /\ pageMapping = [q \in PageIds |-> pageMapping[q]]
  /\ storedMapping' = [q \in PageIds |-> storedMapping'[q]]
  /\ busyMapping' = [q \in PageIds |-> busyMapping'[q]]
  /\ pageMapping' = [q \in PageIds |-> pageMapping'[q]]
BY DEF storedMapping, busyMapping, pageMapping

(* What changes for p only is an update of the maps at p. *)
LEMMA OnlyPageMaps ==
  ASSUME build' = build, NEW p \in PageIds, \A q \in PageIds \ {p} : SamePage(q)
  PROVE  /\ storedMapping' = [storedMapping EXCEPT ![p] = storedMapping'[p]]
         /\ busyMapping' = [busyMapping EXCEPT ![p] = busyMapping'[p]]
         /\ pageMapping' = [pageMapping EXCEPT ![p] = pageMapping'[p]]
<1>1. \A q \in PageIds \ {p} : /\ storedMapping'[q] = storedMapping[q]
                               /\ busyMapping'[q] = busyMapping[q]
                               /\ pageMapping'[q] = pageMapping[q]
  BY StoredKept
<1> QED BY <1>1, MappingDomains

(* When no page changes, the mapping does not change. *)
LEMMA SameMaps ==
  ASSUME build' = build, \A q \in PageIds : SamePage(q)
  PROVE  UNCHANGED Abstract!vars
<1>1. \A q \in PageIds : /\ storedMapping'[q] = storedMapping[q]
                         /\ busyMapping'[q] = busyMapping[q]
                         /\ pageMapping'[q] = pageMapping[q]
  BY StoredKept
<1> QED BY <1>1, MappingDomains DEF Abstract!vars

(* Nothing is promised of a lost page, and its steps show nowhere. *)
LEMMA LostStutters ==
  ASSUME build' = build, NEW p \in PageIds, \A q \in PageIds \ {p} : SamePage(q), Lost(p)
  PROVE  UNCHANGED Abstract!vars
<1>1. Lost(p)'
  BY SameBuild
<1>2. /\ storedMapping'[p] = storedMapping[p]
      /\ busyMapping'[p] = busyMapping[p]
      /\ pageMapping'[p] = pageMapping[p]
  BY <1>1 DEF storedMapping, busyMapping, pageMapping
<1> QED BY <1>2, OnlyPageMaps, MappingDomains DEF Abstract!vars

LEMMA SwappingRefines ==
  ASSUME NodeInv, NEW p \in PageIds, Swapping(p), ~Lost(p)
  PROVE  [Abstract!Next]_(Abstract!vars)
<1> USE DEF Step, Quiet, LetGo
<1>b. build' = build /\ ~Lost(p)' /\ Place(p)' = Place(p) /\ Place(p) \in Node
  BY SwappingPages, SameBuild, PlaceNode
<1>o. /\ storedMapping' = [storedMapping EXCEPT ![p] = storedMapping'[p]]
      /\ busyMapping' = [busyMapping EXCEPT ![p] = busyMapping'[p]]
      /\ pageMapping' = [pageMapping EXCEPT ![p] = pageMapping'[p]]
  BY <1>b, SwappingPages, OnlyPageMaps
<1>m. /\ storedMapping[p] = Kept(p) /\ storedMapping'[p] = Kept(p)'
      /\ pageMapping[p] = page[p] /\ pageMapping'[p] = page'[p]
  BY <1>b DEF storedMapping, pageMapping, Kept
<1>y. /\ pc[p] = "idle" => busyMapping[p] = "idle"
      /\ pc[p] = "store" => busyMapping[p] = "out"
      /\ pc[p] \in {"load", "loaded"} => busyMapping[p] = "in"
      /\ pc'[p] = "idle" => busyMapping'[p] = "idle"
      /\ pc'[p] = "store" => busyMapping'[p] = "out"
      /\ pc'[p] \in {"load", "loaded"} => busyMapping'[p] = "in"
  BY <1>b DEF busyMapping
<1>t. /\ pc \in [PageIds -> {"idle", "store", "load", "loaded"}]
      /\ page \in [PageIds -> Data \cup {Blank}]
      /\ disk \in [PageIds -> Data \cup {Blank}]
      /\ frontswap \subseteq PageIds
      /\ memory \in [Node -> [PageIds -> Data \cup {Blank}]]
  BY DEF NodeInv, NodeTypeOK
<1>c. ContentOK(p)
  BY DEF NodeInv
(* A step that leaves what is stored, and the page, as they are. *)
<1>k. ASSUME UNCHANGED <<memory, frontswap, disk>>
      PROVE  storedMapping'[p] = storedMapping[p] /\ storedMapping' = storedMapping
  <2>1. storedMapping'[p] = storedMapping[p]
    BY <1>b, <1>m, <1>k DEF Kept
  <2> QED BY <2>1, <1>o, MappingDomains
<1>1. ASSUME NEW d \in Data, BeginOut(p, d) PROVE Abstract!Next
  <2>1. pc[p] = "idle" /\ pc'[p] = "store" /\ page'[p] = d
    BY <1>1, <1>t DEF BeginOut
  <2>2. storedMapping'[p] = Blank
    BY <1>1, <1>m, <1>t DEF BeginOut, Kept
  <2>3. Abstract!BeginOut(p, d)
    BY <2>1, <2>2, <1>o, <1>m, <1>y DEF Abstract!BeginOut
  <2> QED BY <2>3 DEF Abstract!Next
<1>2. CASE SswapStore(p)
  <2>1. pc[p] = "store" /\ pc'[p] = "idle" /\ page'[p] = Blank /\ p \in frontswap'
    BY <1>2, <1>t DEF SswapStore
  <2>2. memory'[Place(p)][p] = page[p]
    BY <1>2, <1>b, <1>t DEF SswapStore, Lost
  <2>3. storedMapping'[p] = page[p]
    BY <2>1, <2>2, <1>b, <1>m DEF Kept
  <2>4. Abstract!EndOut(p)
    BY <2>1, <2>3, <1>o, <1>m, <1>y DEF Abstract!EndOut
  <2> QED BY <2>4 DEF Abstract!Next
<1>3. CASE SwapWrite(p)
  <2>1. pc[p] = "store" /\ pc'[p] = "idle" /\ page'[p] = Blank /\ p \notin frontswap'
    BY <1>3, <1>t, <1>c DEF SwapWrite, ContentOK
  <2>2. storedMapping'[p] = page[p]
    BY <2>1, <1>3, <1>t, <1>m DEF SwapWrite, Kept
  <2>3. Abstract!EndOut(p)
    BY <2>1, <2>2, <1>o, <1>m, <1>y DEF Abstract!EndOut
  <2> QED BY <2>3 DEF Abstract!Next
<1>4. CASE BeginIn(p)
  <2>1. pc[p] = "idle" /\ pc'[p] = "load" /\ UNCHANGED page
    BY <1>4, <1>t DEF BeginIn
  <2>2. storedMapping[p] # Blank
    BY <1>4, <1>m, <1>c DEF BeginIn, ContentOK, Kept
  <2>3. storedMapping' = storedMapping /\ pageMapping' = pageMapping
    BY <2>1, <1>4, <1>k, <1>o, <1>m, MappingDomains DEF BeginIn
  <2>4. Abstract!BeginIn(p)
    BY <2>1, <2>2, <2>3, <1>o, <1>y DEF Abstract!BeginIn
  <2> QED BY <2>4 DEF Abstract!Next
<1>5. CASE SswapLoad(p)
  <2>1. /\ pc[p] = "load" /\ pc'[p] = "loaded"
        /\ page'[p] = memory[Place(p)][p] /\ p \in frontswap
    BY <1>5, <1>t DEF SswapLoad, LoadPlace
  <2>2. storedMapping' = storedMapping /\ page'[p] = storedMapping[p]
    BY <2>1, <1>5, <1>k, <1>m DEF SswapLoad, Kept
  <2>3. busyMapping' = busyMapping
    BY <2>1, <1>o, <1>y, MappingDomains
  <2>4. Abstract!Fetch(p)
    BY <2>1, <2>2, <2>3, <1>o, <1>m, <1>y DEF Abstract!Fetch
  <2> QED BY <2>4 DEF Abstract!Next
<1>6. CASE SwapRead(p)
  <2>1. pc[p] = "load" /\ pc'[p] = "loaded" /\ page'[p] = disk[p] /\ p \notin frontswap
    BY <1>6, <1>t DEF SwapRead
  <2>2. storedMapping' = storedMapping /\ page'[p] = storedMapping[p]
    BY <2>1, <1>6, <1>k, <1>m DEF SwapRead, Kept
  <2>3. busyMapping' = busyMapping
    BY <2>1, <1>o, <1>y, MappingDomains
  <2>4. Abstract!Fetch(p)
    BY <2>1, <2>2, <2>3, <1>o, <1>m, <1>y DEF Abstract!Fetch
  <2> QED BY <2>4 DEF Abstract!Next
<1>7. CASE EndIn(p)
  <2>1. pc[p] = "loaded" /\ pc'[p] = "idle" /\ page'[p] = Blank
    BY <1>7, <1>t DEF EndIn
  <2>2. storedMapping' = storedMapping /\ page[p] = storedMapping[p]
    BY <2>1, <1>7, <1>k, <1>m, <1>c DEF EndIn, ContentOK
  <2>3. Abstract!EndIn(p)
    BY <2>1, <2>2, <1>o, <1>m, <1>y DEF Abstract!EndIn
  <2> QED BY <2>3 DEF Abstract!Next
<1>8. CASE CallToNowhere(p)
  <2>1. \A q \in PageIds : SamePage(q)
    BY <1>8 DEF CallToNowhere, Oops, pageVars, SamePage
  <2> QED BY <2>1, <1>b, SameMaps
<1>9. CASE Free(p)
  <2>1. pc[p] = "idle" /\ pc' = pc /\ page' = page
    BY <1>9 DEF Free
  <2>2. storedMapping'[p] = Blank
    BY <1>9, <1>m, <1>t DEF Free, Kept
  <2>3. busyMapping' = busyMapping /\ pageMapping' = pageMapping
    BY <2>1, <1>o, <1>m, <1>y, MappingDomains
  <2>4. Abstract!Free(p)
    BY <2>1, <2>2, <2>3, <1>o, <1>y DEF Abstract!Free
  <2> QED BY <2>4 DEF Abstract!Next
<1> QED BY <1>1, <1>2, <1>3, <1>4, <1>5, <1>6, <1>7, <1>8, <1>9 DEF Swapping

LEMMA NextRefines ==
  NodeInv /\ [NodeNext]_nodeVars => [Abstract!Next]_(Abstract!vars)
<1> SUFFICES ASSUME NodeInv, [NodeNext]_nodeVars
             PROVE  [Abstract!Next]_(Abstract!vars)
  OBVIOUS
<1>1. CASE Operator
  <2>1. build' = build /\ \A q \in PageIds : SamePage(q)
    BY <1>1, OperatorPages
  <2> QED BY <2>1, SameMaps
<1>2. ASSUME NEW p \in PageIds, Swapping(p)
      PROVE  [Abstract!Next]_(Abstract!vars)
  <2>1. build' = build /\ \A q \in PageIds \ {p} : SamePage(q)
    BY <1>2, SwappingPages
  <2>2. CASE Lost(p)
    BY <2>1, <2>2, LostStutters
  <2>3. CASE ~Lost(p)
    BY <1>2, <2>3, SwappingRefines
  <2> QED BY <2>2, <2>3
<1>3. CASE UNCHANGED nodeVars
  <2>1. build' = build /\ \A q \in PageIds : SamePage(q)
    BY <1>3 DEF nodeVars, pageVars, SamePage
  <2> QED BY <2>1, SameMaps
<1> QED BY <1>1, <1>2, <1>3 DEF NodeNext

LEMMA InitRefines == NodeInit => Abstract!Init
BY DEF NodeInit, Empty, Abstract!Init, storedMapping, busyMapping, pageMapping

-----------------------------------------------------------------------------
(* The types; handlers that frontswap calls imply their module, and the     *)
(* module its backend (insmod.sh, rmmod.sh and the loader's use counts).    *)
(* Any operator will do.                                                    *)
THEOREM NodeTypeCorrect == NodeSpec => []NodeTypeOK
<1>1. NodeInit => NodeTypeOK
  BY DEF NodeInit, NodeTypeOK, Empty
<1>2. NodeTypeOK /\ [NodeNext]_nodeVars => NodeTypeOK'
  <2> SUFFICES ASSUME NodeTypeOK, [NodeNext]_nodeVars PROVE NodeTypeOK'
    OBVIOUS
  <2>1. CASE NodeNext
    BY <2>1, OperatorTypes, SwappingTypes DEF NodeNext
  <2>2. CASE UNCHANGED nodeVars
    BY <2>2 DEF NodeTypeOK, nodeVars, loaderVars, pageVars
  <2> QED BY <2>1, <2>2
<1> QED BY <1>1, <1>2, PTL DEF NodeSpec

(* With an operator who removes modules with swapping off only, and swaps   *)
(* on again only with multiswap inserted, the handlers that outlive their   *)
(* module (multiswap.c:192) are never called: only a buffer that vzalloc    *)
(* did not give (multiswap_dram.c:72) makes the kernel follow a pointer to  *)
(* nowhere.  Neither rmmod.sh nor insmod.sh sees to what is assumed here.   *)
THEOREM CarefulOperatorsOnlyLackBuffers ==
  ASSUME CarefulOperator
  PROVE  NodeSpec => []OopsMeansNoBuffer
<1>1. NodeInv => OopsMeansNoBuffer
  BY DEF NodeInv
<1> QED BY <1>1, Invariance, PTL

(* init_scheduler and exit_scheduler (remote_schedule.c:262-315) free only  *)
(* what is there, and leak at most a part of one node's maps an insertion.  *)
THEOREM SchedulerMemorySound == NodeSpec => []SchedulerMemory
<1>1. NodeInit => SchedInv
  BY InitSchedInv DEF NodeInit
<1>2. SchedInv /\ [NodeNext]_nodeVars => SchedInv'
  <2> SUFFICES ASSUME SchedInv, [NodeNext]_nodeVars PROVE SchedInv'
    OBVIOUS
  <2>1. CASE Scheduler
    BY <2>1, StepSchedInv DEF Scheduler
  <2>2. CASE Restart
    BY <2>2, RestartSchedInv DEF Restart
  <2>3. CASE UNCHANGED schedVars
    BY <2>3, SchedFrame
  <2>4. Scheduler \/ Restart \/ UNCHANGED schedVars
    <3>1. CASE Operator
      BY <3>1 DEF Operator, InsertBackend, RemoveBackend, InitSswap, ExitSswap, SwapOn, SwapOff
    <3>2. CASE \E p \in PageIds : Swapping(p)
      BY <3>2 DEF Swapping, BeginOut, SswapStore, SwapWrite, BeginIn, SswapLoad, SwapRead,
                  EndIn, CallToNowhere, Oops, Free, Quiet
    <3> QED BY <3>1, <3>2 DEF NodeNext, nodeVars
  <2> QED BY <2>1, <2>2, <2>3, <2>4
<1> QED BY <1>1, <1>2, SchedulerMemoryHolds, PTL DEF NodeSpec

(* With every strategy that computes a page's place (multiswap.c:60-145)    *)
(* and both backends the kernel gets back what it swapped out, if the       *)
(* operator is a careful one; only what is beyond a memory node is not kept.*)
THEOREM Refinement ==
  ASSUME CarefulOperator
  PROVE  NodeSpec => KeepsPages
<1>1. NodeInit => NodeInv
  BY InitNodeInv
<1> QED BY <1>1, InitRefines, NextNodeInv, NextRefines, PTL
        DEF NodeSpec, KeepsPages, Abstract!Spec
=============================================================================
