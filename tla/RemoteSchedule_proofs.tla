----------------------- MODULE RemoteSchedule_proofs -----------------------
(***************************************************************************)
(* What TLAPS proves of RemoteSchedule, for every size of the buffers and  *)
(* of the bitmaps, every set of page ids and any number of processors.     *)
(***************************************************************************)
EXTENDS RemoteSchedule, FiniteSetTheorems, TLAPS

USE DEF Standing

-----------------------------------------------------------------------------
(* Arithmetic of slots. *)

(* A map with a smaller index ends before a later one starts. *)
LEMMA MulMono ==
  ASSUME NEW a \in Nat, NEW b \in Nat, NEW n \in Nat, a < b
  PROVE  a * n + n <= b * n
<1>1. PICK d \in Nat : b = a + 1 + d
  <2>1. b - a - 1 \in Nat
    OBVIOUS
  <2>2. b = a + 1 + (b - a - 1)
    OBVIOUS
  <2> QED BY <2>1, <2>2
<1>2. b * n = a * n + n + d * n
  BY <1>1
<1>3. d * n \in Nat
  OBVIOUS
<1> QED BY <1>2, <1>3

(* slot + offset in sswap_select_slot is undone by / and % . *)
LEMMA DivMod ==
  ASSUME NEW n \in Nat \ {0}, NEW i \in Nat, NEW b \in 0 .. n - 1
  PROVE  (i * n + b) \div n = i /\ (i * n + b) % n = b
<1> DEFINE x == i * n + b
<1>1. x \in Nat
  OBVIOUS
<1>2. /\ x \div n \in Int
      /\ x % n \in 0 .. n - 1
      /\ x = n * (x \div n) + (x % n)
  BY <1>1
<1> QED BY <1>2

(* There is at least one map, and the maps cover the remote buffer. *)
LEMMA NrMapsFacts ==
  /\ NrMaps \in Nat \ {0}
  /\ BufPages <= NrMaps * SpacePages
  /\ NrMaps * SpacePages \in Nat
<1> DEFINE x == BufPages + SpacePages - 1
<1>1. SpacePages \in Nat \ {0} /\ BufPages \in Nat \ {0} /\ x \in Nat
  BY SizesAssumption
<1>2. /\ x \div SpacePages \in Int
      /\ x % SpacePages \in 0 .. SpacePages - 1
      /\ x = SpacePages * (x \div SpacePages) + (x % SpacePages)
  BY <1>1
<1>3. NrMaps = x \div SpacePages
  BY DEF NrMaps
<1> HIDE DEF x
<1>4. x = SpacePages + (BufPages - 1)
  BY <1>1 DEF x
<1>5. BufPages <= NrMaps * SpacePages
  BY <1>1, <1>2, <1>3, <1>4
<1>6. NrMaps > 0
  <2>1. SUFFICES ASSUME NrMaps <= 0 PROVE FALSE
    BY <1>2, <1>3
  <2>2. PICK k \in Nat : NrMaps = -k
    <3>1. -NrMaps \in Nat /\ NrMaps = -(-NrMaps)
      BY <2>1, <1>2, <1>3
    <3> QED BY <3>1
  <2>3. NrMaps * SpacePages = -(k * SpacePages) /\ k * SpacePages \in Nat
    BY <2>2, <1>1
  <2> QED BY <2>3, <1>5, <1>1
<1>7. NrMaps \in Nat \ {0}
  BY <1>6, <1>2, <1>3
<1> QED BY <1>5, <1>7, <1>1

LEMMA GlobalSlotNat ==
  ASSUME NEW m \in Nat, NEW b \in Nat
  PROVE  GlobalSlot(m, b) \in Nat
<1>1. SpacePages \in Nat
  BY SizesAssumption
<1>2. m * SpacePages \in Nat
  BY <1>1
<1> QED BY <1>2 DEF GlobalSlot

(* A (map, bit) pair and the slot number name each other. *)
LEMMA SlotOfBit ==
  ASSUME NEW m \in Map, NEW b \in Bit
  PROVE  /\ GlobalSlot(m, b) \in Nat
         /\ GlobalSlot(m, b) < NrMaps * SpacePages
         /\ MapOf(GlobalSlot(m, b)) = m
         /\ BitOf(GlobalSlot(m, b)) = b
<1>1. m \in Nat /\ m < NrMaps /\ SpacePages \in Nat \ {0} /\ b \in 0 .. SpacePages - 1
  BY NrMapsFacts, SizesAssumption DEF Map, Bit
<1>2. m * SpacePages + SpacePages <= NrMaps * SpacePages
  BY <1>1, MulMono, NrMapsFacts
<1>3. MapOf(GlobalSlot(m, b)) = m /\ BitOf(GlobalSlot(m, b)) = b
  BY <1>1, DivMod DEF MapOf, BitOf, GlobalSlot
<1>4. m * SpacePages \in Nat
  BY <1>1
<1> QED BY <1>1, <1>2, <1>3, <1>4, NrMapsFacts DEF GlobalSlot

LEMMA BitOfSlot ==
  ASSUME NEW s \in Nat, s < NrMaps * SpacePages
  PROVE  MapOf(s) \in Map /\ BitOf(s) \in Bit /\ GlobalSlot(MapOf(s), BitOf(s)) = s
<1>1. /\ s \div SpacePages \in Nat
      /\ s % SpacePages \in 0 .. SpacePages - 1
      /\ s = (s \div SpacePages) * SpacePages + (s % SpacePages)
  BY SizesAssumption
<1>2. s \div SpacePages < NrMaps
  <2>1. SUFFICES ASSUME NrMaps <= s \div SpacePages PROVE FALSE
    BY <1>1, NrMapsFacts
  <2>2. NrMaps * SpacePages <= (s \div SpacePages) * SpacePages
    <3>1. CASE NrMaps = s \div SpacePages
      BY <3>1, NrMapsFacts, SizesAssumption
    <3>2. CASE NrMaps < s \div SpacePages
      <4>1. NrMaps * SpacePages + SpacePages <= (s \div SpacePages) * SpacePages
        BY <3>2, <1>1, MulMono, NrMapsFacts, SizesAssumption
      <4>2. (s \div SpacePages) * SpacePages \in Nat
        BY <1>1, SizesAssumption
      <4> QED BY <4>1, <4>2, NrMapsFacts, SizesAssumption
    <3> QED BY <3>1, <3>2, <2>1, <1>1, NrMapsFacts
  <2>3. (s \div SpacePages) * SpacePages \in Nat
    BY <1>1, SizesAssumption
  <2> QED BY <1>1, <2>2, <2>3, NrMapsFacts
<1> QED BY <1>1, <1>2, NrMapsFacts DEF MapOf, BitOf, GlobalSlot, Map, Bit

(* MAKE_XA_MSG loses nothing of a slot and a node. *)
LEMMA XaMsgRoundTrip ==
  ASSUME NEW s \in Nat, NEW n \in Node
  PROVE  /\ MakeXaMsg(s, n) \in Nat
         /\ RemoteType(MakeXaMsg(s, n)) = n
         /\ RemoteSlot(MakeXaMsg(s, n)) = s
<1>1. n \in 0 .. 15 /\ n % 16 = n
  BY DEF Node
<1>2. (s * 16 + n) \div 16 = s /\ (s * 16 + n) % 16 = n
  BY <1>1, DivMod
<1> QED BY <1>1, <1>2 DEF MakeXaMsg, RemoteType, RemoteSlot, Node

-----------------------------------------------------------------------------
(* Type correctness, with or without memory for the XArray. *)

(* An update of one map of one node. *)
LEMMA UpdateMap ==
  ASSUME NEW T, NEW f \in [Node -> [Map -> T]], NEW n \in Node, NEW m \in Map, NEW v \in T
  PROVE  /\ [f EXCEPT ![n][m] = v] \in [Node -> [Map -> T]]
         /\ \A k \in Node, i \in Map :
              [f EXCEPT ![n][m] = v][k][i] = IF k = n /\ i = m THEN v ELSE f[k][i]
<1>1. [f[n] EXCEPT ![m] = v] \in [Map -> T]
  OBVIOUS
<1> QED BY <1>1

(* The locals of a call stay in range when a field is assigned. *)
LEMMA CallUpdates ==
  ASSUME NEW c \in Call
  PROVE  /\ \A n \in Node : [c EXCEPT !.type = n] \in Call
         /\ \A s \in Slot : [c EXCEPT !.slot = s] \in Call
         /\ \A n \in Node, s \in Slot : [c EXCEPT !.type = n, !.slot = s] \in Call
         /\ \A n \in Node : [c EXCEPT !.type = n, !.full = TRUE, !.second = TRUE] \in Call
         /\ c.map < NrMaps => [c EXCEPT !.map = @ + 1] \in Call
<1>1. c.map < NrMaps => [c EXCEPT !.map = @ + 1] \in Call
  <2>1. SUFFICES ASSUME c.map < NrMaps PROVE [c EXCEPT !.map = @ + 1] \in Call
    OBVIOUS
  <2>2. c.map + 1 \in 0 .. NrMaps
    BY <2>1, NrMapsFacts DEF Call
  <2> QED BY <2>2 DEF Call
<1>2. \A n \in Node, s \in Slot : [c EXCEPT !.type = n, !.slot = s] \in Call
  BY DEF Call
<1>3. \A n \in Node : [c EXCEPT !.type = n, !.full = TRUE, !.second = TRUE] \in Call
  BY DEF Call
<1> QED BY <1>1, <1>2, <1>3 DEF Call

(* A slot number is a natural number below the end of the last map. *)
LEMMA SlotFacts ==
  /\ 0 \in Slot
  /\ \A s : s \in Slot <=> s \in Nat /\ s < NrMaps * SpacePages
<1>1. NrMaps * SpacePages \in Nat /\ NrMaps * SpacePages # 0
  BY NrMapsFacts, SizesAssumption
<1> DEFINE j == NrMaps * SpacePages
<1> HIDE DEF j
<1>2. j \in Nat /\ j # 0 /\ Slot = 0 .. j - 1
  BY <1>1 DEF j, Slot
<1>3. 0 \in Slot /\ \A s : s \in Slot <=> s \in Nat /\ s < j
  BY <1>2
<1> QED BY <1>3 DEF j

LEMMA NoCallType == NoCall \in Call
BY NrMapsFacts, SlotFacts DEF NoCall, Call, Node

LEMMA InitTypeOK == Init => TypeOK
<1> SUFFICES ASSUME Init PROVE TypeOK
  OBVIOUS
<1>1. SpacePages \in Nat
  BY SizesAssumption
<1> QED BY <1>1, NoCallType DEF Init, WordsDecode, TypeOK

(* One step of one operation keeps the types. *)
LEMMA StepTypeOK ==
  ASSUME TypeOK, NEW p \in PageIds,
         \/ SchedulerWrite(p) \/ AddMapping(p) \/ StoreReturns(p)
         \/ SchedulerRead(p) \/ LoadReturns(p) \/ InvalidatePage(p)
  PROVE  TypeOK'
<1> USE DEF TypeOK, WordsDecode
<1>a. call[p] \in Call /\ NoCall \in Call
  BY NoCallType
<1>b. /\ call[p].type \in Node /\ call[p].map \in 0 .. NrMaps /\ call[p].slot \in Slot
      /\ call[p].full \in BOOLEAN /\ call[p].second \in BOOLEAN
  BY <1>a DEF Call
<1>1. CASE SchedulerWrite(p)
  <2>1. Appoint(p) \in Node
    BY SizesAssumption DEF Appoint, Node
  <2>2. [NoCall EXCEPT !.type = Appoint(p)] \in Call
    BY <1>a, <2>1, CallUpdates
  <2> QED BY <1>1, <2>2 DEF SchedulerWrite
<1>2. CASE ClearOldMapping(p)
  <2> DEFINE n == RemoteType(i_pages[p])
             m == MapOf(RemoteSlot(i_pages[p]))
             b == BitOf(RemoteSlot(i_pages[p]))
  <2> HIDE DEF n, m, b
  <2>1. /\ mapping' = [mapping EXCEPT ![n][m] = ClearBit(@, b)]
        /\ free_pages' = [free_pages EXCEPT ![n][m] = @ + 1]
        /\ pc' = [pc EXCEPT ![p] = "select"]
        /\ UNCHANGED <<i_pages, frontswap, call>>
    BY <1>2 DEF ClearOldMapping, n, m, b
  <2>2. n \in Node /\ m \in Map
    <3>1. n \in Node /\ RemoteSlot(i_pages[p]) \in Slot
      BY <1>2 DEF ClearOldMapping, HasOldMapping, n
    <3> QED BY <3>1, SlotFacts, BitOfSlot DEF m
  <2>3. mapping' \in [Node -> [Map -> SUBSET Bit]]
    <3>1. mapping[n][m] \ {b} \in SUBSET Bit
      BY <2>2
    <3> QED BY <2>1, <2>2, <3>1, UpdateMap DEF ClearBit
  <2>4. free_pages' \in [Node -> [Map -> Nat]]
    <3>1. free_pages[n][m] + 1 \in Nat
      BY <2>2
    <3> QED BY <2>1, <2>2, <3>1, UpdateMap
  <2> QED BY <2>1, <2>3, <2>4
<1>3. CASE NoOldMapping(p)
  BY <1>3 DEF NoOldMapping
<1>4. CASE TakeSlot(p)
  <2> DEFINE n == call[p].type
             m == call[p].map
  <2>1. m \in Map /\ n \in Node
    BY <1>4, <1>b, NrMapsFacts DEF TakeSlot, Map
  <2>2. PICK b \in Bit :
          /\ mapping' = [mapping EXCEPT ![n][m] = SetBit(@, b)]
          /\ call' = [call EXCEPT ![p].slot = IF call[p].full THEN 0 ELSE GlobalSlot(m, b)]
    BY <1>4 DEF TakeSlot
  <2>3. mapping' \in [Node -> [Map -> SUBSET Bit]]
    <3>1. mapping[n][m] \cup {b} \in SUBSET Bit
      BY <2>1
    <3> QED BY <2>1, <2>2, <3>1, UpdateMap DEF SetBit
  <2>4. GlobalSlot(m, b) \in Slot
    BY <2>1, SlotOfBit, SlotFacts
  <2>5. call' \in [PageIds -> Call]
    <3>1. [call[p] EXCEPT !.slot = IF call[p].full THEN 0 ELSE GlobalSlot(m, b)] \in Call
      BY <1>a, <2>4, SlotFacts, CallUpdates
    <3> QED BY <3>1, <2>2
  <2>6. free_pages' = [free_pages EXCEPT ![n][m] = @ - 1] /\ free_pages[n][m] # 0
    BY <1>4 DEF TakeSlot
  <2>7. free_pages' \in [Node -> [Map -> Nat]]
    <3>0. free_pages[n][m] \in Nat
      BY <2>1
    <3>1. free_pages[n][m] - 1 \in Nat
      <4>1. free_pages[n][m] # 0
        BY <2>6
      <4> DEFINE f == free_pages[n][m]
      <4>2. f \in Nat /\ f # 0
        BY <4>1, <3>0
      <4> HIDE DEF f
      <4>3. f - 1 \in Nat
        BY <4>2
      <4> QED BY <4>3 DEF f
    <3>2. [free_pages EXCEPT ![n][m] = free_pages[n][m] - 1] \in [Node -> [Map -> Nat]]
      BY <2>1, <3>1, UpdateMap
    <3> QED BY <2>6, <3>2
  <2>8. /\ i_pages' = i_pages /\ frontswap' = frontswap
        /\ pc' = [pc EXCEPT ![p] = IF call[p].full THEN "write" ELSE "install"]
    BY <1>4 DEF TakeSlot
  <2> QED BY <2>3, <2>5, <2>7, <2>8
<1>5. CASE SkipMap(p)
  <2>1. [call[p] EXCEPT !.map = @ + 1] \in Call
    BY <1>5, <1>a, CallUpdates DEF SkipMap
  <2> QED BY <1>5, <2>1 DEF SkipMap
<1>6. CASE FallBack(p)
  <2>1. OtherNode(call[p].type) \in Node
    BY <1>b DEF OtherNode, Node
  <2>2. Retry(call[p]) \in Call
    BY <1>a, <2>1, CallUpdates DEF Retry
  <2> QED BY <1>6, <2>2 DEF FallBack
<1>7. CASE GiveUp(p)
  <2>1. [call[p] EXCEPT !.slot = 0] \in Call
    BY <1>a, SlotFacts, CallUpdates
  <2> QED BY <1>7, <2>1 DEF GiveUp
<1>8. CASE InstallMapping(p)
  <2> DEFINE word == MakeXaMsg(call[p].slot, call[p].type)
  <2>1. word \in Nat
    BY <1>b, SlotFacts, XaMsgRoundTrip
  <2>2. RemoteType(word) \in Node /\ RemoteSlot(word) \in Slot
    BY <1>b, SlotFacts, XaMsgRoundTrip
  <2> QED BY <1>8, <2>1, <2>2 DEF InstallMapping
<1>9. CASE InstallFails(p)
  BY <1>9 DEF InstallFails
<1>10. CASE StoreReturns(p)
  BY <1>10, <1>a DEF StoreReturns
<1>11. CASE SchedulerRead(p)
  <2> DEFINE msg == XaToValue(i_pages[p])
  <2>1. msg \in Nat /\ RemoteType(msg) \in Node
    BY SizesAssumption DEF XaToValue, RemoteType, Node
  <2>2. RemoteSlot(msg) \in Slot
    <3>1. CASE i_pages[p] = NULL
      BY <3>1, SlotFacts DEF XaToValue, RemoteSlot
    <3>2. CASE i_pages[p] # NULL
      BY <3>2 DEF XaToValue
    <3> QED BY <3>1, <3>2
  <2> HIDE DEF msg
  <2>3. [NoCall EXCEPT !.type = RemoteType(msg), !.slot = RemoteSlot(msg)] \in Call
    BY <1>a, <2>1, <2>2, CallUpdates
  <2> QED BY <1>11, <2>3 DEF SchedulerRead, msg
<1>12. CASE LoadReturns(p)
  BY <1>12, <1>a DEF LoadReturns
<1>13. CASE InvalidatePage(p)
  BY <1>13 DEF InvalidatePage
<1>14. CASE OverrunMap(p)
  BY <1>14 DEF OverrunMap
<1> QED BY <1>1, <1>2, <1>3, <1>4, <1>5, <1>6, <1>7, <1>8, <1>9, <1>10, <1>11,
           <1>12, <1>13, <1>14 DEF AddMapping

LEMMA NextTypeOK == TypeOK /\ [Next]_vars => TypeOK'
<1> SUFFICES ASSUME TypeOK, [Next]_vars PROVE TypeOK'
  OBVIOUS
<1>1. CASE Next
  BY <1>1, StepTypeOK DEF Next
<1>2. CASE UNCHANGED vars
  BY <1>2 DEF vars, TypeOK, WordsDecode
<1> QED BY <1>1, <1>2

(* Until a bitmap is overrun (sswap_select_slot, line 111), every bit, map, *)
(* slot and word that the scheduler uses exists, also when the XArray runs  *)
(* out of memory and the fallback of sswap_scheduler_write runs: nothing    *)
(* but set_bit can leave its array, and sswap_add_mapping (lines 154-156)   *)
(* never gives a slot back to a map that is not there.                      *)
THEOREM TypeCorrect == Spec => []TypeOK
BY InitTypeOK, NextTypeOK, PTL DEF Spec

-----------------------------------------------------------------------------
(* What the counters promise when the XArray fails: they may then be too    *)
(* large, since a mapping whose slot was given back can be given back       *)
(* again, and never too small.                                              *)

Zeros(n, m) == Bit \ mapping[n][m]

CountersCover ==
  \A n \in Node, m \in Map : Cardinality(Zeros(n, m)) <= free_pages[n][m]

LEMMA ZerosFinite ==
  ASSUME NEW S
  PROVE  IsFiniteSet(Bit \ S) /\ Cardinality(Bit \ S) \in Nat
<1>1. IsFiniteSet(Bit)
  BY FS_Interval, SizesAssumption DEF Bit
<1> QED BY <1>1, FS_Difference, FS_CardinalityType

(* A step that touches one map keeps the promise for all. *)
LEMMA OneMapCovered ==
  ASSUME TypeOK, CountersCover, NEW n \in Node, NEW m \in Map, NEW bits, NEW f,
         mapping' = [mapping EXCEPT ![n][m] = bits],
         free_pages' = [free_pages EXCEPT ![n][m] = f],
         Cardinality(Bit \ bits) <= f
  PROVE  CountersCover'
<1> SUFFICES ASSUME NEW k \in Node, NEW i \in Map
             PROVE  Cardinality(Bit \ mapping'[k][i]) <= free_pages'[k][i]
  BY DEF CountersCover, Zeros
<1>1. CASE k = n /\ i = m
  BY <1>1 DEF TypeOK
<1>2. CASE ~(k = n /\ i = m)
  <2>1. mapping'[k][i] = mapping[k][i] /\ free_pages'[k][i] = free_pages[k][i]
    BY <1>2 DEF TypeOK
  <2> QED BY <2>1 DEF CountersCover, Zeros
<1> QED BY <1>1, <1>2

(* Giving a slot back frees at most one bit and counts one. *)
LEMMA ClearCovered ==
  ASSUME TypeOK, CountersCover, NEW p \in PageIds, ClearOldMapping(p)
  PROVE  CountersCover'
<1> DEFINE n == RemoteType(i_pages[p])
           m == MapOf(RemoteSlot(i_pages[p]))
           b == BitOf(RemoteSlot(i_pages[p]))
<1>1. n \in Node /\ m \in Map
  <2>1. n \in Node /\ RemoteSlot(i_pages[p]) \in Slot
    BY DEF TypeOK, WordsDecode, ClearOldMapping, HasOldMapping
  <2> QED BY <2>1, SlotFacts, BitOfSlot
<1>2. /\ mapping' = [mapping EXCEPT ![n][m] = mapping[n][m] \ {b}]
      /\ free_pages' = [free_pages EXCEPT ![n][m] = free_pages[n][m] + 1]
  BY DEF ClearOldMapping, ClearBit
<1> HIDE DEF n, m, b
<1>3. Cardinality(Bit \ (mapping[n][m] \ {b})) <= free_pages[n][m] + 1
  <2> DEFINE Z == Zeros(n, m)
  <2>1. /\ IsFiniteSet(Z) /\ Cardinality(Z) \in Nat
        /\ Cardinality(Z) <= free_pages[n][m]
        /\ free_pages[n][m] \in Nat
    BY <1>1, ZerosFinite DEF Zeros, CountersCover, TypeOK
  <2>2. Bit \ (mapping[n][m] \ {b}) \in SUBSET (Z \cup {b})
    BY DEF Zeros
  <2> HIDE DEF Z
  <2>3. /\ IsFiniteSet(Z \cup {b})
        /\ Cardinality(Z \cup {b}) <= Cardinality(Z) + 1
        /\ Cardinality(Z \cup {b}) \in Nat
    <3>1. /\ IsFiniteSet(Z \cup {b})
          /\ Cardinality(Z \cup {b}) = IF b \in Z THEN Cardinality(Z) ELSE Cardinality(Z) + 1
      BY <2>1, FS_AddElement
    <3> QED BY <2>1, <3>1
  <2>4. Cardinality(Bit \ (mapping[n][m] \ {b})) <= Cardinality(Z \cup {b})
    BY <2>2, <2>3, FS_Subset
  <2>5. Cardinality(Bit \ (mapping[n][m] \ {b})) \in Nat
    BY ZerosFinite
  <2> QED BY <2>1, <2>3, <2>4, <2>5
<1> QED BY <1>1, <1>2, <1>3, OneMapCovered DEF TypeOK

(* A scan takes the bit it found. *)
LEMMA TakeCovered ==
  ASSUME TypeOK, CountersCover, NEW p \in PageIds, TakeSlot(p)
  PROVE  CountersCover'
<1> DEFINE n == call[p].type
           m == call[p].map
           Z == Zeros(n, m)
<1>1. n \in Node /\ m \in Map
  BY NrMapsFacts DEF TypeOK, Call, TakeSlot, Map
<1>2. PICK b \in Bit :
        /\ b \notin mapping[n][m]
        /\ mapping' = [mapping EXCEPT ![n][m] = mapping[n][m] \cup {b}]
  BY DEF TakeSlot, SetBit, IsFirstZeroBit
<1>3. /\ free_pages[n][m] # 0
      /\ free_pages' = [free_pages EXCEPT ![n][m] = free_pages[n][m] - 1]
  BY DEF TakeSlot
<1>4. /\ IsFiniteSet(Z) /\ Cardinality(Z) \in Nat
      /\ Cardinality(Z) <= free_pages[n][m]
      /\ free_pages[n][m] \in Nat
  BY <1>1, ZerosFinite DEF Zeros, CountersCover, TypeOK
<1>5. Cardinality(Bit \ (mapping[n][m] \cup {b})) <= free_pages[n][m] - 1
  <2>1. Bit \ (mapping[n][m] \cup {b}) = Z \ {b}
    BY DEF Zeros
  <2>2. b \in Z
    BY <1>2 DEF Zeros
  <2>3. Cardinality(Z \ {b}) = Cardinality(Z) - 1
    <3> HIDE DEF Z
    <3> QED BY <1>4, <2>2, FS_RemoveElement
  <2>4. Cardinality(Z) - 1 <= free_pages[n][m] - 1
    BY <1>4
  <2> QED BY <2>1, <2>3, <2>4
<1> HIDE DEF n, m, Z
<1> QED BY <1>1, <1>2, <1>3, <1>5, OneMapCovered DEF TypeOK

LEMMA StepCovered ==
  ASSUME TypeOK, CountersCover, [Next]_vars
  PROVE  CountersCover'
<1>1. ASSUME UNCHANGED <<mapping, free_pages>> PROVE CountersCover'
  BY <1>1 DEF CountersCover, Zeros
<1>2. CASE UNCHANGED vars
  BY <1>1, <1>2 DEF vars
<1>3. ASSUME NEW p \in PageIds,
             \/ SchedulerWrite(p) \/ AddMapping(p) \/ StoreReturns(p)
             \/ SchedulerRead(p) \/ LoadReturns(p) \/ InvalidatePage(p)
      PROVE  CountersCover'
  <2>1. CASE ClearOldMapping(p)
    BY <2>1, ClearCovered
  <2>2. CASE TakeSlot(p)
    BY <2>2, TakeCovered
  <2>3. CASE ~ClearOldMapping(p) /\ ~TakeSlot(p)
    <3>1. UNCHANGED <<mapping, free_pages>>
      BY <1>3, <2>3 DEF AddMapping, SchedulerWrite, NoOldMapping, OverrunMap, SkipMap, FallBack,
                        GiveUp, InstallMapping, InstallFails, StoreReturns, SchedulerRead,
                        LoadReturns, InvalidatePage
    <3> QED BY <3>1, <1>1
  <2> QED BY <2>1, <2>2, <2>3
<1> QED BY <1>2, <1>3 DEF Next

LEMMA InitCovered == Init => CountersCover
<1> SUFFICES ASSUME Init, NEW n \in Node, NEW m \in Map
             PROVE  Cardinality(Bit \ mapping[n][m]) <= free_pages[n][m]
  BY DEF CountersCover, Zeros
<1>1. mapping[n][m] = {} /\ free_pages[n][m] = SpacePages
  BY DEF Init
<1>2. Bit \ mapping[n][m] = Bit
  BY <1>1
<1>3. Cardinality(Bit) = SpacePages
  BY FS_Interval, SizesAssumption DEF Bit
<1> QED BY <1>1, <1>2, <1>3, SizesAssumption

(* sswap_select_slot trusts a zero counter (remote_schedule.c:105): also    *)
(* when xa_store has failed and the fallback has run, and until a bitmap is *)
(* overrun, there is no zero bit in a map that it passes over.              *)
THEOREM FullMapsAreFull == Spec => []FullMeansFull
<1>1. TypeOK /\ CountersCover => FullMeansFull
  <2> SUFFICES ASSUME CountersCover, NEW n \in Node, NEW m \in Map, free_pages[n][m] = 0
               PROVE  Bit \subseteq mapping[n][m]
    BY DEF FullMeansFull
  <2>1. Cardinality(Zeros(n, m)) <= 0
    BY DEF CountersCover
  <2>2. IsFiniteSet(Zeros(n, m)) /\ Cardinality(Zeros(n, m)) \in Nat
    BY ZerosFinite DEF Zeros
  <2>3. Zeros(n, m) = {}
    BY <2>1, <2>2, FS_EmptySet
  <2> QED BY <2>3 DEF Zeros
<1>2. Init => TypeOK /\ CountersCover
  BY InitTypeOK, InitCovered
<1>3. TypeOK /\ CountersCover /\ [Next]_vars => TypeOK' /\ CountersCover'
  BY NextTypeOK, StepCovered
<1> QED BY <1>1, <1>2, <1>3, PTL DEF Spec

-----------------------------------------------------------------------------
(* Why the scan cannot run out of slots: pages at or above a position are   *)
(* few.  L[p] is the position of page id p along the slots of its node.     *)

AboveIn(L, n, j) == {p \in Home(n) : L[p] >= j}

Pressure(L) ==
  \A n \in Node, j \in 0 .. NrMaps * SpacePages :
    \/ AboveIn(L, n, j) = {}
    \/ Cardinality(AboveIn(L, n, j)) + j <= Cardinality(Home(n))

LEMMA HomeFinite ==
  /\ IsFiniteSet(PageIds)
  /\ \A n : IsFiniteSet(Home(n)) /\ Cardinality(Home(n)) \in Nat
  /\ \A n : Cardinality(Home(n)) <= BufPages
<1>1. IsFiniteSet(0 .. BufPages - 1) /\ Cardinality(0 .. BufPages - 1) = BufPages
  BY FS_Interval, SizesAssumption
<1>2. IsFiniteSet(PageIds)
  BY <1>1, FS_Subset, SizesAssumption
<1>3. ASSUME NEW n
      PROVE  /\ IsFiniteSet(Home(n)) /\ Cardinality(Home(n)) \in Nat
             /\ Cardinality(Home(n)) <= BufPages
  <2>1. Home(n) \in SUBSET (0 .. BufPages - 1)
    BY SizesAssumption DEF Home
  <2> QED BY <2>1, <1>1, FS_Subset, FS_CardinalityType
<1> QED BY <1>2, <1>3

LEMMA AboveFinite ==
  ASSUME NEW L, NEW n, NEW j
  PROVE  /\ IsFiniteSet(AboveIn(L, n, j)) /\ Cardinality(AboveIn(L, n, j)) \in Nat
         /\ Cardinality(AboveIn(L, n, j)) <= Cardinality(Home(n))
<1>1. AboveIn(L, n, j) \in SUBSET Home(n)
  BY DEF AboveIn
<1> QED BY <1>1, HomeFinite, FS_Subset, FS_CardinalityType

(* d different elements of A, none in B and none equal to x. *)
LEMMA CardGap ==
  ASSUME NEW A, IsFiniteSet(A), NEW B \in SUBSET A, NEW x \in A \ B, NEW d \in Nat,
         NEW f \in [0 .. d - 1 -> A],
         \A k \in 0 .. d - 1 : f[k] \notin B /\ f[k] # x,
         \A k, l \in 0 .. d - 1 : f[k] = f[l] => k = l
  PROVE  Cardinality(B) + 1 + d <= Cardinality(A)
<1> DEFINE C == A \ (B \cup {x})
<1>1. IsFiniteSet(B) /\ IsFiniteSet(C)
  BY FS_Subset
<1>2. f \in Injection(0 .. d - 1, C)
  BY DEF Injection, IsInjective
<1>3. Cardinality(0 .. d - 1) = d
  BY FS_Interval
<1>4. d <= Cardinality(C)
  BY <1>1, <1>2, <1>3, FS_Injection
<1>5. IsFiniteSet(B \cup {x}) /\ Cardinality(B \cup {x}) = Cardinality(B) + 1
  BY <1>1, FS_AddElement
<1>6. (B \cup {x}) \cup C = A /\ (B \cup {x}) \cap C = {}
  OBVIOUS
<1>7. Cardinality(A) = Cardinality(B \cup {x}) + Cardinality(C) - Cardinality({})
  BY <1>1, <1>5, <1>6, FS_Union
<1>8. Cardinality(B) \in Nat /\ Cardinality(C) \in Nat /\ Cardinality({}) = 0
  BY <1>1, FS_CardinalityType, FS_EmptySet
<1> QED BY <1>4, <1>5, <1>7, <1>8

(* Page id x moves up by d positions, each of which another page id of its  *)
(* node occupies.                                                           *)
LEMMA RaisePressure ==
  ASSUME NEW L \in [PageIds -> Int], Pressure(L), NEW x \in PageIds,
         NEW i \in Nat, NEW d \in Nat, L[x] = i, i <= NrMaps * SpacePages,
         \A k \in 0 .. d - 1 : \E q \in Home(Appoint(x)) : q # x /\ L[q] = i + k
  PROVE  Pressure([L EXCEPT ![x] = i + d])
<1> DEFINE M == [L EXCEPT ![x] = i + d]
<1>0. /\ \A p \in PageIds \ {x} : M[p] = L[p]
      /\ M[x] = i + d
  OBVIOUS
<1> HIDE DEF M
<1> SUFFICES ASSUME NEW n \in Node, NEW j \in 0 .. NrMaps * SpacePages
             PROVE  \/ AboveIn(M, n, j) = {}
                    \/ Cardinality(AboveIn(M, n, j)) + j <= Cardinality(Home(n))
  BY DEF Pressure, M
<1>1. \/ AboveIn(L, n, j) = {}
      \/ Cardinality(AboveIn(L, n, j)) + j <= Cardinality(Home(n))
  BY DEF Pressure
<1>j. j \in Nat /\ NrMaps * SpacePages \in Nat
  BY NrMapsFacts
<1>2. CASE n # Appoint(x) \/ j <= i \/ j > i + d
  <2>1. \A p \in Home(n) : M[p] >= j <=> L[p] >= j
    <3>1. SUFFICES ASSUME NEW p \in Home(n) PROVE M[p] >= j <=> L[p] >= j
      OBVIOUS
    <3>2. p \in PageIds /\ Appoint(p) = n
      BY DEF Home
    <3>3. CASE p # x
      BY <3>2, <3>3, <1>0
    <3>4. CASE p = x
      BY <3>2, <3>4, <1>0, <1>2, <1>j
    <3> QED BY <3>3, <3>4
  <2>2. AboveIn(M, n, j) = AboveIn(L, n, j)
    BY <2>1 DEF AboveIn
  <2> QED BY <2>2, <1>1
<1>3. CASE n = Appoint(x) /\ j > i /\ j <= i + d
  <2> DEFINE A == AboveIn(L, n, i)
             B == AboveIn(L, n, j)
             e == j - i
             f == [k \in 0 .. e - 1 |->
                     CHOOSE q \in Home(n) : q # x /\ L[q] = i + k]
  <2>1. e \in Nat /\ e <= d /\ j = i + e
    BY <1>3, <1>j
  <2>2. x \in Home(n)
    BY <1>3 DEF Home
  <2>3. AboveIn(M, n, j) = B \cup {x}
    <3>1. ASSUME NEW p \in Home(n) PROVE M[p] >= j <=> (L[p] >= j \/ p = x)
      <4>1. p \in PageIds
        BY DEF Home
      <4> QED BY <4>1, <1>0, <1>3, <1>j
    <3> QED BY <3>1, <2>2 DEF AboveIn
  <2>4. x \in A \ B
    BY <2>2, <1>3, <1>j DEF AboveIn
  <2>5. B \in SUBSET A
    <3>1. ASSUME NEW p \in Home(n), L[p] >= j PROVE L[p] >= i
      <4>1. L[p] \in Int
        BY DEF Home
      <4> QED BY <3>1, <4>1, <1>3, <1>j
    <3> QED BY <3>1 DEF AboveIn
  <2>6. \A k \in 0 .. e - 1 : f[k] \in Home(n) /\ f[k] # x /\ L[f[k]] = i + k
    <3>1. SUFFICES ASSUME NEW k \in 0 .. e - 1
                   PROVE  f[k] \in Home(n) /\ f[k] # x /\ L[f[k]] = i + k
      OBVIOUS
    <3>2. k \in 0 .. d - 1
      BY <2>1
    <3>3. \E q \in Home(n) : q # x /\ L[q] = i + k
      BY <3>2, <1>3
    <3> QED BY <3>3
  <2> HIDE DEF f
  <2>7. \A k \in 0 .. e - 1 : f[k] \in A /\ f[k] \notin B
    <3>1. SUFFICES ASSUME NEW k \in 0 .. e - 1 PROVE f[k] \in A /\ f[k] \notin B
      OBVIOUS
    <3>2. f[k] \in Home(n) /\ L[f[k]] = i + k
      BY <2>6
    <3>3. i + k >= i /\ ~(i + k >= j)
      BY <2>1
    <3> QED BY <3>2, <3>3 DEF AboveIn
  <2>8. f \in [0 .. e - 1 -> A]
    BY <2>7 DEF f
  <2>9. \A k, l \in 0 .. e - 1 : f[k] = f[l] => k = l
    <3>1. SUFFICES ASSUME NEW k \in 0 .. e - 1, NEW l \in 0 .. e - 1, f[k] = f[l]
                   PROVE  k = l
      OBVIOUS
    <3>2. i + k = i + l
      BY <3>1, <2>6
    <3> QED BY <3>2
  <2>10. IsFiniteSet(A) /\ Cardinality(A) \in Nat
    BY AboveFinite
  <2>11. IsFiniteSet(B) /\ Cardinality(B) \in Nat
    BY AboveFinite
  <2>12. Cardinality(B) + 1 + e <= Cardinality(A)
    <3>1. \A k \in 0 .. e - 1 : f[k] \notin B /\ f[k] # x
      BY <2>6, <2>7
    <3>2. e \in Nat
      BY <2>1
    <3> HIDE DEF A, B, e
    <3> QED BY ONLY <2>4, <2>5, <2>8, <2>9, <2>10, <3>1, <3>2, CardGap
  <2>13. Cardinality(A) + i <= Cardinality(Home(n))
    <3>1. i \in 0 .. NrMaps * SpacePages
      BY <1>j
    <3> QED BY <3>1, <2>4 DEF Pressure
  <2>14. Cardinality(B \cup {x}) = Cardinality(B) + 1
    BY <2>4, <2>11, FS_AddElement
  <2>15. Cardinality(Home(n)) \in Nat
    BY HomeFinite
  <2>16. Cardinality(B) + 1 + j <= Cardinality(Home(n))
    <3> HIDE DEF A, B, e
    <3> QED BY <2>1, <2>10, <2>11, <2>12, <2>13, <2>15
  <2> QED BY <2>3, <2>14, <2>16
<1> QED BY <1>2, <1>3, <1>j

(* A page id that goes back to the first slot relieves the pressure. *)
LEMMA ResetPressure ==
  ASSUME NEW L \in [PageIds -> Int], Pressure(L), NEW x \in PageIds
  PROVE  Pressure([L EXCEPT ![x] = 0])
<1> DEFINE M == [L EXCEPT ![x] = 0]
<1>0. (\A p \in PageIds \ {x} : M[p] = L[p]) /\ M[x] = 0
  OBVIOUS
<1> HIDE DEF M
<1> SUFFICES ASSUME NEW n \in Node, NEW j \in 0 .. NrMaps * SpacePages
             PROVE  \/ AboveIn(M, n, j) = {}
                    \/ Cardinality(AboveIn(M, n, j)) + j <= Cardinality(Home(n))
  BY DEF Pressure, M
<1>1. /\ Cardinality(AboveIn(M, n, j)) \in Nat
      /\ Cardinality(AboveIn(M, n, j)) <= Cardinality(Home(n))
      /\ Cardinality(AboveIn(L, n, j)) \in Nat
      /\ IsFiniteSet(AboveIn(L, n, j))
      /\ Cardinality(Home(n)) \in Nat
  BY AboveFinite, HomeFinite
<1>j. j \in Nat
  BY NrMapsFacts
<1>2. CASE j = 0
  BY <1>1, <1>2
<1>3. CASE j # 0
  <2>1. AboveIn(M, n, j) \in SUBSET AboveIn(L, n, j)
    <3>1. ASSUME NEW p \in Home(n), M[p] >= j PROVE L[p] >= j
      <4>1. p \in PageIds
        BY DEF Home
      <4>2. CASE p # x
        BY <4>1, <4>2, <3>1, <1>0
      <4>3. CASE p = x
        BY <4>1, <4>3, <3>1, <1>0, <1>3, <1>j
      <4> QED BY <4>2, <4>3
    <3> QED BY <3>1 DEF AboveIn
  <2>2. Cardinality(AboveIn(M, n, j)) <= Cardinality(AboveIn(L, n, j))
    BY <1>1, <2>1, FS_Subset
  <2>3. \/ AboveIn(L, n, j) = {}
        \/ Cardinality(AboveIn(L, n, j)) + j <= Cardinality(Home(n))
    BY DEF Pressure
  <2>4. CASE AboveIn(L, n, j) = {}
    BY <2>1, <2>4
  <2>5. CASE Cardinality(AboveIn(L, n, j)) + j <= Cardinality(Home(n))
    BY <2>2, <2>5, <1>1, <1>j
  <2> QED BY <2>3, <2>4, <2>5
<1> QED BY <1>2, <1>3

-----------------------------------------------------------------------------
(* The inductive invariant, when xa_store does not run out of memory.       *)

(* A recorded mapping is on the page's own node and inside its maps. *)
WordsOK ==
  \A p \in PageIds : i_pages[p] # NULL =>
    /\ RemoteType(i_pages[p]) = Appoint(p)
    /\ RemoteSlot(i_pages[p]) \in Nat
    /\ RemoteSlot(i_pages[p]) < NrMaps * SpacePages

(* A call is its first attempt, has maps left to look at and stays within   *)
(* them.                                                                    *)
CallsOK ==
  \A p \in PageIds :
    /\ call[p].map < NrMaps /\ ~call[p].full /\ ~call[p].second
    /\ pc[p] \in {"replace", "select", "install"} => call[p].type = Appoint(p)
    /\ pc[p] = "replace" => call[p].map = 0
    /\ pc[p] = "install" => call[p].slot < NrMaps * SpacePages
    /\ pc[p] # "overrun"

IInv ==
  /\ TypeOK
  /\ WordsOK
  /\ CallsOK
  /\ BitmapExact
  /\ FreeCountExact
  /\ NoSharedSlot
  /\ TransferOwnsSlot
  /\ FrontswapMapped
  /\ ScanPressure

LevelF == [p \in PageIds |-> Level(p)]

LEMMA AppointNode == \A p \in PageIds : Appoint(p) \in Node
BY SizesAssumption DEF Appoint, Node

(* The place of a page id lies inside the maps of its appointed node. *)
LEMMA PlaceFacts ==
  ASSUME TypeOK, WordsOK, CallsOK, NEW p \in PageIds, HasPlace(p)
  PROVE  /\ PlaceNode(p) = Appoint(p) /\ PlaceNode(p) \in Node
         /\ PlaceSlot(p) \in Nat /\ PlaceSlot(p) < NrMaps * SpacePages
         /\ MapOf(PlaceSlot(p)) \in Map /\ BitOf(PlaceSlot(p)) \in Bit
         /\ GlobalSlot(MapOf(PlaceSlot(p)), BitOf(PlaceSlot(p))) = PlaceSlot(p)
<1>1. call[p] \in Call
  BY DEF TypeOK
<1>2. call[p].slot \in Nat
  BY <1>1, SlotFacts DEF Call
<1>3. /\ PlaceNode(p) = Appoint(p)
      /\ PlaceSlot(p) \in Nat /\ PlaceSlot(p) < NrMaps * SpacePages
  <2>1. CASE pc[p] = "install"
    BY <2>1, <1>2 DEF CallsOK, PlaceNode, PlaceSlot
  <2>2. CASE pc[p] # "install"
    BY <2>2 DEF WordsOK, PlaceNode, PlaceSlot, HasPlace
  <2> QED BY <2>1, <2>2
<1> QED BY <1>3, AppointNode, BitOfSlot

(* An operation on another page id leaves the place of q alone. *)
LEMMA OtherPlace ==
  ASSUME NEW q \in PageIds,
         pc'[q] = pc[q], call'[q] = call[q], i_pages'[q] = i_pages[q]
  PROVE  /\ HasPlace(q)' <=> HasPlace(q)
         /\ PlaceNode(q)' = PlaceNode(q)
         /\ PlaceSlot(q)' = PlaceSlot(q)
         /\ Level(q)' = Level(q)
<1>1. /\ HasPlace(q)' <=> HasPlace(q)
      /\ PlaceNode(q)' = PlaceNode(q)
      /\ PlaceSlot(q)' = PlaceSlot(q)
  BY DEF HasPlace, PlaceNode, PlaceSlot
<1> QED BY <1>1 DEF Level

LEMMA LevelType ==
  ASSUME TypeOK, WordsOK, CallsOK
  PROVE  LevelF \in [PageIds -> Int]
<1>1. SUFFICES ASSUME NEW p \in PageIds PROVE Level(p) \in Int
  BY DEF LevelF
<1>2. CASE pc[p] = "select"
  <2>1. call[p] \in Call /\ SpacePages \in Nat
    BY SizesAssumption DEF TypeOK
  <2>2. call[p].map \in Nat
    BY <2>1, NrMapsFacts DEF Call
  <2>3. call[p].map * SpacePages \in Nat
    BY <2>1, <2>2
  <2> QED BY <1>2, <2>3 DEF Level
<1>3. CASE pc[p] # "select" /\ HasPlace(p)
  BY <1>3, PlaceFacts DEF Level
<1>4. CASE pc[p] # "select" /\ ~HasPlace(p)
  BY <1>4 DEF Level
<1> QED BY <1>2, <1>3, <1>4

LEMMA PressureOfLevels == ScanPressure <=> Pressure(LevelF)
<1>1. \A n, j : Above(n, j) = AboveIn(LevelF, n, j)
  BY DEF Above, AboveIn, LevelF, Home
<1> QED BY <1>1 DEF ScanPressure, Pressure

LEMMA PressureOfLevelsNext == ScanPressure' <=> Pressure(LevelF')
<1>1. \A n, j : Above(n, j)' = AboveIn(LevelF', n, j)
  BY DEF Above, AboveIn, LevelF, Home
<1> QED BY <1>1 DEF ScanPressure, Pressure

(* A step that moves no page and touches no bitmap. *)
LEMMA KeepPlaces ==
  ASSUME IInv, UNCHANGED <<mapping, free_pages>>,
         \A q \in PageIds : /\ HasPlace(q)' <=> HasPlace(q)
                            /\ PlaceNode(q)' = PlaceNode(q)
                            /\ PlaceSlot(q)' = PlaceSlot(q)
  PROVE  BitmapExact' /\ FreeCountExact' /\ NoSharedSlot'
<1>1. FreeCountExact'
  BY DEF IInv, FreeCountExact
<1>2. NoSharedSlot'
  BY DEF IInv, NoSharedSlot
<1>3. BitmapExact'
  <2>1. \A q \in PageIds : \A n, s : PlacedAt(q, n, s)' <=> PlacedAt(q, n, s)
    BY DEF PlacedAt
  <2> QED BY <2>1 DEF IInv, BitmapExact
<1> QED BY <1>1, <1>2, <1>3

(* Page id p, and only p, changes its position. *)
LEMMA MoveLevel ==
  ASSUME NEW p \in PageIds,
         \A q \in PageIds \ {p} : Level(q)' = Level(q)
  PROVE  LevelF' = [LevelF EXCEPT ![p] = Level(p)']
BY DEF LevelF

-----------------------------------------------------------------------------
(* The steps that change the bitmaps or the position of a page. *)

(* sswap_add_mapping gives the old slot back. *)
LEMMA ClearKeepsBitmaps ==
  ASSUME IInv, NEW p \in PageIds, ClearOldMapping(p)
  PROVE  BitmapExact' /\ FreeCountExact' /\ NoSharedSlot'
<1> DEFINE n == PlaceNode(p)
           s == PlaceSlot(p)
           m == MapOf(s)
           b == BitOf(s)
<1>1. pc[p] = "replace" /\ HasPlace(p)
  BY DEF ClearOldMapping, HasOldMapping, HasPlace
<1>2. /\ n \in Node /\ s \in Nat /\ m \in Map /\ b \in Bit
      /\ GlobalSlot(m, b) = s
  BY <1>1, PlaceFacts DEF IInv, TypeOK
<1>3. /\ n = RemoteType(i_pages[p]) /\ s = RemoteSlot(i_pages[p])
  BY <1>1 DEF PlaceNode, PlaceSlot
<1> HIDE DEF n, s
<1>4. /\ mapping' = [mapping EXCEPT ![n][m] = mapping[n][m] \ {b}]
      /\ free_pages' = [free_pages EXCEPT ![n][m] = free_pages[n][m] + 1]
      /\ i_pages' = i_pages /\ call' = call
      /\ pc' = [pc EXCEPT ![p] = "select"]
  BY <1>3 DEF ClearOldMapping, ClearBit
<1>5. /\ mapping \in [Node -> [Map -> SUBSET Bit]]
      /\ free_pages \in [Node -> [Map -> Nat]]
      /\ pc \in [PageIds -> {"idle", "replace", "select", "overrun", "install",
                           "write", "read"}]
  BY DEF IInv, TypeOK
<1>6. \A k \in Node, i \in Map :
        mapping'[k][i] = IF k = n /\ i = m THEN mapping[n][m] \ {b} ELSE mapping[k][i]
  BY <1>2, <1>4, <1>5
<1>7. \A k \in Node, i \in Map :
        free_pages'[k][i] = IF k = n /\ i = m THEN free_pages[n][m] + 1 ELSE free_pages[k][i]
  <2>1. free_pages[n][m] + 1 \in Nat
    BY <1>2, <1>5
  <2> QED BY <2>1, <1>2, <1>4, <1>5, UpdateMap
<1>8. ~HasPlace(p)'
  BY <1>4, <1>5 DEF HasPlace
<1>9. \A q \in PageIds \ {p} :
        /\ HasPlace(q)' <=> HasPlace(q)
        /\ PlaceNode(q)' = PlaceNode(q)
        /\ PlaceSlot(q)' = PlaceSlot(q)
  BY <1>4, <1>5, OtherPlace
<1>10. NoSharedSlot'
  BY <1>8, <1>9 DEF IInv, NoSharedSlot
<1>11. b \in mapping[n][m]
  BY <1>1, <1>2 DEF IInv, BitmapExact, PlacedAt, n, s
<1>12. FreeCountExact'
  <2>1. SUFFICES ASSUME NEW k \in Node, NEW i \in Map
                 PROVE  free_pages'[k][i] = SpacePages - Cardinality(mapping'[k][i])
    BY DEF FreeCountExact
  <2>2. IsFiniteSet(mapping[n][m]) /\ Cardinality(mapping[n][m]) \in Nat
    <3>1. mapping[n][m] \in SUBSET Bit
      BY <1>2, <1>5
    <3>2. IsFiniteSet(Bit)
      BY FS_Interval, SizesAssumption DEF Bit
    <3> QED BY <3>1, <3>2, FS_Subset, FS_CardinalityType
  <2>3. Cardinality(mapping[n][m] \ {b}) = Cardinality(mapping[n][m]) - 1
    BY <1>11, <2>2, FS_RemoveElement
  <2>4. \A k1 \in Node, i1 \in Map :
          free_pages[k1][i1] = SpacePages - Cardinality(mapping[k1][i1])
    BY DEF IInv, FreeCountExact
  <2>5. CASE k = n /\ i = m
    BY <1>6, <1>7, <2>2, <2>3, <2>4, <2>5, SizesAssumption
  <2>6. CASE ~(k = n /\ i = m)
    BY <1>6, <1>7, <2>4, <2>6
  <2> QED BY <2>5, <2>6
<1>13. BitmapExact'
  <2>1. SUFFICES ASSUME NEW k \in Node, NEW i \in Map
                 PROVE  mapping'[k][i] =
                          {c \in Bit : \E q \in PageIds : PlacedAt(q, k, GlobalSlot(i, c))'}
    BY DEF BitmapExact
  <2>2. mapping[k][i] = {c \in Bit : \E q \in PageIds : PlacedAt(q, k, GlobalSlot(i, c))}
    BY DEF IInv, BitmapExact
  <2>3. ASSUME NEW c \in Bit
        PROVE  (\E q \in PageIds : PlacedAt(q, k, GlobalSlot(i, c))') <=>
               /\ \E q \in PageIds : PlacedAt(q, k, GlobalSlot(i, c))
               /\ ~(k = n /\ i = m /\ c = b)
    <3>1. (\E q \in PageIds : PlacedAt(q, k, GlobalSlot(i, c))') <=>
          (\E q \in PageIds \ {p} : PlacedAt(q, k, GlobalSlot(i, c)))
      BY <1>8, <1>9 DEF PlacedAt
    <3>2. k = n /\ i = m /\ c = b =>
            ~(\E q \in PageIds \ {p} : PlacedAt(q, k, GlobalSlot(i, c)))
      BY <1>1, <1>2 DEF PlacedAt, IInv, NoSharedSlot, n, s
    <3>3. ~(k = n /\ i = m /\ c = b) => ~PlacedAt(p, k, GlobalSlot(i, c))
      <4>1. GlobalSlot(i, c) = s => i = m /\ c = b
        BY <1>2, SlotOfBit
      <4> QED BY <4>1 DEF PlacedAt, n, s
    <3> QED BY <3>1, <3>2, <3>3
  <2> QED BY <1>6, <2>2, <2>3
<1> QED BY <1>10, <1>12, <1>13

(* sswap_select_slot finds a zero bit in the map it looks at, if its        *)
(* counter is not zero.                                                     *)
LEMMA ScannedMap ==
  ASSUME IInv, NEW p \in PageIds, pc[p] = "select"
  PROVE  /\ call[p].type \in Node /\ call[p].type = Appoint(p)
         /\ call[p].map \in Map /\ call[p].map \in Nat
         /\ mapping[call[p].type][call[p].map] \subseteq Bit
         /\ IsFiniteSet(mapping[call[p].type][call[p].map])
         /\ Cardinality(mapping[call[p].type][call[p].map]) \in Nat
         /\ free_pages[call[p].type][call[p].map]
              = SpacePages - Cardinality(mapping[call[p].type][call[p].map])
         /\ free_pages[call[p].type][call[p].map] = 0
              => Bit \subseteq mapping[call[p].type][call[p].map]
<1> DEFINE n == call[p].type
           m == call[p].map
           bits == mapping[n][m]
<1>1. call[p] \in Call
  BY DEF IInv, TypeOK
<1>2. n \in Node /\ n = Appoint(p) /\ m \in Map /\ m \in Nat
  BY <1>1, NrMapsFacts DEF Call, Map, IInv, CallsOK
<1> HIDE DEF n, m
<1>3. bits \subseteq Bit
  BY <1>2 DEF IInv, BitmapExact
<1>4. IsFiniteSet(Bit) /\ Cardinality(Bit) = SpacePages
  BY FS_Interval, SizesAssumption DEF Bit
<1>5. IsFiniteSet(bits) /\ Cardinality(bits) \in Nat
  BY <1>3, <1>4, FS_Subset, FS_CardinalityType
<1>6. free_pages[n][m] = SpacePages - Cardinality(bits)
  BY <1>2 DEF IInv, FreeCountExact
<1>7. free_pages[n][m] = 0 => Bit \subseteq bits
  <2>1. SUFFICES ASSUME free_pages[n][m] = 0 PROVE Bit \subseteq bits
    OBVIOUS
  <2>2. Cardinality(bits) = Cardinality(Bit)
    BY <2>1, <1>4, <1>5, <1>6, SizesAssumption
  <2> QED BY <2>2, <1>3, <1>4, FS_Subset
<1> QED BY <1>2, <1>3, <1>5, <1>6, <1>7 DEF n, m

(* find_first_zero_bit finds a bit nobody owns. *)
LEMMA TakenBit ==
  ASSUME IInv, NEW p \in PageIds, TakeSlot(p)
  PROVE  \E b \in Bit :
           /\ b \notin mapping[call[p].type][call[p].map]
           /\ 0 .. b - 1 \subseteq mapping[call[p].type][call[p].map]
           /\ mapping' = [mapping EXCEPT ![call[p].type][call[p].map] = @ \cup {b}]
           /\ free_pages' = [free_pages EXCEPT ![call[p].type][call[p].map] = @ - 1]
           /\ free_pages[call[p].type][call[p].map] # 0
           /\ call' = [call EXCEPT ![p].slot = GlobalSlot(call[p].map, b)]
           /\ pc' = [pc EXCEPT ![p] = "install"]
           /\ i_pages' = i_pages /\ frontswap' = frontswap
<1> DEFINE n == call[p].type
           m == call[p].map
           bits == mapping[n][m]
<1>1. pc[p] = "select" /\ ~call[p].full
  BY DEF TakeSlot, IInv, CallsOK
<1>2. PICK b \in Bit :
        /\ IsFirstZeroBit(b, bits)
        /\ mapping' = [mapping EXCEPT ![n][m] = SetBit(@, b)]
        /\ call' = [call EXCEPT ![p].slot = IF call[p].full THEN 0 ELSE GlobalSlot(m, b)]
  BY DEF TakeSlot
<1>3. free_pages[n][m] # 0
  BY DEF TakeSlot
<1>7. b \notin bits /\ 0 .. b - 1 \subseteq bits
  BY <1>2 DEF IsFirstZeroBit
<1>8. /\ free_pages' = [free_pages EXCEPT ![n][m] = @ - 1]
      /\ pc' = [pc EXCEPT ![p] = "install"]
      /\ i_pages' = i_pages /\ frontswap' = frontswap
  BY <1>1 DEF TakeSlot
<1>9. /\ mapping' = [mapping EXCEPT ![n][m] = @ \cup {b}]
      /\ call' = [call EXCEPT ![p].slot = GlobalSlot(m, b)]
  BY <1>1, <1>2 DEF SetBit
<1> QED BY <1>2, <1>3, <1>7, <1>8, <1>9

(* A counter that is not zero comes with a zero bit. *)
LEMMA NeverOverruns ==
  ASSUME IInv, NEW p \in PageIds
  PROVE  ~OverrunMap(p)
<1> SUFFICES ASSUME OverrunMap(p) PROVE FALSE
  OBVIOUS
<1> DEFINE n == call[p].type
           m == call[p].map
           bits == mapping[n][m]
<1>1. pc[p] = "select" /\ free_pages[n][m] # 0 /\ Bit \subseteq bits
  BY DEF OverrunMap
<1>2. bits \subseteq Bit /\ free_pages[n][m] = SpacePages - Cardinality(bits)
  BY <1>1, ScannedMap
<1>3. Cardinality(Bit) = SpacePages
  BY FS_Interval, SizesAssumption DEF Bit
<1>4. bits = Bit
  BY <1>1, <1>2
<1> HIDE DEF bits
<1>5. free_pages[n][m] = SpacePages - SpacePages
  BY <1>2, <1>3, <1>4
<1> QED BY <1>1, <1>5, SizesAssumption

(* sswap_select_slot takes a slot. *)
LEMMA TakeKeepsBitmaps ==
  ASSUME IInv, NEW p \in PageIds, TakeSlot(p)
  PROVE  BitmapExact' /\ FreeCountExact' /\ NoSharedSlot'
<1> DEFINE n == call[p].type
           m == call[p].map
<1>1. pc[p] = "select"
  BY DEF TakeSlot
<1>2. /\ n \in Node /\ m \in Map
      /\ IsFiniteSet(mapping[n][m]) /\ Cardinality(mapping[n][m]) \in Nat
  BY <1>1, ScannedMap
<1>t. /\ mapping \in [Node -> [Map -> SUBSET Bit]]
      /\ free_pages \in [Node -> [Map -> Nat]]
      /\ pc \in [PageIds -> {"idle", "replace", "select", "overrun", "install",
                           "write", "read"}]
      /\ call \in [PageIds -> Call]
  BY DEF IInv, TypeOK
<1>3. PICK b \in Bit :
        /\ b \notin mapping[n][m]
        /\ mapping' = [mapping EXCEPT ![n][m] = @ \cup {b}]
        /\ free_pages' = [free_pages EXCEPT ![n][m] = @ - 1]
        /\ free_pages[n][m] # 0
        /\ call' = [call EXCEPT ![p].slot = GlobalSlot(m, b)]
        /\ pc' = [pc EXCEPT ![p] = "install"]
        /\ i_pages' = i_pages
  BY TakenBit
<1>4. pc'[p] = "install" /\ call'[p].type = n /\ call'[p].slot = GlobalSlot(m, b)
  <2>1. call[p] \in Call
    BY <1>t
  <2> QED BY <2>1, <1>t, <1>3 DEF Call
<1> HIDE DEF n, m
<1>5. \A k \in Node, i \in Map :
        mapping'[k][i] = IF k = n /\ i = m THEN mapping[n][m] \cup {b} ELSE mapping[k][i]
  BY <1>2, <1>3, <1>t
<1>6. \A k \in Node, i \in Map :
        free_pages'[k][i] = IF k = n /\ i = m THEN free_pages[n][m] - 1 ELSE free_pages[k][i]
  <2>1. free_pages[n][m] - 1 \in Nat
    <3> DEFINE f == free_pages[n][m]
    <3>1. f \in Nat /\ f # 0
      BY <1>2, <1>3, <1>t
    <3> HIDE DEF f
    <3>2. f - 1 \in Nat
      BY <3>1
    <3> QED BY <3>2 DEF f
  <2>2. free_pages' = [free_pages EXCEPT ![n][m] = free_pages[n][m] - 1]
    BY <1>3
  <2> QED BY <2>1, <2>2, <1>2, <1>t, UpdateMap
<1>7. /\ ~HasPlace(p) /\ HasPlace(p)'
      /\ PlaceNode(p)' = n /\ PlaceSlot(p)' = GlobalSlot(m, b)
  BY <1>1, <1>4 DEF HasPlace, PlaceNode, PlaceSlot
<1>8. \A q \in PageIds \ {p} :
        /\ HasPlace(q)' <=> HasPlace(q)
        /\ PlaceNode(q)' = PlaceNode(q)
        /\ PlaceSlot(q)' = PlaceSlot(q)
  BY <1>3, <1>t, OtherPlace
<1>9. \A q \in PageIds : ~PlacedAt(q, n, GlobalSlot(m, b))
  BY <1>2, <1>3 DEF IInv, BitmapExact
<1>10. NoSharedSlot'
  <2>1. \A q \in PageIds \ {p} : HasPlace(q)' =>
          PlaceNode(q)' # PlaceNode(p)' \/ PlaceSlot(q)' # PlaceSlot(p)'
    BY <1>7, <1>8, <1>9 DEF PlacedAt
  <2> QED BY <2>1, <1>8 DEF IInv, NoSharedSlot
<1>11. FreeCountExact'
  <2>1. SUFFICES ASSUME NEW k \in Node, NEW i \in Map
                 PROVE  free_pages'[k][i] = SpacePages - Cardinality(mapping'[k][i])
    BY DEF FreeCountExact
  <2>2. Cardinality(mapping[n][m] \cup {b}) = Cardinality(mapping[n][m]) + 1
    BY <1>2, <1>3, FS_AddElement
  <2>3. \A k1 \in Node, i1 \in Map :
          free_pages[k1][i1] = SpacePages - Cardinality(mapping[k1][i1])
    BY DEF IInv, FreeCountExact
  <2>4. CASE k = n /\ i = m
    BY <1>2, <1>5, <1>6, <2>2, <2>3, <2>4, SizesAssumption
  <2>5. CASE ~(k = n /\ i = m)
    BY <1>5, <1>6, <2>3, <2>5
  <2> QED BY <2>4, <2>5
<1>12. BitmapExact'
  <2>1. SUFFICES ASSUME NEW k \in Node, NEW i \in Map
                 PROVE  mapping'[k][i] =
                          {c \in Bit : \E q \in PageIds : PlacedAt(q, k, GlobalSlot(i, c))'}
    BY DEF BitmapExact
  <2>2. mapping[k][i] = {c \in Bit : \E q \in PageIds : PlacedAt(q, k, GlobalSlot(i, c))}
    BY DEF IInv, BitmapExact
  <2>3. ASSUME NEW c \in Bit
        PROVE  (\E q \in PageIds : PlacedAt(q, k, GlobalSlot(i, c))') <=>
               \/ \E q \in PageIds : PlacedAt(q, k, GlobalSlot(i, c))
               \/ k = n /\ i = m /\ c = b
    <3>1. (\E q \in PageIds : PlacedAt(q, k, GlobalSlot(i, c))') <=>
          \/ \E q \in PageIds : PlacedAt(q, k, GlobalSlot(i, c))
          \/ PlacedAt(p, k, GlobalSlot(i, c))'
      BY <1>7, <1>8 DEF PlacedAt
    <3>2. PlacedAt(p, k, GlobalSlot(i, c))' <=> k = n /\ i = m /\ c = b
      <4>1. GlobalSlot(i, c) = GlobalSlot(m, b) => i = m /\ c = b
        BY <1>2, SlotOfBit
      <4> QED BY <4>1, <1>7 DEF PlacedAt
    <3> QED BY <3>1, <3>2
  <2> QED BY <1>3, <1>5, <2>2, <2>3
<1> QED BY <1>10, <1>11, <1>12

(* The pages that own the first b slots of a map stand at those positions.  *)
LEMMA OwnersBelow ==
  ASSUME IInv, NEW p \in PageIds, pc[p] = "select", NEW b \in 0 .. SpacePages,
         0 .. b - 1 \subseteq mapping[call[p].type][call[p].map]
  PROVE  \A k \in 0 .. b - 1 : \E q \in Home(Appoint(p)) :
           q # p /\ Level(q) = call[p].map * SpacePages + k
<1> DEFINE n == call[p].type
           m == call[p].map
<1>1. n \in Node /\ n = Appoint(p) /\ m \in Map
  BY ScannedMap
<1> SUFFICES ASSUME NEW k \in 0 .. b - 1
             PROVE  \E q \in Home(Appoint(p)) : q # p /\ Level(q) = m * SpacePages + k
  OBVIOUS
<1>2. k \in Bit /\ k \in mapping[n][m]
  BY SizesAssumption DEF Bit
<1>3. PICK q \in PageIds : PlacedAt(q, n, GlobalSlot(m, k))
  BY <1>1, <1>2 DEF IInv, BitmapExact
<1>4. HasPlace(q) /\ PlaceNode(q) = n /\ PlaceSlot(q) = m * SpacePages + k
  BY <1>3 DEF PlacedAt, GlobalSlot
<1>5. Appoint(q) = n
  BY <1>4, PlaceFacts DEF IInv, TypeOK
<1>6. pc[q] # "select"
  BY <1>4 DEF HasPlace
<1>7. q # p /\ Level(q) = m * SpacePages + k
  BY <1>4, <1>6 DEF Level
<1> QED BY <1>1, <1>5, <1>7 DEF Home

-----------------------------------------------------------------------------
(* Every step keeps the invariant. *)

(* What the invariant says of one page id alone. *)
LocalOK(p) ==
  /\ i_pages[p] # NULL =>
       /\ RemoteType(i_pages[p]) = Appoint(p)
       /\ RemoteSlot(i_pages[p]) \in Nat
       /\ RemoteSlot(i_pages[p]) < NrMaps * SpacePages
  /\ call[p].map < NrMaps /\ ~call[p].full /\ ~call[p].second
  /\ pc[p] \in {"replace", "select", "install"} => call[p].type = Appoint(p)
  /\ pc[p] = "replace" => call[p].map = 0
  /\ pc[p] = "install" => call[p].slot < NrMaps * SpacePages
  /\ pc[p] # "overrun"
  /\ Transferring(p) => PlacedAt(p, call[p].type, call[p].slot)
  /\ p \in frontswap => i_pages[p] # NULL

LEMMA LocalOfInv == IInv => \A p \in PageIds : LocalOK(p)
BY DEF IInv, WordsOK, CallsOK, TransferOwnsSlot, FrontswapMapped, LocalOK

(* Only page id p's own state changes. *)
OnlyPage(p) ==
  \A q \in PageIds \ {p} :
    /\ pc'[q] = pc[q] /\ call'[q] = call[q] /\ i_pages'[q] = i_pages[q]
    /\ q \in frontswap' <=> q \in frontswap

LEMMA LocalFrame ==
  ASSUME IInv, NEW p \in PageIds, OnlyPage(p), LocalOK(p)', frontswap' \subseteq PageIds
  PROVE  WordsOK' /\ CallsOK' /\ TransferOwnsSlot' /\ FrontswapMapped'
<1>1. ASSUME NEW q \in PageIds PROVE LocalOK(q)'
  <2>1. CASE q = p
    BY <2>1
  <2>2. CASE q # p
    <3>1. LocalOK(q)
      BY LocalOfInv
    <3> QED BY <2>2, <3>1 DEF OnlyPage, LocalOK, Transferring, PlacedAt,
                              HasPlace, PlaceNode, PlaceSlot
  <2> QED BY <2>1, <2>2
<1>2. WordsOK'
  BY <1>1 DEF WordsOK, LocalOK
<1>3. CallsOK'
  BY <1>1 DEF CallsOK, LocalOK
<1>4. TransferOwnsSlot'
  BY <1>1 DEF TransferOwnsSlot, LocalOK
<1>5. FrontswapMapped'
  BY <1>1 DEF FrontswapMapped, LocalOK
<1> QED BY <1>2, <1>3, <1>4, <1>5

(* The page id keeps its place, its position and the bitmaps. *)
KeepsPlace(p) ==
  /\ UNCHANGED <<mapping, free_pages>>
  /\ HasPlace(p)' <=> HasPlace(p)
  /\ PlaceNode(p)' = PlaceNode(p)
  /\ PlaceSlot(p)' = PlaceSlot(p)
  /\ Level(p)' = Level(p)

LEMMA QuietStep ==
  ASSUME IInv, NEW p \in PageIds, OnlyPage(p), LocalOK(p)', TypeOK', KeepsPlace(p)
  PROVE  IInv'
<1>1. \A q \in PageIds : /\ HasPlace(q)' <=> HasPlace(q)
                         /\ PlaceNode(q)' = PlaceNode(q)
                         /\ PlaceSlot(q)' = PlaceSlot(q)
                         /\ Level(q)' = Level(q)
  BY OtherPlace DEF OnlyPage, KeepsPlace
<1>2. BitmapExact' /\ FreeCountExact' /\ NoSharedSlot'
  BY <1>1, KeepPlaces DEF KeepsPlace
<1>3. LevelF' = LevelF
  BY <1>1 DEF LevelF
<1>4. ScanPressure'
  BY <1>3, PressureOfLevels, PressureOfLevelsNext DEF IInv
<1>5. WordsOK' /\ CallsOK' /\ TransferOwnsSlot' /\ FrontswapMapped'
  BY LocalFrame DEF TypeOK
<1> QED BY <1>2, <1>4, <1>5 DEF IInv

(* The page id moves: the three conditions a moving step has to meet. *)
LEMMA MovingStep ==
  ASSUME IInv, NEW p \in PageIds, OnlyPage(p), LocalOK(p)', TypeOK',
         BitmapExact' /\ FreeCountExact' /\ NoSharedSlot',
         Pressure([LevelF EXCEPT ![p] = Level(p)'])
  PROVE  IInv'
<1>1. \A q \in PageIds \ {p} : Level(q)' = Level(q)
  BY OtherPlace DEF OnlyPage
<1>2. ScanPressure'
  BY <1>1, MoveLevel, PressureOfLevelsNext
<1>3. WordsOK' /\ CallsOK' /\ TransferOwnsSlot' /\ FrontswapMapped'
  BY LocalFrame DEF TypeOK
<1> QED BY <1>2, <1>3 DEF IInv

(* When p is scanning, a move over b owned slots keeps the pressure down. *)
LEMMA ScanMove ==
  ASSUME IInv, NEW p \in PageIds, pc[p] = "select", NEW b \in 0 .. SpacePages,
         0 .. b - 1 \subseteq mapping[call[p].type][call[p].map],
         Level(p)' = call[p].map * SpacePages + b
  PROVE  Pressure([LevelF EXCEPT ![p] = Level(p)'])
<1> DEFINE i == call[p].map * SpacePages
<1>1. call[p].map \in Nat /\ call[p].map \in Map
  BY ScannedMap
<1>2. i \in Nat /\ i <= NrMaps * SpacePages
  <2>1. SpacePages \in Nat
    BY SizesAssumption
  <2>2. i \in Nat
    BY <1>1, <2>1
  <2>3. call[p].map < NrMaps
    BY <1>1, NrMapsFacts DEF Map
  <2>4. i + SpacePages <= NrMaps * SpacePages
    BY <1>1, <2>1, <2>3, MulMono, NrMapsFacts
  <2> QED BY <2>1, <2>2, <2>4, NrMapsFacts
<1>3. LevelF[p] = i
  BY DEF LevelF, Level
<1>4. \A k \in 0 .. b - 1 : \E q \in Home(Appoint(p)) : q # p /\ LevelF[q] = i + k
  BY OwnersBelow DEF LevelF, Home
<1>5. b \in Nat
  BY SizesAssumption
<1>6. LevelF \in [PageIds -> Int] /\ Pressure(LevelF)
  BY LevelType, PressureOfLevels DEF IInv, TypeOK
<1> HIDE DEF i
<1>7. Pressure([LevelF EXCEPT ![p] = i + b])
  BY <1>2, <1>3, <1>4, <1>5, <1>6, RaisePressure
<1> QED BY <1>7 DEF i

(* A position at or past the last map is out of reach: it would take more   *)
(* page ids than the swap area has.                                         *)
LEMMA LastMapHasRoom ==
  ASSUME NEW L \in [PageIds -> Int], Pressure(L), NEW p \in PageIds
  PROVE  L[p] < NrMaps * SpacePages
<1> DEFINE j == NrMaps * SpacePages
           n == Appoint(p)
<1>1. SUFFICES ASSUME L[p] >= j PROVE FALSE
  BY NrMapsFacts
<1>2. p \in AboveIn(L, n, j)
  BY <1>1 DEF AboveIn, Home
<1>3. n \in Node /\ j \in 0 .. NrMaps * SpacePages /\ j \in Nat /\ BufPages <= j
  BY AppointNode, NrMapsFacts
<1>4. Cardinality(AboveIn(L, n, j)) + j <= Cardinality(Home(n))
  BY <1>2, <1>3 DEF Pressure
<1>5. /\ IsFiniteSet(AboveIn(L, n, j)) /\ Cardinality(AboveIn(L, n, j)) \in Nat
      /\ Cardinality(AboveIn(L, n, j)) # 0
  BY <1>2, AboveFinite, FS_EmptySet
<1>6. Cardinality(Home(n)) \in Nat /\ Cardinality(Home(n)) <= BufPages
  BY HomeFinite
<1> HIDE DEF j
<1> QED BY <1>3, <1>4, <1>5, <1>6, SizesAssumption

LEMMA StepIInv ==
  ASSUME XaMayFail = FALSE, IInv, NEW p \in PageIds,
         \/ SchedulerWrite(p) \/ AddMapping(p) \/ StoreReturns(p)
         \/ SchedulerRead(p) \/ LoadReturns(p) \/ InvalidatePage(p)
  PROVE  IInv'
<1>t. TypeOK /\ TypeOK'
  BY StepTypeOK DEF IInv
<1>u. /\ pc \in [PageIds -> {"idle", "replace", "select", "overrun", "install",
                           "write", "read"}]
      /\ call \in [PageIds -> Call]
      /\ i_pages \in [PageIds -> Nat \cup {NULL}]
      /\ call[p] \in Call
  BY <1>t DEF TypeOK
<1>n. /\ NoCall.map = 0 /\ NoCall.full = FALSE /\ NoCall.second = FALSE
      /\ \A v : [NoCall EXCEPT !.type = v].type = v
      /\ \A v : [NoCall EXCEPT !.type = v].map = 0
      /\ \A v : ~[NoCall EXCEPT !.type = v].full
      /\ \A v : ~[NoCall EXCEPT !.type = v].second
  BY DEF NoCall
<1>z. 0 < NrMaps
  BY NrMapsFacts
<1>l. LocalOK(p)
  BY LocalOfInv
<1>p. LevelF \in [PageIds -> Int] /\ Pressure(LevelF)
  BY LevelType, PressureOfLevels DEF IInv, TypeOK
<1>1. CASE SchedulerWrite(p)
  <2>1. OnlyPage(p)
    BY <1>1, <1>u DEF SchedulerWrite, OnlyPage
  <2>2. LocalOK(p)'
    BY <1>1, <1>u, <1>n, <1>z, <1>l DEF SchedulerWrite, LocalOK, Transferring
  <2>3. KeepsPlace(p)
    BY <1>1, <1>u DEF SchedulerWrite, KeepsPlace, HasPlace, PlaceNode, PlaceSlot, Level
  <2> QED BY <2>1, <2>2, <2>3, <1>t, QuietStep
<1>2. CASE ClearOldMapping(p)
  <2>1. OnlyPage(p) /\ frontswap' = frontswap
    BY <1>2, <1>u DEF ClearOldMapping, OnlyPage
  <2>2. LocalOK(p)'
    BY <1>2, <1>u, <1>l DEF ClearOldMapping, LocalOK, Transferring
  <2>3. Level(p)' = 0
    <3>1. call[p].map = 0 /\ call' = call /\ pc'[p] = "select"
      BY <1>2, <1>u, <1>l DEF ClearOldMapping, LocalOK
    <3> QED BY <3>1, SizesAssumption DEF Level
  <2>4. Pressure([LevelF EXCEPT ![p] = Level(p)'])
    <3>1. Pressure([LevelF EXCEPT ![p] = 0])
      BY <1>p, ResetPressure
    <3> QED BY <2>3, <3>1
  <2>5. BitmapExact' /\ FreeCountExact' /\ NoSharedSlot'
    BY <1>2, ClearKeepsBitmaps
  <2> QED BY <2>1, <2>2, <2>4, <2>5, <1>t, MovingStep
<1>3. CASE NoOldMapping(p)
  <2>1. OnlyPage(p) /\ UNCHANGED <<mapping, free_pages, i_pages, call>>
    BY <1>3, <1>u DEF NoOldMapping, OnlyPage
  <2>2. LocalOK(p)'
    BY <1>3, <1>u, <1>l DEF NoOldMapping, LocalOK, Transferring
  <2>3. Level(p)' = 0
    <3>1. call[p].map = 0 /\ call' = call /\ pc'[p] = "select"
      BY <1>3, <1>u, <1>l DEF NoOldMapping, LocalOK
    <3> QED BY <3>1, SizesAssumption DEF Level
  <2>4. Pressure([LevelF EXCEPT ![p] = Level(p)'])
    <3>1. Pressure([LevelF EXCEPT ![p] = 0])
      BY <1>p, ResetPressure
    <3> QED BY <2>3, <3>1
  <2>5. ~HasPlace(p) /\ ~HasPlace(p)'
    BY <1>3, <1>u DEF NoOldMapping, HasOldMapping, HasPlace
  <2>6. \A q \in PageIds \ {p} : /\ HasPlace(q)' <=> HasPlace(q)
                                 /\ PlaceNode(q)' = PlaceNode(q)
                                 /\ PlaceSlot(q)' = PlaceSlot(q)
    BY <2>1, OtherPlace DEF OnlyPage
  <2>7. BitmapExact' /\ FreeCountExact' /\ NoSharedSlot'
    <3>1. FreeCountExact'
      BY <2>1 DEF IInv, FreeCountExact
    <3>2. NoSharedSlot'
      BY <2>5, <2>6 DEF IInv, NoSharedSlot
    <3>3. \A q \in PageIds : \A n, s : PlacedAt(q, n, s)' <=> PlacedAt(q, n, s)
      BY <2>5, <2>6 DEF PlacedAt
    <3>4. BitmapExact'
      BY <2>1, <3>3 DEF IInv, BitmapExact
    <3> QED BY <3>1, <3>2, <3>4
  <2> QED BY <2>1, <2>2, <2>4, <2>7, <1>t, MovingStep
<1>4. CASE TakeSlot(p)
  <2>1. pc[p] = "select" /\ call[p].map \in Map /\ call[p].map \in Nat
    BY <1>4, ScannedMap DEF TakeSlot
  <2>2. PICK b \in Bit :
          /\ 0 .. b - 1 \subseteq mapping[call[p].type][call[p].map]
          /\ call' = [call EXCEPT ![p].slot = GlobalSlot(call[p].map, b)]
          /\ pc' = [pc EXCEPT ![p] = "install"]
          /\ i_pages' = i_pages /\ frontswap' = frontswap
    BY <1>4, TakenBit
  <2>3. OnlyPage(p)
    BY <2>2, <1>u DEF OnlyPage
  <2>4. /\ call'[p].slot = GlobalSlot(call[p].map, b) /\ call'[p].type = call[p].type
        /\ call'[p].map = call[p].map /\ call'[p].full = call[p].full
        /\ call'[p].second = call[p].second /\ pc'[p] = "install"
    BY <2>2, <1>u DEF Call
  <2>5. GlobalSlot(call[p].map, b) < NrMaps * SpacePages
    BY <2>1, SlotOfBit
  <2>6. LocalOK(p)'
    BY <2>1, <2>2, <2>4, <2>5, <1>l DEF LocalOK, Transferring
  <2>7. Level(p)' = call[p].map * SpacePages + b
    BY <2>4 DEF Level, HasPlace, PlaceSlot, GlobalSlot
  <2>8. b \in 0 .. SpacePages
    BY SizesAssumption DEF Bit
  <2>9. Pressure([LevelF EXCEPT ![p] = Level(p)'])
    BY <2>1, <2>2, <2>7, <2>8, ScanMove
  <2>10. BitmapExact' /\ FreeCountExact' /\ NoSharedSlot'
    BY <1>4, TakeKeepsBitmaps
  <2> QED BY <2>2, <2>3, <2>6, <2>9, <2>10, <1>t, MovingStep
<1>5. CASE SkipMap(p)
  <2> DEFINE n == call[p].type
             m == call[p].map
  <2>1. /\ pc[p] = "select" /\ free_pages[n][m] = 0
        /\ call' = [call EXCEPT ![p].map = m + 1]
        /\ UNCHANGED <<mapping, free_pages, i_pages, frontswap, pc>>
    BY <1>5 DEF SkipMap
  <2>2. m \in Nat /\ m \in Map /\ Bit \subseteq mapping[n][m]
    BY <2>1, ScannedMap
  <2>3. OnlyPage(p)
    BY <2>1, <1>u DEF OnlyPage
  <2>4. /\ call'[p].map = m + 1 /\ call'[p].type = n
        /\ call'[p].full = call[p].full /\ call'[p].second = call[p].second
        /\ pc'[p] = "select"
    BY <2>1, <1>u DEF Call
  <2>5. Level(p)' = m * SpacePages + SpacePages
    <3>1. m * SpacePages + SpacePages = (m + 1) * SpacePages
      <4> HIDE DEF m
      <4> QED BY <2>2, SizesAssumption
    <3> QED BY <2>4, <3>1 DEF Level
  <2>6. 0 .. SpacePages - 1 \subseteq mapping[n][m] /\ SpacePages \in 0 .. SpacePages
    BY <2>2, SizesAssumption DEF Bit
  <2>7. Pressure([LevelF EXCEPT ![p] = Level(p)'])
    BY <2>1, <2>5, <2>6, ScanMove
  <2>8. m + 1 < NrMaps
    <3>1. m * SpacePages + SpacePages \in Int
      <4> HIDE DEF m
      <4> QED BY <2>2, GlobalSlotNat, SizesAssumption DEF GlobalSlot
    <3>2. [LevelF EXCEPT ![p] = Level(p)'] \in [PageIds -> Int]
      BY <2>5, <3>1, <1>t, LevelType DEF IInv, TypeOK
    <3>3. [LevelF EXCEPT ![p] = Level(p)'][p] = Level(p)'
      BY DEF LevelF
    <3>4. m * SpacePages + SpacePages < NrMaps * SpacePages
      BY <2>5, <2>7, <3>2, <3>3, LastMapHasRoom
    <3>5. m + 1 # NrMaps
      <4>1. SUFFICES ASSUME m + 1 = NrMaps PROVE FALSE
        OBVIOUS
      <4>2. NrMaps * SpacePages = m * SpacePages + SpacePages
        <5> HIDE DEF m
        <5> QED BY <4>1, <2>2, SizesAssumption
      <4> QED BY <3>1, <3>4, <4>2
    <3> HIDE DEF m
    <3> QED BY <2>2, <3>5, NrMapsFacts DEF Map
  <2>9. LocalOK(p)'
    BY <2>1, <2>4, <2>8, <1>l DEF LocalOK, Transferring
  <2>10. BitmapExact' /\ FreeCountExact' /\ NoSharedSlot'
    <3>1. \A q \in PageIds : /\ HasPlace(q)' <=> HasPlace(q)
                             /\ PlaceNode(q)' = PlaceNode(q)
                             /\ PlaceSlot(q)' = PlaceSlot(q)
      BY <2>1, <2>3, OtherPlace DEF OnlyPage, HasPlace, PlaceNode, PlaceSlot
    <3> QED BY <2>1, <3>1, KeepPlaces
  <2> QED BY <2>1, <2>3, <2>7, <2>9, <2>10, <1>t, MovingStep
<1>6. CASE FallBack(p)
  BY <1>6, <1>l, <1>z, NrMapsFacts DEF FallBack, LocalOK
<1>7. CASE GiveUp(p)
  BY <1>7, <1>l, <1>z, NrMapsFacts DEF GiveUp, LocalOK
<1>8. CASE InstallMapping(p)
  <2>1. /\ pc[p] = "install" /\ pc'[p] = "write" /\ call' = call
        /\ i_pages'[p] = MakeXaMsg(call[p].slot, call[p].type)
    BY <1>8, <1>u DEF InstallMapping
  <2>2. OnlyPage(p) /\ UNCHANGED <<mapping, free_pages, frontswap>>
    BY <1>8, <1>u DEF InstallMapping, OnlyPage
  <2>3. call[p].slot \in Nat /\ call[p].type \in Node
    BY <1>u, SlotFacts DEF Call
  <2>4. /\ i_pages'[p] \in Nat /\ i_pages'[p] # NULL
        /\ RemoteType(i_pages'[p]) = call[p].type
        /\ RemoteSlot(i_pages'[p]) = call[p].slot
    BY <2>1, <2>3, XaMsgRoundTrip, SizesAssumption
  <2>5. KeepsPlace(p)
    BY <2>1, <2>2, <2>4 DEF KeepsPlace, HasPlace, PlaceNode, PlaceSlot, Level
  <2>6. LocalOK(p)'
    BY <2>1, <2>2, <2>3, <2>4, <1>l
       DEF LocalOK, Transferring, PlacedAt, HasPlace, PlaceNode, PlaceSlot
  <2> QED BY <2>2, <2>5, <2>6, <1>t, QuietStep
<1>9. CASE InstallFails(p)
  BY <1>9 DEF InstallFails
<1>10. CASE StoreReturns(p)
  <2>1. OnlyPage(p)
    BY <1>10, <1>u DEF StoreReturns, OnlyPage
  <2>2. LocalOK(p)'
    BY <1>10, <1>u, <1>n, <1>z, <1>l
       DEF StoreReturns, LocalOK, Transferring, PlacedAt, HasPlace
  <2>3. KeepsPlace(p)
    BY <1>10, <1>u DEF StoreReturns, KeepsPlace, HasPlace, PlaceNode, PlaceSlot, Level
  <2> QED BY <2>1, <2>2, <2>3, <1>t, QuietStep
<1>11. CASE SchedulerRead(p)
  <2>1. OnlyPage(p) /\ UNCHANGED <<mapping, free_pages, i_pages, frontswap>>
    BY <1>11, <1>u DEF SchedulerRead, OnlyPage
  <2>2. i_pages[p] # NULL /\ XaToValue(i_pages[p]) = i_pages[p]
    BY <1>11 DEF SchedulerRead, IInv, FrontswapMapped, XaToValue
  <2>3. /\ pc[p] = "idle" /\ pc'[p] = "read"
        /\ call'[p].type = RemoteType(i_pages[p])
        /\ call'[p].slot = RemoteSlot(i_pages[p])
        /\ call'[p].map = 0 /\ ~call'[p].full /\ ~call'[p].second
    BY <1>11, <1>u, <2>2 DEF SchedulerRead, NoCall
  <2>4. LocalOK(p)'
    BY <2>1, <2>2, <2>3, <1>z, <1>l
       DEF LocalOK, Transferring, PlacedAt, HasPlace, PlaceNode, PlaceSlot
  <2>5. KeepsPlace(p)
    BY <2>1, <2>3 DEF KeepsPlace, HasPlace, PlaceNode, PlaceSlot, Level
  <2> QED BY <2>1, <2>4, <2>5, <1>t, QuietStep
<1>12. CASE LoadReturns(p)
  <2>1. OnlyPage(p)
    BY <1>12, <1>u DEF LoadReturns, OnlyPage
  <2>2. LocalOK(p)'
    BY <1>12, <1>u, <1>n, <1>z, <1>l DEF LoadReturns, LocalOK, Transferring
  <2>3. KeepsPlace(p)
    BY <1>12, <1>u DEF LoadReturns, KeepsPlace, HasPlace, PlaceNode, PlaceSlot, Level
  <2> QED BY <2>1, <2>2, <2>3, <1>t, QuietStep
<1>13. CASE InvalidatePage(p)
  <2>1. OnlyPage(p)
    BY <1>13, <1>u DEF InvalidatePage, OnlyPage
  <2>2. LocalOK(p)'
    BY <1>13, <1>l
       DEF InvalidatePage, LocalOK, Transferring, PlacedAt, HasPlace, PlaceNode, PlaceSlot
  <2>3. KeepsPlace(p)
    BY <1>13 DEF InvalidatePage, KeepsPlace, HasPlace, PlaceNode, PlaceSlot, Level
  <2> QED BY <2>1, <2>2, <2>3, <1>t, QuietStep
<1> QED BY <1>1, <1>2, <1>3, <1>4, <1>5, <1>6, <1>7, <1>8, <1>9, <1>10, <1>11,
           <1>12, <1>13, NeverOverruns DEF AddMapping

LEMMA InitIInv == Init => IInv
<1> SUFFICES ASSUME Init PROVE IInv
  OBVIOUS
<1>1. TypeOK
  BY InitTypeOK
<1>2. \A p \in PageIds : ~HasPlace(p) /\ pc[p] = "idle" /\ call[p] = NoCall /\ Level(p) = -1
  BY DEF Init, HasPlace, Level
<1>3. WordsOK /\ FrontswapMapped
  BY DEF Init, WordsOK, FrontswapMapped
<1>4. CallsOK
  BY <1>2, NrMapsFacts DEF CallsOK, NoCall
<1>5. BitmapExact
  BY <1>2 DEF Init, BitmapExact, PlacedAt
<1>6. FreeCountExact
  BY FS_EmptySet, SizesAssumption DEF Init, FreeCountExact
<1>7. NoSharedSlot /\ TransferOwnsSlot
  BY <1>2 DEF NoSharedSlot, TransferOwnsSlot, Transferring
<1>8. ScanPressure
  <2>1. \A n, j : j \in 0 .. NrMaps * SpacePages => Above(n, j) = {}
    BY <1>2, NrMapsFacts DEF Above, Home
  <2> QED BY <2>1 DEF ScanPressure
<1> QED BY <1>1, <1>3, <1>4, <1>5, <1>6, <1>7, <1>8 DEF IInv

LEMMA NextIInv ==
  ASSUME XaMayFail = FALSE
  PROVE  IInv /\ [Next]_vars => IInv'
<1> SUFFICES ASSUME IInv, [Next]_vars PROVE IInv'
  OBVIOUS
<1>1. CASE Next
  BY <1>1, StepIInv DEF Next
<1>2. CASE UNCHANGED vars
  <2> USE <1>2 DEF vars
  <2>1. TypeOK' /\ WordsOK' /\ CallsOK' /\ FrontswapMapped'
    BY NextTypeOK DEF IInv, WordsOK, CallsOK, FrontswapMapped
  <2>2. \A q \in PageIds : /\ HasPlace(q)' <=> HasPlace(q)
                           /\ PlaceNode(q)' = PlaceNode(q)
                           /\ PlaceSlot(q)' = PlaceSlot(q)
                           /\ Level(q)' = Level(q)
    BY OtherPlace
  <2>3. BitmapExact' /\ FreeCountExact' /\ NoSharedSlot'
    BY <2>2, KeepPlaces
  <2>4. TransferOwnsSlot'
    BY <2>2 DEF IInv, TransferOwnsSlot, Transferring, PlacedAt
  <2>5. LevelF' = LevelF
    BY <2>2 DEF LevelF
  <2>6. ScanPressure'
    BY <2>5, PressureOfLevels, PressureOfLevelsNext DEF IInv
  <2> QED BY <2>1, <2>3, <2>4, <2>6 DEF IInv
<1> QED BY <1>1, <1>2

LEMMA Invariance ==
  ASSUME XaMayFail = FALSE
  PROVE  Spec => []IInv
<1>1. IInv /\ [Next]_vars => IInv'
  BY NextIInv
<1> QED BY <1>1, InitIInv, PTL DEF Spec

-----------------------------------------------------------------------------
(* Replacing a mapping (remote_schedule.c:145-173) never leaks a slot and   *)
(* never frees one in use: with memory for the XArray, a bit is set exactly *)
(* when its slot belongs to a page id.                                      *)
THEOREM BitmapsExact ==
  ASSUME XaMayFail = FALSE
  PROVE  Spec => []BitmapExact
<1>1. IInv => BitmapExact
  BY DEF IInv
<1> QED BY <1>1, Invariance, PTL

(* And free_pages (line 105) counts the zero bits.                          *)
THEOREM CountersExact ==
  ASSUME XaMayFail = FALSE
  PROVE  Spec => []FreeCountExact
<1>1. IInv => FreeCountExact
  BY DEF IInv
<1> QED BY <1>1, Invariance, PTL

(* So no scan finds a counter above zero and no zero bit: set_bit (line    *)
(* 111) never writes past the end of a map.                                 *)
THEOREM MapsNotOverrun ==
  ASSUME XaMayFail = FALSE
  PROVE  Spec => []NoOverrun
<1>1. IInv => NoOverrun
  BY DEF IInv, CallsOK, NoOverrun, MemoryIntact
<1> QED BY <1>1, Invariance, PTL

(* Two page ids never own one slot (sswap_add_mapping, lines 135-180).      *)
THEOREM SlotsExclusive ==
  ASSUME XaMayFail = FALSE
  PROVE  Spec => []NoSharedSlot
<1>1. IInv => NoSharedSlot
  BY DEF IInv
<1> QED BY <1>1, Invariance, PTL

(* A transfer goes to and from the slot that its page id owns, from the     *)
(* scheduler's answer until the handler returns.                            *)
THEOREM TransfersOwnTheirSlot ==
  ASSUME XaMayFail = FALSE
  PROVE  Spec => []TransferOwnsSlot
<1>1. IInv => TransferOwnsSlot
  BY DEF IInv
<1> QED BY <1>1, Invariance, PTL

(* sswap_get_mapping always finds the mapping of a stored page, so its      *)
(* VM_BUG_ON (remote_schedule.c:195-199) is out of reach when xa_store does *)
(* not fail.                                                                *)
THEOREM StoredPagesMapped ==
  ASSUME XaMayFail = FALSE
  PROVE  Spec => []FrontswapMapped
<1>1. IInv => FrontswapMapped
  BY DEF IInv
<1> QED BY <1>1, Invariance, PTL

(* The fallback to the other node is dead code when xa_store does not fail: *)
(* a scan that takes one lock at a time still always finds a slot.          *)
THEOREM NodesNeverFull ==
  ASSUME XaMayFail = FALSE
  PROVE  Spec => []NeverFull
<1>1. IInv => NeverFull
  BY DEF IInv, CallsOK, NeverFull
<1> QED BY <1>1, Invariance, PTL

(* What makes it so: the pages at or above a position are few.              *)
THEOREM PressureBounded ==
  ASSUME XaMayFail = FALSE
  PROVE  Spec => []ScanPressure
<1>1. IInv => ScanPressure
  BY DEF IInv
<1> QED BY <1>1, Invariance, PTL

(* Half of the page ids, rounded up, are appointed to one node. *)
LEMMA HalfPerNode ==
  ASSUME NEW n \in Node
  PROVE  Cardinality(Home(n)) <= ServerPages
<1> DEFINE f == [p \in Home(n) |-> p \div 2]
           T == 0 .. ServerPages - 1
<1>1. \A p \in Home(n) : p \in 0 .. BufPages - 1 /\ p % 2 = n
  BY SizesAssumption DEF Home, Appoint
<1>2. \A p \in Home(n) : p \in Nat /\ p \div 2 \in T /\ p = 2 * (p \div 2) + n
  BY <1>1, SizesAssumption, ServerAssumption
<1>3. f \in Injection(Home(n), T)
  BY <1>2 DEF Injection, IsInjective
<1>4. IsFiniteSet(T) /\ Cardinality(T) = ServerPages
  BY FS_Interval, SizesAssumption
<1>5. Cardinality(Home(n)) <= Cardinality(T)
  BY <1>3, <1>4, FS_Injection
<1> QED BY <1>4, <1>5

LEMMA ServerBufferHolds == IInv => WithinServerBuffer
<1> SUFFICES ASSUME IInv PROVE WithinServerBuffer
  OBVIOUS
<1>1. ASSUME NEW p \in PageIds, Transferring(p)
      PROVE  call[p].slot < ServerPages
  <2> DEFINE s == PlaceSlot(p)
             n == PlaceNode(p)
  <2>2. HasPlace(p) /\ call[p].slot = s /\ pc[p] # "select"
    BY <1>1 DEF IInv, TransferOwnsSlot, PlacedAt, Transferring
  <2>3. /\ n = Appoint(p) /\ n \in Node
        /\ s \in Nat /\ s < NrMaps * SpacePages
    BY <1>1, <2>2, PlaceFacts DEF IInv, TypeOK
  <2>4. p \in Above(n, s)
    <3>1. Level(p) = s
      BY <2>2 DEF Level
    <3> QED BY <2>3, <3>1 DEF Above, Home
  <2>5. s \in 0 .. NrMaps * SpacePages
    BY <2>3, NrMapsFacts
  <2>6. Cardinality(Above(n, s)) + s <= Cardinality(Home(n))
    BY <2>3, <2>4, <2>5 DEF IInv, ScanPressure
  <2>7. Cardinality(Above(n, s)) \in Nat /\ Cardinality(Above(n, s)) # 0
    <3>1. Above(n, s) \in SUBSET Home(n)
      BY DEF Above
    <3>2. IsFiniteSet(Above(n, s))
      BY <3>1, HomeFinite, FS_Subset
    <3> QED BY <2>4, <3>2, FS_EmptySet, FS_CardinalityType
  <2>8. Cardinality(Home(n)) <= ServerPages /\ Cardinality(Home(n)) \in Nat
    BY <2>3, HalfPerNode, HomeFinite
  <2> HIDE DEF s, n
  <2> QED BY <2>2, <2>3, <2>6, <2>7, <2>8, SizesAssumption
<1> QED BY <1>1 DEF WithinServerBuffer

(* Every transfer stays inside what the memory server owns, although the    *)
(* offsets the compute node accepts reach twice as far.                     *)
THEOREM ServerBufferRespected ==
  ASSUME XaMayFail = FALSE
  PROVE  Spec => []WithinServerBuffer
BY ServerBufferHolds, Invariance, PTL
=============================================================================
