------------------------ MODULE SchedulerLoad_proofs ------------------------
(***************************************************************************)
(* What every step of the scheduler's insertion and removal preserves, for *)
(* any number of bitmaps and of insertions.  SwapNode_proofs draws the     *)
(* theorem from it.                                                        *)
(***************************************************************************)
EXTENDS SchedulerLoad, TLAPS

-----------------------------------------------------------------------------
(* The objects of the insertion that is running; those of the node that     *)
(* init_remote_bitmap works on.                                             *)
Current == {x \in heap : x.insert = inserts}
Begun == {Object(node, k) : k \in 0 .. next - 1}

(* Where init_scheduler stands tells what there is on the heap.             *)
Progress ==
  /\ sched = "absent" => remote_map = {}
  /\ sched = "bitmaps" =>
       /\ node \in Node /\ remote_map = 0 .. node - 1
       /\ next <= NrMaps + 1
       /\ Current = ReachableFrom(remote_map) \cup Begun
  /\ sched = "spaces" =>
       /\ remote_map = Node /\ node \notin Node /\ next = 0
       /\ Current = ReachableFrom(remote_map)
  /\ sched = "delete_bitmap" =>
       /\ node \notin remote_map
       /\ next <= NrMaps
       /\ Current = ReachableFrom(remote_map) \cup Begun
  /\ sched = "live" =>
       /\ remote_map = Node
       /\ Current = ReachableFrom(remote_map) \cup {Spaces}

(* An insertion that is over has left at most a part of one node's maps.    *)
LeftBehind ==
  \A x, y \in heap :
    x.insert = y.insert /\ (x.insert < inserts \/ sched = "absent")
      => x.owner = y.owner /\ x.k < NrMaps

SchedInv ==
  /\ sched \in {"absent", "bitmaps", "spaces", "delete_bitmap", "live"}
  /\ inserts \in Nat /\ next \in Nat /\ node \in 0 .. 2
  /\ remote_map \subseteq Node
  /\ \A x \in heap : x.insert \in 0 .. inserts
  /\ Progress
  /\ LeftBehind

-----------------------------------------------------------------------------
(* Objects. *)

LEMMA ObjectFacts ==
  ASSUME NEW n, NEW k
  PROVE  /\ Object(n, k).insert = inserts
         /\ Object(n, k).owner = n
         /\ Object(n, k).k = k
BY DEF Object

(* What a step does with the heap when the insertion stays the same.        *)
LEMMA CurrentGrows ==
  ASSUME inserts' = inserts, NEW x, x.insert = inserts, heap' = heap \cup {x}
  PROVE  Current' = Current \cup {x}
BY DEF Current

LEMMA CurrentShrinks ==
  ASSUME inserts' = inserts, NEW S, heap' = heap \ S
  PROVE  Current' = Current \ S
BY DEF Current

(* The objects of a node are those that were begun, once all are there.     *)
LEMMA WholeNode ==
  ASSUME next = NrMaps + 1
  PROVE  Begun = NodeObjects(node)
BY LoadAssumption DEF Begun, NodeObjects

LEMMA InitSchedInv == SchedulerInit => SchedInv
BY DEF SchedulerInit, SchedInv, Progress, LeftBehind

LEMMA SchedFrame ==
  ASSUME SchedInv, UNCHANGED schedVars
  PROVE  SchedInv'
BY DEF SchedInv, schedVars, Progress, LeftBehind, Current, Begun, ReachableFrom, NodeObjects,
       Object, Spaces

(* The heap of an insertion that stays where it is in its life.             *)
LEMMA LeftBehindKept ==
  ASSUME LeftBehind, inserts \in Nat, sched' # "absent", inserts' = inserts,
         \A x \in heap : x.insert \in 0 .. inserts,
         \A x \in heap' : x \in heap \/ x.insert = inserts
  PROVE  LeftBehind'
BY DEF LeftBehind

LEMMA StepSchedInv ==
  ASSUME SchedInv, SchedulerStep
  PROVE  SchedInv'
<1> USE LoadAssumption DEF SchedInv
<1>1. CASE InsertScheduler
  <2> USE <1>1 DEF InsertScheduler
  <2>1. inserts' = inserts + 1 /\ heap' = heap /\ node' = 0 /\ next' = 0 /\ remote_map' = {}
    BY DEF Progress
  <2>2. Current' = {} /\ Begun' = {} /\ ReachableFrom(remote_map)' = {}
    BY <2>1 DEF Current, Begun, ReachableFrom
  <2>3. Progress'
    BY <2>1, <2>2 DEF Progress, Node
  <2>4. LeftBehind'
    BY <2>1 DEF LeftBehind
  <2> QED BY <2>1, <2>3, <2>4 DEF Node
<1>2. CASE AllocBitmap
  <2> USE <1>2 DEF AllocBitmap
  <2>1. Current' = Current \cup {Object(node, next)}
    BY ObjectFacts, CurrentGrows
  <2>2. Begun' = Begun \cup {Object(node, next)}
    <3>1. 0 .. next' - 1 = (0 .. next - 1) \cup {next}
      OBVIOUS
    <3> QED BY <3>1 DEF Begun, Object
  <2>3. ReachableFrom(remote_map)' = ReachableFrom(remote_map)
    BY DEF ReachableFrom, NodeObjects, Object
  <2>4. Progress'
    BY <2>1, <2>2, <2>3 DEF Progress
  <2>5. LeftBehind'
    BY ObjectFacts, LeftBehindKept
  <2> QED BY <2>4, <2>5, ObjectFacts
<1>3. CASE AllocBitmapFails
  <2> USE <1>3 DEF AllocBitmapFails
  <2>1. /\ Current' = Current /\ Begun' = Begun
        /\ ReachableFrom(remote_map)' = ReachableFrom(remote_map)
    BY DEF Current, Begun, ReachableFrom, NodeObjects, Object
  <2>2. Progress'
    BY <2>1 DEF Progress
  <2>3. LeftBehind'
    BY LeftBehindKept
  <2> QED BY <2>2, <2>3
<1>4. CASE PublishBitmap
  <2> USE <1>4 DEF PublishBitmap
  <2>1. node \in Node /\ node' = node + 1 /\ next = NrMaps + 1 /\ remote_map = 0 .. node - 1
    BY DEF Progress
  <2>2. remote_map' = 0 .. node' - 1 /\ remote_map' = remote_map \cup {node}
    BY <2>1 DEF Node
  <2>3. /\ Current' = Current /\ Begun' = {}
        /\ ReachableFrom(remote_map)' = ReachableFrom(remote_map) \cup NodeObjects(node)
    BY <2>2 DEF Current, Begun, ReachableFrom, NodeObjects, Object
  <2>4. Current' = ReachableFrom(remote_map)' \cup Begun'
    BY <2>1, <2>3, WholeNode DEF Progress
  <2>5. Progress'
    <3>1. CASE node = 0
      BY <3>1, <2>1, <2>2, <2>4 DEF Progress, Node
    <3>2. CASE node = 1
      <4>1. sched' = "spaces" /\ node' = 2 /\ next' = 0
        BY <3>2, <2>1 DEF Node
      <4>2. remote_map' = Node /\ node' \notin Node
        BY <4>1, <2>2 DEF Node
      <4> QED BY <4>1, <4>2, <2>3, <2>4 DEF Progress
    <3> QED BY <3>1, <3>2, <2>1 DEF Node
  <2>6. LeftBehind'
    BY LeftBehindKept
  <2> QED BY <2>1, <2>2, <2>5, <2>6 DEF Node
<1>5. CASE AllocSpaces
  <2> USE <1>5 DEF AllocSpaces
  <2>1. Current' = Current \cup {Spaces}
    BY ObjectFacts, CurrentGrows DEF Spaces
  <2>2. /\ ReachableFrom(remote_map)' = ReachableFrom(remote_map)
        /\ Spaces' = Spaces
    BY DEF ReachableFrom, NodeObjects, Object, Spaces
  <2>3. Progress'
    BY <2>1, <2>2 DEF Progress
  <2>4. LeftBehind'
    BY ObjectFacts, LeftBehindKept DEF Spaces
  <2> QED BY <2>3, <2>4, ObjectFacts DEF Spaces
<1>6. CASE AllocSpacesFails
  <2> USE <1>6 DEF AllocSpacesFails
  <2>1. /\ Current' = Current /\ Begun' = {}
        /\ ReachableFrom(remote_map)' = ReachableFrom(remote_map)
    BY DEF Current, Begun, ReachableFrom, NodeObjects, Object, Progress
  <2>2. Progress'
    BY <2>1 DEF Progress
  <2>3. LeftBehind'
    BY LeftBehindKept
  <2> QED BY <2>2, <2>3
<1>7. CASE DeleteBitmap
  <2> USE <1>7 DEF DeleteBitmap
  <2>1. Current' = Current \ ReachableFrom(remote_map)
    BY CurrentShrinks
  <2>2. Current' \subseteq Begun /\ next <= NrMaps
    BY <2>1 DEF Progress
  <2>3. \A x \in Begun : x.owner = node /\ x.k < NrMaps
    BY <2>2, ObjectFacts DEF Begun
  <2>4. LeftBehind'
    BY <2>2, <2>3 DEF LeftBehind, Current
  <2>5. Progress'
    BY DEF Progress
  <2> QED BY <2>4, <2>5
<1>8. CASE ExitScheduler
  <2> USE <1>8 DEF ExitScheduler
  <2>1. Current' = Current \ (ReachableFrom(remote_map) \cup {Spaces})
    BY CurrentShrinks
  <2>2. Current' = {}
    BY <2>1 DEF Progress
  <2>3. LeftBehind'
    BY <2>2 DEF LeftBehind, Current
  <2>4. Progress'
    BY DEF Progress
  <2> QED BY <2>3, <2>4
<1> QED BY <1>1, <1>2, <1>3, <1>4, <1>5, <1>6, <1>7, <1>8 DEF SchedulerStep

(* A start of the machine forgets everything.                               *)
LEMMA RestartSchedInv ==
  ASSUME sched' = "absent", inserts' = 0, node' = 0, next' = 0, remote_map' = {}, heap' = {}
  PROVE  SchedInv'
BY DEF SchedInv, Progress, LeftBehind

(* The invariant says what SchedulerMemory says.                            *)
LEMMA SchedulerMemoryHolds == SchedInv => SchedulerMemory
<1> SUFFICES ASSUME SchedInv PROVE SchedulerMemory
  OBVIOUS
<1>1. ReachableFrom(remote_map) \subseteq heap
  <2>1. CASE sched = "absent"
    BY <2>1 DEF SchedInv, Progress, ReachableFrom
  <2>2. CASE sched # "absent"
    BY <2>2 DEF SchedInv, Progress, Current
  <2> QED BY <2>1, <2>2
<1>2. sched = "live" => remote_map = Node /\ Spaces \in heap
  BY DEF SchedInv, Progress, Current
<1> QED BY <1>1, <1>2 DEF SchedInv, LeftBehind, SchedulerMemory
=============================================================================
