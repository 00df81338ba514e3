--------------------------- MODULE SchedulerLoad ---------------------------
(***************************************************************************)
(* dev-rdma/remote_schedule.c, from insmod to rmmod: what init_scheduler   *)
(* allocates, what its error path frees and what exit_scheduler frees.     *)
(* One process runs it.                                                    *)
(***************************************************************************)
EXTENDS Integers, FiniteSets

CONSTANTS
  NrMaps,     \* bitmaps of a node
  MaxInserts  \* insertions of the module between two starts of the machine

ASSUME LoadAssumption == NrMaps \in Nat \ {0} /\ MaxInserts \in Nat

Node == 0 .. 1   \* MAX_REMOTE_NODES

VARIABLES
  sched,          \* where the module is
  inserts,        \* insertions so far
  node,           \* i of init_scheduler
  next,           \* what init_remote_bitmap allocates next
  remote_map,     \* the nodes whose remote_map[] is not NULL
  remote_spaces,  \* is remote_spaces not NULL?
  heap            \* the objects allocated and not freed

schedVars == <<sched, inserts, node, next, remote_map, remote_spaces, heap>>

(* Of each insertion: the array of maps of a node, which is its object 0,   *)
(* their bits, 1 to NrMaps, and the address spaces.                         *)
Object(owner, k) == [insert |-> inserts, owner |-> owner, k |-> k]
NodeObjects(n) == {Object(n, k) : k \in 0 .. NrMaps}
Spaces == Object(-1, 0)

SchedulerInit ==
  /\ sched = "absent"
  /\ inserts = 0
  /\ node = 0 /\ next = 0
  /\ remote_map = {}
  /\ remote_spaces = FALSE
  /\ heap = {}

(* insmod: the module's static variables start out as zero. *)
InsertScheduler ==
  /\ sched = "absent" /\ inserts < MaxInserts
  /\ sched' = "bitmaps"
  /\ inserts' = inserts + 1
  /\ node' = 0 /\ next' = 0
  /\ UNCHANGED <<remote_map, remote_spaces, heap>>

(* init_remote_bitmap: one kvcalloc. *)
AllocBitmap ==
  /\ sched = "bitmaps" /\ next <= NrMaps
  /\ heap' = heap \cup {Object(node, next)}
  /\ next' = next + 1
  /\ UNCHANGED <<sched, inserts, node, remote_map, remote_spaces>>

AllocBitmapFails ==
  /\ sched = "bitmaps" /\ next <= NrMaps
  /\ sched' = "delete_bitmap"
  /\ UNCHANGED <<inserts, node, next, remote_map, remote_spaces, heap>>

(* Only a whole array of maps becomes the node's. *)
PublishBitmap ==
  /\ sched = "bitmaps" /\ next > NrMaps
  /\ remote_map' = remote_map \cup {node}
  /\ node' = node + 1 /\ next' = 0
  /\ sched' = IF node' \in Node THEN "bitmaps" ELSE "spaces"
  /\ UNCHANGED <<inserts, remote_spaces, heap>>

(* init_remote_address_space *)
AllocSpaces ==
  /\ sched = "spaces"
  /\ heap' = heap \cup {Spaces}
  /\ remote_spaces' = TRUE
  /\ sched' = "live"
  /\ UNCHANGED <<inserts, node, next, remote_map>>

AllocSpacesFailsReturns ==
  /\ sched = "spaces"
  /\ sched' = "absent"
  /\ remote_map' = {}
  /\ UNCHANGED <<inserts, node, next, remote_spaces, heap>>

(* exit_remote_address_space finds no space to destroy, and falls through. *)
AllocSpacesFails ==
  /\ sched = "spaces"
  /\ sched' = "delete_bitmap"
  /\ UNCHANGED <<inserts, node, next, remote_map, remote_spaces, heap>>

(* exit_remote_bitmap of every node: nothing where remote_map is NULL. *)
ReachableFrom(nodes) == UNION {NodeObjects(n) : n \in nodes}

(* What init_remote_bitmap had allocated for the node that failed is not    *)
(* reachable from remote_map and stays.                                     *)
DeleteBitmap ==
  /\ sched = "delete_bitmap"
  /\ heap' = heap \ ReachableFrom(remote_map)
  /\ remote_map' = {}
  /\ sched' = "absent"
  /\ UNCHANGED <<inserts, node, next, remote_spaces>>

(* rmmod *)
ExitScheduler ==
  /\ sched = "live"
  /\ heap' = heap \ (ReachableFrom(remote_map) \cup {Spaces})
  /\ remote_map' = {}
  /\ remote_spaces' = FALSE
  /\ sched' = "absent"
  /\ UNCHANGED <<inserts, node, next>>

SchedulerStep ==
  \/ InsertScheduler
  \/ AllocBitmap \/ AllocBitmapFails \/ PublishBitmap
  \/ AllocSpaces \/ AllocSpacesFails
  \/ DeleteBitmap
  \/ ExitScheduler

-----------------------------------------------------------------------------
(* What a removal or the error path frees is there to be freed, once the    *)
(* module is live nothing is missing, and what an insertion leaves behind   *)
(* belongs to the one node whose maps it could not complete.                *)
SchedulerMemory ==
  /\ ReachableFrom(remote_map) \subseteq heap
  /\ sched = "live" => remote_map = Node /\ Spaces \in heap
  /\ sched = "absent" =>
       \A x, y \in heap : x.insert = y.insert => x.owner = y.owner /\ x.k < NrMaps
=============================================================================
