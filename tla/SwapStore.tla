----------------------------- MODULE SwapStore -----------------------------
(***************************************************************************)
(* What multiswap promises to the kernel: an array of pages indexed by     *)
(* swap page id.  A page that was swapped out with success is what         *)
(* swapping in brings back, until it is swapped out again or freed.        *)
(***************************************************************************)
CONSTANTS
  PageIds,  \* the swap page ids
  Data,     \* what a page may contain
  Blank     \* a page without content; also: nothing stored

VARIABLES
  stored,   \* stored[p]: the content kept for p, or Blank
  busy,     \* busy[p]: "out" or "in" while p is being swapped, or "idle"
  page      \* page[p]: the content of the page being swapped, else Blank

vars == <<stored, busy, page>>

Init ==
  /\ stored = [p \in PageIds |-> Blank]
  /\ busy = [p \in PageIds |-> "idle"]
  /\ page = [p \in PageIds |-> Blank]

(* The old copy is given up before the new one is safe. *)
BeginOut(p, d) ==
  /\ busy[p] = "idle"
  /\ stored' = [stored EXCEPT ![p] = Blank]
  /\ busy' = [busy EXCEPT ![p] = "out"]
  /\ page' = [page EXCEPT ![p] = d]

EndOut(p) ==
  /\ busy[p] = "out"
  /\ stored' = [stored EXCEPT ![p] = page[p]]
  /\ busy' = [busy EXCEPT ![p] = "idle"]
  /\ page' = [page EXCEPT ![p] = Blank]

BeginIn(p) ==
  /\ busy[p] = "idle"
  /\ stored[p] # Blank
  /\ busy' = [busy EXCEPT ![p] = "in"]
  /\ UNCHANGED <<stored, page>>

Fetch(p) ==
  /\ busy[p] = "in"
  /\ page' = [page EXCEPT ![p] = stored[p]]
  /\ UNCHANGED <<stored, busy>>

EndIn(p) ==
  /\ busy[p] = "in"
  /\ page[p] = stored[p]
  /\ busy' = [busy EXCEPT ![p] = "idle"]
  /\ page' = [page EXCEPT ![p] = Blank]
  /\ UNCHANGED stored

Free(p) ==
  /\ busy[p] = "idle"
  /\ stored' = [stored EXCEPT ![p] = Blank]
  /\ UNCHANGED <<busy, page>>

Next ==
  \E p \in PageIds :
    \/ \E d \in Data : BeginOut(p, d)
    \/ EndOut(p)
    \/ BeginIn(p)
    \/ Fetch(p)
    \/ EndIn(p)
    \/ Free(p)

Spec == Init /\ [][Next]_vars
=============================================================================
