---------------------------- MODULE PageTransfer ----------------------------
(***************************************************************************)
(* What sswap_rdma_write and sswap_rdma_read_sync promise to the handlers  *)
(* that call them: the page of a call is moved at one moment between call  *)
(* and return, and never at another; the call returns 0 only after the     *)
(* adapter and the driver have let the page go; and a call that returns an *)
(* error has moved nothing.                                                *)
(***************************************************************************)
CONSTANT Caller

VARIABLE phase   \* phase[c]: how far the call of c is

Init == phase = [c \in Caller |-> "idle"]

Pass(c, from, to) == phase[c] = from /\ phase' = [phase EXCEPT ![c] = to]

Begin(c) == Pass(c, "idle", "called")
Move(c) == Pass(c, "called", "moved")
LetGo(c) == Pass(c, "moved", "released")
Succeed(c) == Pass(c, "released", "idle")

Refuse(c) == Pass(c, "called", "refused")
Report(c) == Pass(c, "refused", "idle")

Next ==
  \E c \in Caller :
    Begin(c) \/ Move(c) \/ LetGo(c) \/ Succeed(c) \/ Refuse(c) \/ Report(c)

Spec == Init /\ [][Next]_phase
=============================================================================
