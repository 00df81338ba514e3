------------------------ MODULE UserPingPong_proofs ------------------------
(***************************************************************************)
(* TLAPS proves the safety properties of the user-space exercise, for any  *)
(* number of clients and devices, whatever fails and whoever is killed.    *)
(***************************************************************************)
EXTENDS UserPingPong, TLAPS

-----------------------------------------------------------------------------
(* The inductive invariant. *)

(* A client that ended before its time remembers where; the connection is   *)
(* there from the address on and until the event loop frees it.             *)
LivesOK(c) ==
  /\ at[c] # "none" <=> main[c] = "died"
  /\ main[c] = "addr" => conn[c] = "none"
  /\ main[c] \in {"route", "connect", "established"} => conn[c] = "live"

(* The manager asks once the route is known, confirms when the server has   *)
(* accepted, and takes back only a request that was not yet answered.       *)
MessagesOK(c) ==
  /\ "RTU" \in msgs[c] =>
       /\ main[c] \notin {"addr", "route", "connect"}
       /\ at[c] \notin {"addr", "route", "connect"}
  /\ "REJ" \in msgs[c] => at[c] = "connect"
  /\ "DREQ" \in msgs[c] => poller[c] = "done" \/ main[c] = "died"

(* A message arrives in the memory of a client that has a connection, and   *)
(* only an arrived message makes the poller move.                           *)
ArrivalOK(c) ==
  /\ c \in arrived => "RTU" \in msgs[c]
  /\ poller[c] # "waiting" => c \in arrived

(* The event loop of the client leaves after the poller's disconnect.       *)
LeavingOK(c) ==
  conn[c] = "freed" \/ main[c] \in {"leaving", "exited"} \/ at[c] = "leaving"
    => poller[c] = "done" \/ server = "died"

(* The server posts the message once, when the client has confirmed; it     *)
(* fails only for a client that was killed before it came.                  *)
SendOK(c) ==
  /\ peer[c] \in {"none", "accepted"} => send[c] = "none" /\ c \notin arrived
  /\ send[c] # "none" => "RTU" \in msgs[c]
  /\ send[c] = "posted" => c \notin arrived
  /\ send[c] = "failed" /\ server = "up" => at[c] = "established" /\ c \notin arrived

(* The context is that of a client that has asked.                          *)
ContextOK ==
  s_ctx # NoDevice => \E c \in Client : "REQ" \in msgs[c] /\ s_ctx = dev[c]

UInv ==
  /\ TypeOK
  /\ \A c \in Client : LivesOK(c) /\ MessagesOK(c) /\ ArrivalOK(c) /\ LeavingOK(c) /\ SendOK(c)
  /\ ContextOK
  /\ ServerDiesOfACause

LEMMA InitUInv == Init => UInv
BY DEF Init, UInv, TypeOK, LivesOK, MessagesOK, ArrivalOK, LeavingOK, SendOK, ContextOK,
       ServerDiesOfACause, Ended

(* One step of one client, its end at the server, or the adapters. *)
LEMMA StepUInv ==
  ASSUME UInv, NEW c \in Client,
         \/ Loop(c) \/ Poller(c) \/ Killed(c)
         \/ ServerLoop(c) \/ ServerPoller(c)
         \/ Adapter(c)
  PROVE  UInv'
<1> USE DEF UInv, TypeOK, LivesOK, MessagesOK, ArrivalOK, LeavingOK, SendOK, ContextOK,
            ServerDiesOfACause, Ended, GoTo, Alive, clientVars, serverVars
<1>1. CASE AddrResolved(c)
  BY <1>1 DEF AddrResolved
<1>2. CASE RouteResolved(c)
  BY <1>2 DEF RouteResolved, Tell
<1>3. CASE Established(c)
  BY <1>3 DEF Established, Tell
<1>4. CASE UnknownEvent(c)
  BY <1>4 DEF UnknownEvent, EndEarly, Retract
<1>5. CASE OnDisconnect(c)
  BY <1>5 DEF OnDisconnect
<1>6. CASE MainReturns(c)
  BY <1>6 DEF MainReturns
<1>7. CASE PollCq(c)
  BY <1>7 DEF PollCq
<1>8. CASE PrintMessage(c)
  BY <1>8 DEF PrintMessage
<1>9. CASE Disconnect(c)
  BY <1>9 DEF Disconnect, Tell
<1>10. CASE Killed(c)
  BY <1>10 DEF Killed, EndEarly, Retract
<1>11. CASE OnConnectRequest(c)
  BY <1>11 DEF OnConnectRequest, SameContext
<1>12. CASE ConnectRequestDies(c)
  BY <1>12 DEF ConnectRequestDies, Dies, SameContext
<1>13. CASE OnConnection(c)
  BY <1>13 DEF OnConnection
<1>14. CASE ServerOnDisconnect(c)
  BY <1>14 DEF ServerOnDisconnect
<1>15. CASE ServerUnknownEvent(c)
  BY <1>15 DEF ServerUnknownEvent, Dies
<1>16. CASE ServerPollCq(c)
  BY <1>16 DEF ServerPollCq
<1>17. CASE ServerPollsError(c)
  BY <1>17 DEF ServerPollsError, Dies
<1>18. CASE Deliver(c)
  BY <1>18 DEF Deliver
<1>19. CASE SendFails(c)
  BY <1>19 DEF SendFails
<1> QED BY <1>1, <1>2, <1>3, <1>4, <1>5, <1>6, <1>7, <1>8, <1>9, <1>10, <1>11,
           <1>12, <1>13, <1>14, <1>15, <1>16, <1>17, <1>18, <1>19
  DEF Loop, Poller, ServerLoop, ServerPoller, Adapter

LEMMA NextUInv == UInv /\ [Next]_vars => UInv'
<1> SUFFICES ASSUME UInv, [Next]_vars PROVE UInv'
  OBVIOUS
<1>1. CASE Next
  BY <1>1, StepUInv DEF Next
<1>2. CASE UNCHANGED vars
  BY <1>2 DEF vars, clientVars, serverVars, UInv, TypeOK, LivesOK, MessagesOK, ArrivalOK,
              LeavingOK, SendOK, ContextOK, ServerDiesOfACause
<1> QED BY <1>1, <1>2

LEMMA Invariance == Spec => []UInv
BY InitUInv, NextUInv, PTL DEF Spec

-----------------------------------------------------------------------------
(* The types; and the server holds a connection for exactly its open ends.  *)
THEOREM TypeCorrect == Spec => []TypeOK
<1>1. UInv => TypeOK
  BY DEF UInv
<1> QED BY <1>1, Invariance, PTL

(* The two threads of a client share the connection without a lock: what    *)
(* the event loop frees (client.c:264) the poller has stopped using (lines  *)
(* 213-220), unless the server dies.                                        *)
THEOREM PollerHasConnection == Spec => []ConnOutlivesPoller
<1>1. UInv => ConnOutlivesPoller
  <2> SUFFICES ASSUME UInv, NEW c \in Client, poller[c] \in {"handling", "printed"},
                      Alive(c), server = "up"
               PROVE  conn[c] = "live"
    BY DEF ConnOutlivesPoller
  <2>1. main[c] \notin {"addr", "route", "connect"}
    BY DEF UInv, ArrivalOK, MessagesOK
  <2>2. main[c] = "established"
    BY <2>1 DEF UInv, TypeOK, LeavingOK, Alive, Ended
  <2> QED BY <2>2 DEF UInv, LivesOK
<1> QED BY <1>1, Invariance, PTL

(* A client's main (client.c:53-84) returns after its message, or after the *)
(* server.                                                                  *)
THEOREM NoExitBeforeMessage == Spec => []ExitMeansReceived
<1>1. UInv => ExitMeansReceived
  BY DEF UInv, LeavingOK, ExitMeansReceived
<1> QED BY <1>1, Invariance, PTL

(* A die() of the server (server.c:89 and its callers) has one of three     *)
(* causes, however many clients come and go.                                *)
THEOREM ServerDeathsExplained == Spec => []ServerDiesOfACause
<1>1. UInv => ServerDiesOfACause
  BY DEF UInv
<1> QED BY <1>1, Invariance, PTL
=============================================================================
