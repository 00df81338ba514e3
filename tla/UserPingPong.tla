---------------------------- MODULE UserPingPong ----------------------------
(***************************************************************************)
(* User/client.c and User/server.c: several client processes, each with an *)
(* event loop and a thread that polls for completions, and one server      *)
(* process with an event loop and a poller shared by all connections.  A   *)
(* client connects, the server sends it one message, the client's poller   *)
(* prints it and disconnects, and both event loops free what belongs to    *)
(* the connection.  Any surprise, in either thread, ends the process.      *)
(***************************************************************************)
EXTENDS Integers, FiniteSets

CONSTANTS
  Client,      \* the client processes
  Device,      \* the RDMA devices of the server's machine
  NoDevice,    \* the server has no context yet
  CqSize,      \* entries of the server's completion queue
  CmMayFail,   \* may the manager give up on an address, a route or a connection?
  MayBeKilled  \* may a client be killed?

(* "cqe=10 is arbitrary": one completion for each client at the same time   *)
(* must fit.                                                                *)
ASSUME ExerciseAssumption ==
  /\ IsFiniteSet(Client)
  /\ NoDevice \notin Device
  /\ CqSize \in Nat /\ Cardinality(Client) <= CqSize
  /\ {CmMayFail, MayBeKilled} \subseteq BOOLEAN

VARIABLES
  main,     \* main[c]: where the client's event loop is
  conn,     \* conn[c]: the client's struct connection
  poller,   \* poller[c]: what the client's poller has done with the completion
  arrived,  \* the clients into whose memory the message has been written
  at,       \* at[c]: where a client was when it ended before its time
  msgs,     \* msgs[c]: what the client's connection manager has sent
  server,   \* the server process
  s_ctx,    \* the device of the server's context
  dev,      \* dev[c]: the device through which the client reaches the server
  peer,     \* peer[c]: the server's end of the connection
  s_conn,   \* the clients for which the server holds a connection
  send      \* send[c]: the server's work request

clientVars == <<main, conn, poller, arrived, at>>
serverVars == <<server, s_ctx, peer, s_conn, send>>
vars == <<clientVars, serverVars, msgs, dev>>

Init ==
  /\ main = [c \in Client |-> "addr"]
  /\ conn = [c \in Client |-> "none"]
  /\ poller = [c \in Client |-> "waiting"]
  /\ arrived = {}
  /\ at = [c \in Client |-> "none"]
  /\ msgs = [c \in Client |-> {}]
  /\ server = "up"
  /\ s_ctx = NoDevice
  /\ dev \in [Client -> Device]
  /\ peer = [c \in Client |-> "none"]
  /\ s_conn = {}
  /\ send = [c \in Client |-> "none"]

Ended == {"exited", "died"}
Alive(c) == main[c] \notin Ended

GoTo(c, place) == main' = [main EXCEPT ![c] = place]
Tell(c, m) == msgs' = [msgs EXCEPT ![c] = @ \cup {m}]

-----------------------------------------------------------------------------
(* The client's event loop. *)

(* on_addr_resolved: context and poller, queue pair, connection, a receive. *)
AddrResolved(c) ==
  /\ main[c] = "addr"
  /\ conn' = [conn EXCEPT ![c] = "live"]
  /\ GoTo(c, "route")
  /\ UNCHANGED <<poller, arrived, at, serverVars, msgs, dev>>

(* on_route_resolved *)
RouteResolved(c) ==
  /\ main[c] = "route"
  /\ Tell(c, "REQ")
  /\ GoTo(c, "connect")
  /\ UNCHANGED <<conn, poller, arrived, at, serverVars, dev>>

EstablishedDisconnects(c) ==
  /\ main[c] = "connect" /\ peer[c] = "accepted"
  /\ msgs' = [msgs EXCEPT ![c] = @ \cup {"RTU", "DREQ"}]
  /\ GoTo(c, "established")
  /\ UNCHANGED <<conn, poller, arrived, at, serverVars, dev>>

(* The server's answer: the library readies the queue pair and confirms     *)
(* before it reports the event, and on_connection only prints.              *)
Established(c) ==
  /\ main[c] = "connect" /\ peer[c] = "accepted"
  /\ Tell(c, "RTU")
  /\ GoTo(c, "established")
  /\ UNCHANGED <<conn, poller, arrived, at, serverVars, dev>>

(* What a process that ends leaves to its connection manager: a request is  *)
(* taken back, a connection is closed.                                      *)
Retract(c) ==
  msgs' = CASE main[c] = "connect" -> [msgs EXCEPT ![c] = @ \cup {"REJ"}]
            [] main[c] = "established" -> [msgs EXCEPT ![c] = @ \cup {"DREQ"}]
            [] OTHER -> msgs

EndEarly(c) ==
  /\ Retract(c)
  /\ at' = [at EXCEPT ![c] = main[c]]
  /\ GoTo(c, "died")
  /\ UNCHANGED <<conn, poller, arrived, serverVars, dev>>

(* An event that on_event does not know: no address, no route, no server,   *)
(* or one that does not answer in time.                                     *)
UnknownEvent(c) ==
  /\ \/ CmMayFail /\ main[c] \in {"addr", "route", "connect"}
     \/ main[c] = "connect" /\ server = "died" /\ peer[c] = "none"
  /\ EndEarly(c)

Killed(c) ==
  /\ MayBeKilled
  /\ Alive(c)
  /\ EndEarly(c)

(* on_disconnect, for a disconnect of its own or of a server that is gone:  *)
(* the queue pair, the regions, the connection and its id.                  *)
OnDisconnect(c) ==
  /\ main[c] = "established"
  /\ "DREQ" \in msgs[c] \/ server = "died"
  /\ conn' = [conn EXCEPT ![c] = "freed"]
  /\ GoTo(c, "leaving")
  /\ UNCHANGED <<poller, arrived, at, serverVars, msgs, dev>>

(* main destroys the event channel and returns. *)
MainReturns(c) ==
  /\ main[c] = "leaving"
  /\ GoTo(c, "exited")
  /\ UNCHANGED <<conn, poller, arrived, at, serverVars, msgs, dev>>

-----------------------------------------------------------------------------
(* The client's poller: poll_cq, on_completion. *)

(* ibv_poll_cq returns the completion of the receive. *)
PollCq(c) ==
  /\ Alive(c)
  /\ poller[c] = "waiting" /\ c \in arrived
  /\ poller' = [poller EXCEPT ![c] = "handling"]
  /\ UNCHANGED <<main, conn, arrived, at, serverVars, msgs, dev>>

PrintMessageDisconnects(c) ==
  /\ Alive(c)
  /\ poller[c] = "handling"
  /\ poller' = [poller EXCEPT ![c] = "printed"]
  /\ Tell(c, "DREQ")
  /\ UNCHANGED <<main, conn, arrived, at, serverVars, dev>>

(* It prints conn->recv_region. *)
PrintMessage(c) ==
  /\ Alive(c)
  /\ poller[c] = "handling"
  /\ poller' = [poller EXCEPT ![c] = "printed"]
  /\ UNCHANGED <<main, conn, arrived, at, serverVars, msgs, dev>>

DisconnectOnSecond(c) ==
  /\ Alive(c)
  /\ poller[c] = "printed"
  /\ poller' = [poller EXCEPT ![c] = "done"]
  /\ UNCHANGED <<main, conn, arrived, at, serverVars, msgs, dev>>

(* ++conn->num_completions == 1: rdma_disconnect(conn->id). *)
Disconnect(c) ==
  /\ Alive(c)
  /\ poller[c] = "printed"
  /\ poller' = [poller EXCEPT ![c] = "done"]
  /\ Tell(c, "DREQ")
  /\ UNCHANGED <<main, conn, arrived, at, serverVars, dev>>

-----------------------------------------------------------------------------
(* The server's event loop. *)

Dies ==
  /\ server' = "died"
  /\ UNCHANGED <<s_ctx, peer, s_conn, send, clientVars, msgs, dev>>

(* build_context: every connection has to come over the same device. *)
SameContext(c) == s_ctx \in {NoDevice, dev[c]}

(* on_connect_request: context and poller at the first one, queue pair,     *)
(* connection, a receive, and the answer.                                   *)
OnConnectRequest(c) ==
  /\ server = "up"
  /\ peer[c] = "none" /\ "REQ" \in msgs[c]
  /\ SameContext(c)
  /\ s_ctx' = dev[c]
  /\ s_conn' = s_conn \cup {c}
  /\ peer' = [peer EXCEPT ![c] = "accepted"]
  /\ UNCHANGED <<server, send, clientVars, msgs, dev>>

(* Another device, or rdma_accept finds the request taken back. *)
ConnectRequestDies(c) ==
  /\ server = "up"
  /\ peer[c] = "none" /\ "REQ" \in msgs[c]
  /\ ~SameContext(c) \/ "REJ" \in msgs[c]
  /\ Dies

(* on_connection: the message. *)
OnConnection(c) ==
  /\ server = "up"
  /\ peer[c] = "accepted" /\ "RTU" \in msgs[c]
  /\ peer' = [peer EXCEPT ![c] = "established"]
  /\ send' = [send EXCEPT ![c] = "posted"]
  /\ UNCHANGED <<server, s_ctx, s_conn, clientVars, msgs, dev>>

ServerOnDisconnectKeepsConn(c) ==
  /\ server = "up"
  /\ peer[c] \in {"accepted", "established"} /\ "DREQ" \in msgs[c]
  /\ peer' = [peer EXCEPT ![c] = "closed"]
  /\ send' = [send EXCEPT ![c] = "none"]
  /\ UNCHANGED <<server, s_ctx, s_conn, clientVars, msgs, dev>>

(* on_disconnect: with the queue pair goes what it had in the queue. *)
ServerOnDisconnect(c) ==
  /\ server = "up"
  /\ peer[c] \in {"accepted", "established"} /\ "DREQ" \in msgs[c]
  /\ peer' = [peer EXCEPT ![c] = "closed"]
  /\ s_conn' = s_conn \ {c}
  /\ send' = [send EXCEPT ![c] = "none"]
  /\ UNCHANGED <<server, s_ctx, clientVars, msgs, dev>>

ServerUnknownEventClose(c) ==
  /\ server = "up"
  /\ peer[c] \in {"accepted", "established"} /\ msgs[c] \cap {"REJ", "DREQ"} # {}
  /\ Dies

(* An event that on_event does not know: a client that is gone before the   *)
(* connection was established.                                              *)
ServerUnknownEvent(c) ==
  /\ server = "up"
  /\ peer[c] = "accepted" /\ "REJ" \in msgs[c]
  /\ Dies

-----------------------------------------------------------------------------
(* The adapters. *)

(* The message is written into the client's memory and acknowledged, in one *)
(* step: an acknowledgement lost to the client's disconnect, which would    *)
(* make the send fail, is not modelled.                                     *)
Deliver(c) ==
  /\ send[c] = "posted"
  /\ main[c] = "established"
  /\ arrived' = arrived \cup {c}
  /\ send' = [send EXCEPT ![c] = "sent"]
  /\ UNCHANGED <<main, conn, poller, at, server, s_ctx, peer, s_conn, msgs, dev>>

(* The client's queue pair is gone: the send is repeated, and fails. *)
SendFails(c) ==
  /\ send[c] = "posted"
  /\ main[c] \notin {"connect", "established"}
  /\ send' = [send EXCEPT ![c] = "failed"]
  /\ UNCHANGED <<clientVars, server, s_ctx, peer, s_conn, msgs, dev>>

-----------------------------------------------------------------------------
(* The server's poller: on_completion. *)

ServerPollCq(c) ==
  /\ server = "up"
  /\ send[c] = "sent"
  /\ send' = [send EXCEPT ![c] = "completed"]
  /\ UNCHANGED <<clientVars, server, s_ctx, peer, s_conn, msgs, dev>>

ServerPollsError(c) ==
  /\ server = "up"
  /\ send[c] = "failed"
  /\ Dies

-----------------------------------------------------------------------------
Loop(c) ==
  \/ AddrResolved(c) \/ RouteResolved(c) \/ Established(c)
  \/ UnknownEvent(c)
  \/ OnDisconnect(c) \/ MainReturns(c)

Poller(c) == PollCq(c) \/ PrintMessage(c) \/ Disconnect(c)

ServerLoop(c) ==
  \/ OnConnectRequest(c) \/ ConnectRequestDies(c)
  \/ OnConnection(c)
  \/ ServerOnDisconnect(c)
  \/ ServerUnknownEvent(c)

ServerPoller(c) == ServerPollCq(c) \/ ServerPollsError(c)

Adapter(c) == Deliver(c) \/ SendFails(c)

Next ==
  \E c \in Client :
    \/ Loop(c) \/ Poller(c) \/ Killed(c)
    \/ ServerLoop(c) \/ ServerPoller(c)
    \/ Adapter(c)

Spec == Init /\ [][Next]_vars

(***************************************************************************)
(* Both loops and both pollers block in the library until there is         *)
(* something for them, and the adapters end every work request of a server *)
(* that is there.  Nobody has to be killed.                                *)
(***************************************************************************)
FairSpec ==
  /\ Spec
  /\ \A c \in Client :
       /\ WF_vars(Loop(c)) /\ WF_vars(Poller(c))
       /\ WF_vars(ServerLoop(c)) /\ WF_vars(ServerPoller(c))
       /\ WF_vars(server = "up" /\ Adapter(c))

-----------------------------------------------------------------------------
(* The types; and the server holds a connection for each end of its that is *)
(* open, none for another.                                                  *)
TypeOK ==
  /\ main \in [Client -> {"addr", "route", "connect", "established", "leaving"} \cup Ended]
  /\ conn \in [Client -> {"none", "live", "freed"}]
  /\ poller \in [Client -> {"waiting", "handling", "printed", "done"}]
  /\ arrived \subseteq Client
  /\ at \in [Client -> {"none", "addr", "route", "connect", "established", "leaving"}]
  /\ msgs \in [Client -> SUBSET {"REQ", "RTU", "DREQ", "REJ"}]
  /\ server \in {"up", "died"}
  /\ s_ctx \in Device \cup {NoDevice}
  /\ dev \in [Client -> Device]
  /\ peer \in [Client -> {"none", "accepted", "established", "closed"}]
  /\ s_conn = {c \in Client : peer[c] \in {"accepted", "established"}}
  /\ send \in [Client -> {"none", "posted", "sent", "completed", "failed"}]

(* The poller reads the connection twice after it has taken the completion  *)
(* (client.c:213 and 219-220), the event loop frees it (line 264): as long  *)
(* as the server is there, only the poller's own disconnect makes the event *)
(* loop free it, so it is still there.                                      *)
ConnOutlivesPoller ==
  \A c \in Client :
    poller[c] \in {"handling", "printed"} /\ Alive(c) /\ server = "up"
      => conn[c] = "live"

(* A client whose main returns has printed the message, unless the server   *)
(* is gone: the first completion, and nothing before it, disconnects.       *)
ExitMeansReceived ==
  \A c \in Client : main[c] = "exited" => poller[c] = "done" \/ server = "died"

(* One server process serves everybody and any die() ends it for everybody. *)
(* What can bring that about: a client on another device, or one that ended *)
(* during its handshake or before its message had arrived; never a client   *)
(* that ended before it asked or after it had its message.                  *)
ServerDiesOfACause ==
  server = "died" =>
    \/ \E c, d \in Client : "REQ" \in msgs[c] \cap msgs[d] /\ dev[c] # dev[d]
    \/ \E c \in Client :
         \/ at[c] = "connect"
         \/ at[c] = "established" /\ c \notin arrived

(* Every client ends, whether it gets its message, is refused, or sees the  *)
(* server go.                                                               *)
ClientsEnd == \A c \in Client : <>(main[c] \in Ended)

(* The server does not keep what belonged to a client that has ended. *)
ServerFrees ==
  \A c \in Client : main[c] \in Ended ~> (c \notin s_conn \/ server = "died")
=============================================================================
