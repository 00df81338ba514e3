--------------------------- MODULE Cluster_proofs ---------------------------
(***************************************************************************)
(* What TLAPS proves about loading and unloading the module against memory *)
(* servers that serve one load after the other, for every number of nodes, *)
(* queues and loads, every size of a server's array and whatever times out *)
(* or fails.                                                               *)
(***************************************************************************)
EXTENDS Cluster, FiniteSetTheorems, SequenceTheorems, TLAPS

-----------------------------------------------------------------------------
(* The inductive invariant. *)

Before(id, n, i) ==
  \/ NodeOf(id) < n
  \/ NodeOf(id) = n /\ QueueOf(id) < i
InStop(id) == \E j \in DOMAIN stop : stop[j] = id

Connecting == pc \in {"init", "wait", "destroy"}
Receiving == pc \in {"recv", "poll", "gctrl", "ready", "oops"}
Stopping == pc \in {"undo", "cleanup"}
Ended == pc \in {"failed", "unloaded"}

(* The loading thread goes through the queues in order: those before the    *)
(* current one are connected, those behind it untouched, and the event      *)
(* handler has work for no other.  A wait ends well only if the connection  *)
(* is established.                                                          *)
Position(id) ==
  /\ LoadOf(id) # load => cm_id[id] = "none"
  /\ LoadOf(id) = load =>
       /\ Connecting =>
            /\ Before(id, node, queue) => cm_id[id] = "connected"
            /\ id = Current /\ pc # "init" =>
                 /\ cm_id[id] \in {"addr", "route", "connect", "connected", "error"}
                 /\ cm_error[id] = "none" => cm_id[id] = "connected"
            /\ ~Before(id, node, queue) /\ (id = Current => pc = "init") => cm_id[id] = "none"
       /\ Receiving => cm_id[id] = "connected"
       /\ Stopping => InStop(id) \/ cm_id[id] \in {"none", "destroyed"}
       /\ Ended => cm_id[id] \in {"none", "destroyed"}

StopOK ==
  /\ ~Stopping => stop = <<>>
  /\ \A j \in DOMAIN stop : LoadOf(stop[j]) = load
  /\ StopsOnlyConnected

(* Only the queue of the failing load's current position may be left.       *)
QueuesOK(id) ==
  /\ cm_id[id] \in {"route", "connect", "connected"} => id \in cq /\ id \in qp
  /\ cm_id[id] = "none" /\ LoadOf(id) >= load => id \notin cq /\ id \notin qp
  /\ LoadOf(id) = load /\ (id \in cq \/ id \in qp) =>
       /\ pc = "undo" => InStop(id) \/ id = Current
       /\ pc = "cleanup" => InStop(id)
       /\ pc = "failed" => id = Current
       /\ pc # "unloaded"

LeftOfOldLoads ==
  \A a, b \in cq \cup qp : LoadOf(a) = LoadOf(b) /\ LoadOf(a) < load => a = b

Regions ==
  /\ Connecting => servermr = {}
  /\ pc \in {"gctrl", "ready"} => servermr = Node
  /\ pc \in {"recv", "poll"} => servermr = 0 .. node - 1

ClientInv ==
  /\ ClientTypeOK
  /\ \A id \in Id : Position(id) /\ QueuesOK(id)
  /\ StopOK
  /\ LeftOfOldLoads
  /\ Regions

(* What the managers have said to each other agrees with how far the queues *)
(* are, and a load to come has said nothing.                                *)
MessagesOK(id) ==
  /\ "RTU" \in msgs[id] => cm_id[id] = "connected" \/ "DREQ" \in msgs[id]
  /\ "DREQ" \in msgs[id] \/ "REJ" \in msgs[id] => LoadOf(id) < load \/ cm_id[id] = "destroyed"
  /\ LoadOf(id) > load =>
       /\ msgs[id] = {} /\ peer[id] = "none" /\ context[id] = NoQueue
       /\ \A n \in Node : id \notin sent[n]

Taken(n) == {id \in Id : NodeOf(id) = n /\ context[id] # NoQueue}

(* The server hands out its queues in order, one to each connection, and    *)
(* takes the connections of one load before those of the next.              *)
ContextOK(id) ==
  /\ context[id] # NoQueue => context[id] < queue_ctr[NodeOf(id)] /\ peer[id] # "none"
  /\ peer[id] \in {"accepted", "established"} => context[id] # NoQueue

CountersOK ==
  \A n \in Node :
    /\ queue_ctr[n] = Cardinality(Taken(n))
    /\ \A k \in Cell : k >= queue_ctr[n] => state[n][k] = "INIT"

LoadsInOrder ==
  \A a, b \in Id :
    NodeOf(a) = NodeOf(b) /\ LoadOf(a) < LoadOf(b) /\ context[b] # NoQueue =>
      /\ context[a] # NoQueue => context[a] < context[b]
      /\ "REQ" \in msgs[a] => peer[a] # "none"

(* A region has come over the connection that has the server's queue 0, and *)
(* that server stays while the load that it serves is not taken down.       *)
RegionsFromQueue0 ==
  ~Ended =>
    \A n \in Node :
      /\ \A id \in sent[n] : LoadOf(id) = load => NodeOf(id) = n /\ context[id] = 0
      /\ n \in servermr => <<n, 0, load>> \in sent[n]

ServersStay ==
  Connecting \/ Receiving =>
    \A id \in Id :
      LoadOf(id) = load /\ context[id] = 0 =>
        process[NodeOf(id)] = "up" /\ mr_buffer[NodeOf(id)]

ServerInv ==
  /\ LinkTypeOK /\ ServerTypeOK
  /\ \A id \in Id : MessagesOK(id) /\ ContextOK(id)
  /\ CountersOK
  /\ QueuesNotShared
  /\ LoadsInOrder
  /\ RegionsFromQueue0
  /\ ServersStay

CInv == ClientInv /\ ServerInv
-----------------------------------------------------------------------------
(* The names of the connections, and the order in which they are made. *)

LEMMA IdFacts ==
  /\ \A id \in Id : /\ NodeOf(id) \in Node /\ QueueOf(id) \in Queue /\ LoadOf(id) \in Loads
                    /\ id = <<NodeOf(id), QueueOf(id), LoadOf(id)>>
  /\ \A n \in Node, i \in Queue, g \in Loads :
       /\ <<n, i, g>> \in Id
       /\ NodeOf(<<n, i, g>>) = n /\ QueueOf(<<n, i, g>>) = i /\ LoadOf(<<n, i, g>>) = g
BY DEF Id, NodeOf, QueueOf, LoadOf

LEMMA MulMono ==
  ASSUME NEW a \in Nat, NEW b \in Nat, NEW n \in Nat, a < b
  PROVE  a * n + n <= b * n
<1>1. PICK d \in Nat : b = a + 1 + d
  <2>1. b - a - 1 \in Nat
    OBVIOUS
  <2>2. b = a + 1 + (b - a - 1)
    OBVIOUS
  <2> QED BY <2>1, <2>2
<1>2. b * n = a * n + n + d * n
  BY <1>1
<1>3. d * n \in Nat
  OBVIOUS
<1> QED BY <1>2, <1>3

(* The numbers of the controllers' queues on gctrl_list. *)
LEMMA NthFacts ==
  ASSUME load \in Loads, NEW n \in 0 .. NrNodes, NEW j \in 0 .. n * NumQueues - 1
  PROVE  /\ Nth(j) \in Id /\ LoadOf(Nth(j)) = load /\ NodeOf(Nth(j)) < n
         /\ j = NodeOf(Nth(j)) * NumQueues + QueueOf(Nth(j))
<1> DEFINE a == j \div NumQueues
           b == j % NumQueues
<1>1. NumQueues \in Nat \ {0} /\ NrNodes \in Nat \ {0} /\ n \in Nat
  BY LinkAssumption
<1>2. n * NumQueues \in Nat
  BY <1>1
<1>3. j \in Nat /\ j < n * NumQueues
  BY <1>2
<1>4. a \in Nat /\ b \in 0 .. NumQueues - 1 /\ j = a * NumQueues + b
  BY <1>1, <1>3
<1>5. a < n
  <2>1. SUFFICES ASSUME n <= a PROVE FALSE
    BY <1>1, <1>4
  <2>2. n * NumQueues <= a * NumQueues
    <3>1. CASE n = a
      BY <3>1, <1>2
    <3>2. CASE n < a
      <4>1. n * NumQueues + NumQueues <= a * NumQueues
        BY <3>2, <1>1, <1>4, MulMono
      <4>2. a * NumQueues \in Nat
        BY <1>1, <1>4
      <4> QED BY <4>1, <4>2, <1>1, <1>2
    <3> QED BY <3>1, <3>2, <2>1, <1>1, <1>4
  <2>3. a * NumQueues \in Nat
    BY <1>1, <1>4
  <2> QED BY <2>2, <2>3, <1>2, <1>3, <1>4
<1>6. a \in Node /\ b \in Queue
  BY <1>1, <1>4, <1>5 DEF Node, Queue
<1>7. Nth(j) = <<a, b, load>>
  BY DEF Nth
<1> HIDE DEF a, b
<1> QED BY <1>4, <1>5, <1>6, <1>7, IdFacts

LEMMA NthOnto ==
  ASSUME load \in Loads, NEW n \in 0 .. NrNodes, NEW id \in Id,
         LoadOf(id) = load, NodeOf(id) < n
  PROVE  \E j \in 1 .. n * NumQueues : Nth(j - 1) = id
<1> DEFINE a == NodeOf(id)
           b == QueueOf(id)
           x == a * NumQueues + b
<1>1. /\ NumQueues \in Nat \ {0} /\ n \in Nat
      /\ a \in Nat /\ a < n /\ b \in 0 .. NumQueues - 1
      /\ id = <<a, b, load>>
  BY LinkAssumption, IdFacts DEF Node, Queue
<1> HIDE DEF a, b
<1>2. a * NumQueues \in Nat /\ n * NumQueues \in Nat /\ a * NumQueues + NumQueues <= n * NumQueues
  BY <1>1, MulMono
<1>3. x \in Nat /\ x + 1 \in 1 .. n * NumQueues
  BY <1>1, <1>2
<1>4. x \div NumQueues = a /\ x % NumQueues = b
  <2>1. /\ x \div NumQueues \in Int
        /\ x % NumQueues \in 0 .. NumQueues - 1
        /\ x = NumQueues * (x \div NumQueues) + (x % NumQueues)
    BY <1>1, <1>3
  <2> QED BY <2>1, <1>1
<1>5. (x + 1) - 1 = x
  BY <1>3
<1> HIDE DEF x
<1>6. Nth((x + 1) - 1) = id
  BY <1>1, <1>4, <1>5 DEF Nth
<1> QED BY <1>3, <1>6

(* The queues that are stopped are those of this load before the failing    *)
(* one, each of them once.                                                  *)
LEMMA ToStopFacts ==
  ASSUME load \in Loads, NEW n \in 0 .. NrNodes, NEW i \in Nat,
         (n # NrNodes /\ i \in Queue) \/ (n = NrNodes /\ i = 0),
         NEW s, s = ToStop(n, i)
  PROVE  /\ s \in Seq(Id)
         /\ \A j \in DOMAIN s : LoadOf(s[j]) = load /\ Before(s[j], n, i)
         /\ \A id \in Id : LoadOf(id) = load /\ Before(id, n, i) =>
              \E j \in DOMAIN s : s[j] = id
         /\ \A j, k \in DOMAIN s : j # k => s[j] # s[k]
<1> DEFINE m == n * NumQueues
           f == [j \in 1 .. i |-> <<n, i - j, load>>]
           g == [j \in 1 .. m |-> Nth(j - 1)]
<1>1. NumQueues \in Nat \ {0} /\ NrNodes \in Nat \ {0} /\ n \in Nat /\ i \in Nat
  BY LinkAssumption
<1>2. m \in Nat
  BY <1>1
<1>3. \A j \in 1 .. m : /\ g[j] = Nth(j - 1)
                        /\ g[j] \in Id /\ LoadOf(g[j]) = load /\ NodeOf(g[j]) < n
                        /\ j = NodeOf(g[j]) * NumQueues + QueueOf(g[j]) + 1
  <2> SUFFICES ASSUME NEW j \in 1 .. m
               PROVE  /\ g[j] = Nth(j - 1)
                      /\ g[j] \in Id /\ LoadOf(g[j]) = load /\ NodeOf(g[j]) < n
                      /\ j = NodeOf(g[j]) * NumQueues + QueueOf(g[j]) + 1
    OBVIOUS
  <2>1. j - 1 \in 0 .. n * NumQueues - 1
    BY <1>2
  <2>2. g[j] = Nth(j - 1)
    OBVIOUS
  <2> HIDE DEF g, m
  <2>3. /\ Nth(j - 1) \in Id /\ LoadOf(Nth(j - 1)) = load /\ NodeOf(Nth(j - 1)) < n
        /\ j - 1 = NodeOf(Nth(j - 1)) * NumQueues + QueueOf(Nth(j - 1))
    BY <2>1, NthFacts
  <2>4. NodeOf(Nth(j - 1)) * NumQueues \in Int /\ QueueOf(Nth(j - 1)) \in Int
    BY <2>3, <1>1, IdFacts DEF Node, Queue
  <2> QED BY <2>2, <2>3, <2>4, <1>2
<1>4. \A j \in 1 .. i : /\ f[j] = <<n, i - j, load>>
                        /\ f[j] \in Id /\ LoadOf(f[j]) = load
                        /\ NodeOf(f[j]) = n /\ QueueOf(f[j]) = i - j
  <2> SUFFICES ASSUME NEW j \in 1 .. i
               PROVE  /\ f[j] = <<n, i - j, load>>
                      /\ f[j] \in Id /\ LoadOf(f[j]) = load
                      /\ NodeOf(f[j]) = n /\ QueueOf(f[j]) = i - j
    OBVIOUS
  <2>1. n \in Node /\ i - j \in Queue
    BY <1>1 DEF Node, Queue
  <2> QED BY <2>1, IdFacts
<1>5. f \in Seq(Id) /\ Len(f) = i /\ g \in Seq(Id) /\ Len(g) = m
  <2>1. f \in [1 .. i -> Id] /\ g \in [1 .. m -> Id]
    BY <1>3, <1>4
  <2> HIDE DEF f, g, m
  <2> QED BY <2>1, <1>1, <1>2
<1>6. s = f \o g
  BY DEF ToStop
<1> HIDE DEF f, g
<1>7. /\ s \in Seq(Id)
      /\ DOMAIN s = 1 .. i + m
      /\ \A j \in 1 .. i : s[j] = f[j]
      /\ \A j \in 1 .. m : s[i + j] = g[j]
      /\ \A j \in DOMAIN s : j \in 1 .. i \/ \E k \in 1 .. m : j = i + k
  <2> HIDE DEF m
  <2>1. /\ s \in Seq(Id) /\ Len(s) = i + m
        /\ \A j \in 1 .. i + m : s[j] = IF j <= i THEN f[j] ELSE g[j - i]
    <3>1. /\ f \o g \in Seq(Id) /\ Len(f \o g) = Len(f) + Len(g)
          /\ \A j \in 1 .. Len(f) + Len(g) :
               (f \o g)[j] = IF j <= Len(f) THEN f[j] ELSE g[j - Len(f)]
      BY <1>5, ConcatProperties
    <3> QED BY <3>1, <1>5, <1>6
  <2>2. DOMAIN s = 1 .. i + m
    BY <2>1
  <2>3. \A j \in DOMAIN s : j \in 1 .. i \/ \E k \in 1 .. m : j = i + k
    <3> SUFFICES ASSUME NEW j \in 1 .. i + m, j \notin 1 .. i
                 PROVE  \E k \in 1 .. m : j = i + k
      BY <2>2
    <3>1. j - i \in 1 .. m /\ j = i + (j - i)
      BY <1>1, <1>2
    <3> QED BY <3>1
  <2>4. \A j \in 1 .. i : s[j] = f[j]
    BY <2>1, <1>1, <1>2
  <2>5. \A j \in 1 .. m : s[i + j] = g[j]
    <3> SUFFICES ASSUME NEW j \in 1 .. m PROVE s[i + j] = g[j]
      OBVIOUS
    <3>1. i + j \in 1 .. i + m /\ ~(i + j <= i) /\ (i + j) - i = j
      BY <1>1, <1>2
    <3> QED BY <3>1, <2>1
  <2> QED BY <2>1, <2>2, <2>3, <2>4, <2>5
<1>8. \A j \in DOMAIN s : LoadOf(s[j]) = load /\ Before(s[j], n, i)
  <2> SUFFICES ASSUME NEW j \in DOMAIN s
               PROVE  LoadOf(s[j]) = load /\ Before(s[j], n, i)
    OBVIOUS
  <2>1. CASE j \in 1 .. i
    <3>1. i - j < i
      BY <2>1, <1>1
    <3> QED BY <2>1, <3>1, <1>4, <1>7 DEF Before
  <2>2. CASE \E k \in 1 .. m : j = i + k
    BY <2>2, <1>3, <1>7 DEF Before
  <2> QED BY <2>1, <2>2, <1>7
<1>9. ASSUME NEW id \in Id, LoadOf(id) = load, Before(id, n, i)
      PROVE  \E j \in DOMAIN s : s[j] = id
  <2>1. CASE NodeOf(id) < n
    <3>1. PICK j \in 1 .. m : Nth(j - 1) = id
      BY <2>1, <1>9, NthOnto
    <3>2. i + j \in DOMAIN s /\ s[i + j] = id
      BY <3>1, <1>1, <1>2, <1>3, <1>7
    <3> QED BY <3>2
  <2>2. CASE NodeOf(id) = n /\ QueueOf(id) < i
    <3>1. /\ QueueOf(id) \in Nat
          /\ id = <<n, QueueOf(id), load>>
      BY <2>2, <1>9, IdFacts DEF Queue
    <3>2. i - QueueOf(id) \in 1 .. i /\ i - (i - QueueOf(id)) = QueueOf(id)
      BY <2>2, <3>1, <1>1
    <3>3. i - QueueOf(id) \in DOMAIN s
      BY <3>2, <1>1, <1>2, <1>7
    <3>4. s[i - QueueOf(id)] = id
      BY <3>1, <3>2, <1>4, <1>7
    <3> QED BY <3>3, <3>4
  <2> QED BY <2>1, <2>2, <1>9 DEF Before
<1>10. ASSUME NEW j \in DOMAIN s, NEW k \in DOMAIN s, s[j] = s[k]
       PROVE  j = k
  <2>1. CASE j \in 1 .. i /\ k \in 1 .. i
    <3>1. i - j = i - k
      BY <2>1, <1>4, <1>7, <1>10
    <3> QED BY <3>1, <2>1, <1>1
  <2>2. CASE j \in 1 .. i /\ \E l \in 1 .. m : k = i + l
    <3>1. NodeOf(s[j]) = n /\ NodeOf(s[k]) < n
      BY <2>2, <1>3, <1>4, <1>7
    <3> QED BY <3>1, <1>1, <1>10
  <2>3. CASE k \in 1 .. i /\ \E l \in 1 .. m : j = i + l
    <3>1. NodeOf(s[k]) = n /\ NodeOf(s[j]) < n
      BY <2>3, <1>3, <1>4, <1>7
    <3> QED BY <3>1, <1>1, <1>10
  <2>4. CASE (\E l \in 1 .. m : j = i + l) /\ (\E l \in 1 .. m : k = i + l)
    <3>1. PICK p \in 1 .. m : j = i + p
      BY <2>4
    <3>2. PICK q \in 1 .. m : k = i + q
      BY <2>4
    <3>3. g[p] = g[q]
      BY <3>1, <3>2, <1>7, <1>10
    <3>4. p = q
      BY <3>3, <1>3
    <3> QED BY <3>1, <3>2, <3>4
  <2> QED BY <2>1, <2>2, <2>3, <2>4, <1>7
<1> QED BY <1>7, <1>8, <1>9, <1>10

-----------------------------------------------------------------------------
(* The compute node's part of the invariant. *)

LEMMA CurrentFacts ==
  ASSUME ClientTypeOK
  PROVE  /\ Current \in Id
         /\ NodeOf(Current) = node /\ QueueOf(Current) = queue /\ LoadOf(Current) = load
         /\ ~Before(Current, node, queue)
         /\ \A id \in Id :
              NodeOf(id) = node /\ QueueOf(id) = queue /\ LoadOf(id) = load => id = Current
         /\ node \in Nat /\ queue \in Nat /\ node < NrNodes /\ queue < NumQueues /\ load \in Nat
<1>1. node \in Node /\ queue \in Queue /\ load \in Loads
  BY DEF ClientTypeOK
<1>2. /\ Current \in Id
      /\ NodeOf(Current) = node /\ QueueOf(Current) = queue /\ LoadOf(Current) = load
  BY <1>1, IdFacts DEF Current
<1>3. \A id \in Id :
        NodeOf(id) = node /\ QueueOf(id) = queue /\ LoadOf(id) = load => id = Current
  BY IdFacts DEF Current
<1>4. node \in Nat /\ queue \in Nat /\ node < NrNodes /\ queue < NumQueues /\ load \in Nat
  BY <1>1, LinkAssumption DEF Node, Queue, Loads
<1>5. ~Before(Current, node, queue)
  BY <1>2, <1>4 DEF Before
<1> QED BY <1>2, <1>3, <1>4, <1>5

(* The event handler works for the current queue only. *)
LEMMA HandlerAtCurrent ==
  ASSUME ClientInv, NEW id \in Id, cm_id[id] \in {"addr", "route", "connect"}
  PROVE  id = Current /\ pc \in {"wait", "destroy"} /\ LoadOf(id) = load
<1>1. Position(id) /\ StopsOnlyConnected
  BY DEF ClientInv, StopOK
<1>2. LoadOf(id) = load
  BY <1>1 DEF Position
<1>3. ~InStop(id)
  BY <1>1 DEF InStop, StopsOnlyConnected
<1>4. pc \in {"init", "wait", "destroy", "recv", "poll", "gctrl", "ready", "oops",
              "undo", "cleanup", "failed", "unloaded"}
  BY DEF ClientInv, ClientTypeOK
<1>5. Connecting
  BY <1>1, <1>2, <1>3, <1>4 DEF Position, Connecting, Receiving, Stopping, Ended
<1>6. id = Current /\ pc # "init"
  BY <1>1, <1>2, <1>5 DEF Position
<1> QED BY <1>2, <1>5, <1>6 DEF Connecting

(* What an event does. *)
LEMMA HandlerFacts ==
  ASSUME ClientInv, NEW id \in Id, CmHandler(id)
  PROVE  /\ id = Current /\ pc \in {"wait", "destroy"} /\ LoadOf(id) = load
         /\ UNCHANGED <<load, pc, node, queue, stop, servermr>>
         /\ cm_id[id] \in {"addr", "route", "connect"}
         /\ \E to \in {"route", "connect", "connected", "error"} :
              /\ cm_id' = [cm_id EXCEPT ![id] = to]
              /\ to \in {"route", "connect", "connected"} => id \in cq' /\ id \in qp'
         /\ cm_error' \in [Id -> {"none", "ETIMEDOUT", "ENODEV", "ECONNRESET"}]
         /\ cm_error'[id] = "none" => cm_id'[id] = "connected"
         /\ cm_done' \in [Id -> BOOLEAN]
         /\ cq' \in {cq, cq \cup {id}} /\ qp' \in {qp, qp \cup {id}}
         /\ rdev' \subseteq Node \X Loads
<1>1. cm_id[id] \in {"addr", "route", "connect"}
  BY DEF CmHandler, AddrResolved, AddrResolvedFails, ResolveRouteFails, RouteResolved,
         ConnectFails, Established, CmErrorEvent, Rejected
<1>2. id = Current /\ pc \in {"wait", "destroy"} /\ LoadOf(id) = load
  BY <1>1, HandlerAtCurrent
<1>3. Position(id) /\ QueuesOK(id) /\ ClientTypeOK
  BY DEF ClientInv
<1>4. ~Before(id, node, queue) /\ NodeOf(id) \in Node
  BY <1>2, <1>3, CurrentFacts, IdFacts
<1>5. cm_error[id] # "none"
  BY <1>1, <1>2, <1>3, <1>4 DEF Position, Connecting
<1>6. /\ cm_id \in [Id -> {"none", "addr", "route", "connect", "connected", "error", "destroyed"}]
      /\ cm_error \in [Id -> {"none", "ETIMEDOUT", "ENODEV", "ECONNRESET"}]
      /\ cm_done \in [Id -> BOOLEAN]
      /\ rdev \subseteq Node \X Loads /\ Ctrl(id) \in Node \X Loads
  BY <1>3, IdFacts DEF ClientTypeOK, Ctrl
<1>7. cm_id[id] \in {"route", "connect"} => id \in cq /\ id \in qp
  BY <1>3 DEF QueuesOK
<1> DEFINE Result ==
      /\ UNCHANGED <<load, pc, node, queue, stop, servermr>>
      /\ \E to \in {"route", "connect", "connected", "error"} :
           /\ cm_id' = [cm_id EXCEPT ![id] = to]
           /\ to \in {"route", "connect", "connected"} => id \in cq' /\ id \in qp'
      /\ cm_error' \in [Id -> {"none", "ETIMEDOUT", "ENODEV", "ECONNRESET"}]
      /\ cm_error'[id] = "none" => cm_id'[id] = "connected"
      /\ cm_done' \in [Id -> BOOLEAN]
      /\ cq' \in {cq, cq \cup {id}} /\ qp' \in {qp, qp \cup {id}}
      /\ rdev' \subseteq Node \X Loads
<1>8. CASE AddrResolved(id)
  <2>1. Result
    BY <1>8, <1>4, <1>5, <1>6 DEF AddrResolved, Advance
  <2> QED BY <2>1, <1>1, <1>2
<1>9. CASE AddrResolvedFails(id)
  <2>1. Result
    BY <1>9, <1>4, <1>5, <1>6 DEF AddrResolvedFails, Advance, Complete
  <2> QED BY <2>1, <1>1, <1>2
<1>10. CASE ResolveRouteFails(id)
  <2>1. Result
    BY <1>10, <1>4, <1>5, <1>6 DEF ResolveRouteFails, Advance
  <2> QED BY <2>1, <1>1, <1>2
<1>11. CASE RouteResolved(id)
  <2>1. Result
    BY <1>11, <1>5, <1>6, <1>7 DEF RouteResolved, Advance
  <2> QED BY <2>1, <1>1, <1>2
<1>12. CASE ConnectFails(id)
  <2>1. Result
    BY <1>12, <1>5, <1>6 DEF ConnectFails, Advance
  <2> QED BY <2>1, <1>1, <1>2
<1>13. CASE Established(id)
  <2>1. Result
    BY <1>13, <1>6, <1>7 DEF Established, Advance, Complete
  <2> QED BY <2>1, <1>1, <1>2
<1>14. CASE CmErrorEvent(id)
  <2>1. Result
    BY <1>14, <1>6 DEF CmErrorEvent, Advance, Complete
  <2> QED BY <2>1, <1>1, <1>2
<1>15. CASE Rejected(id)
  <2>1. Result
    BY <1>15, <1>5, <1>6 DEF Rejected, Advance
  <2> QED BY <2>1, <1>1, <1>2
<1> QED BY <1>8, <1>9, <1>10, <1>11, <1>12, <1>13, <1>14, <1>15 DEF CmHandler

LEMMA HandlerClientInv ==
  ASSUME ClientInv, NEW c \in Id, CmHandler(c)
  PROVE  ClientInv'
<1>1. /\ c = Current /\ pc \in {"wait", "destroy"} /\ LoadOf(c) = load
      /\ UNCHANGED <<load, pc, node, queue, stop, servermr>>
      /\ cm_id[c] \in {"addr", "route", "connect"}
      /\ cm_error' \in [Id -> {"none", "ETIMEDOUT", "ENODEV", "ECONNRESET"}]
      /\ cm_error'[c] = "none" => cm_id'[c] = "connected"
      /\ cm_done' \in [Id -> BOOLEAN]
      /\ cq' \in {cq, cq \cup {c}} /\ qp' \in {qp, qp \cup {c}}
      /\ rdev' \subseteq Node \X Loads
  BY HandlerFacts
<1>2. PICK to \in {"route", "connect", "connected", "error"} :
        /\ cm_id' = [cm_id EXCEPT ![c] = to]
        /\ to \in {"route", "connect", "connected"} => c \in cq' /\ c \in qp'
  BY HandlerFacts
<1>3. ClientTypeOK /\ StopOK /\ LeftOfOldLoads /\ Regions
  BY DEF ClientInv
<1>4. cm_id'[c] = to /\ \A id \in Id \ {c} : cm_id'[id] = cm_id[id]
  BY <1>2, <1>3 DEF ClientTypeOK
<1>5. Current' = Current /\ stop = <<>> /\ ~Before(c, node, queue)
  BY <1>1, <1>3, CurrentFacts DEF Current, StopOK, Stopping
<1>6. ClientTypeOK'
  BY <1>1, <1>2, <1>3 DEF ClientTypeOK
<1>7. ASSUME NEW id \in Id PROVE Position(id)'
  <2>1. Position(id)
    BY DEF ClientInv
  <2>2. CASE id = c
    BY <2>2, <1>1, <1>4, <1>5 DEF Position, Connecting, Receiving, Stopping, Ended, Before
  <2>3. CASE id # c
    BY <2>1, <2>3, <1>1, <1>4, <1>5
       DEF Position, Connecting, Receiving, Stopping, Ended, Before
  <2> QED BY <2>2, <2>3
<1>8. ASSUME NEW id \in Id PROVE QueuesOK(id)'
  <2>1. QueuesOK(id)
    BY DEF ClientInv
  <2>2. CASE id = c
    BY <2>2, <1>1, <1>2, <1>4 DEF QueuesOK
  <2>3. CASE id # c
    <3>1. (id \in cq' <=> id \in cq) /\ (id \in qp' <=> id \in qp)
      BY <2>3, <1>1
    <3> QED BY <3>1, <2>1, <2>3, <1>1, <1>4 DEF QueuesOK, InStop
  <2> QED BY <2>2, <2>3
<1>9. StopOK'
  BY <1>1, <1>5 DEF StopOK, StopsOnlyConnected
<1>10. LeftOfOldLoads'
  <2> SUFFICES ASSUME NEW a \in (cq \cup qp)', NEW b \in (cq \cup qp)',
                      LoadOf(a) = LoadOf(b), LoadOf(a) < load
               PROVE  a = b
    BY <1>1 DEF LeftOfOldLoads
  <2>1. load \in Nat
    BY <1>3, CurrentFacts
  <2>2. a # c /\ b # c
    BY <2>1, <1>1
  <2>3. a \in cq \cup qp /\ b \in cq \cup qp
    BY <2>2, <1>1
  <2> QED BY <2>3, <1>3 DEF LeftOfOldLoads
<1>11. Regions'
  BY <1>1, <1>3 DEF Regions, Connecting
<1> QED BY <1>6, <1>7, <1>8, <1>9, <1>10, <1>11 DEF ClientInv

(* Giving up at queue i of node n, or unloading: every connected queue is   *)
(* to be stopped, and no other has a queue pair but the current one's.      *)
LEMMA TearDown ==
  ASSUME ClientInv, NEW n \in 0 .. NrNodes, NEW i \in Nat,
         (n # NrNodes /\ i \in Queue) \/ (n = NrNodes /\ i = 0),
         NEW label \in {"undo", "cleanup"}, FailAt(n, i, label),
         UNCHANGED <<load, node, queue, cm_error, cm_done, cq, qp, rdev, servermr>>,
         cm_id' \in [Id -> {"none", "addr", "route", "connect", "connected", "error", "destroyed"}],
         \A id \in Id :
           /\ LoadOf(id) # load => cm_id'[id] = cm_id[id]
           /\ LoadOf(id) = load /\ Before(id, n, i) =>
                cm_id'[id] = "connected" /\ cm_id[id] = "connected"
           /\ LoadOf(id) = load /\ ~Before(id, n, i) =>
                /\ cm_id'[id] \in {"none", "destroyed"}
                /\ cm_id'[id] = "none" => cm_id[id] = "none"
                /\ id \in cq \/ id \in qp => label = "undo" /\ id = Current
  PROVE  ClientInv'
<1> DEFINE s == stop'
<1>1. s = ToStop(n, i) /\ pc' = label
  BY DEF FailAt
<1>2. ClientTypeOK /\ StopOK /\ LeftOfOldLoads /\ load \in Loads /\ load \in Nat
  BY CurrentFacts DEF ClientInv, ClientTypeOK
<1>3. /\ s \in Seq(Id)
      /\ \A j \in DOMAIN s : LoadOf(s[j]) = load /\ Before(s[j], n, i)
      /\ \A id \in Id : LoadOf(id) = load /\ Before(id, n, i) =>
           \E j \in DOMAIN s : s[j] = id
      /\ \A j, k \in DOMAIN s : j # k => s[j] # s[k]
  <2> HIDE DEF s
  <2> QED BY <1>1, <1>2, ToStopFacts
<1>4. \A j \in DOMAIN s : s[j] \in Id
  BY <1>3
<1>5. ClientTypeOK'
  BY <1>1, <1>2, <1>3 DEF ClientTypeOK
<1>6. \A id \in Id : LoadOf(id) = load /\ Before(id, n, i) => InStop(id)'
  BY <1>3 DEF InStop
<1>7. ASSUME NEW id \in Id PROVE Position(id)'
  <2>1. Position(id)
    BY DEF ClientInv
  <2>2. LoadOf(id) # load => cm_id'[id] = "none"
    BY <2>1 DEF Position
  <2>3. ~Connecting' /\ ~Receiving' /\ ~Ended'
    BY <1>1 DEF Connecting, Receiving, Ended
  <2>4. LoadOf(id) = load => InStop(id)' \/ cm_id'[id] \in {"none", "destroyed"}
    BY <1>6
  <2> QED BY <2>2, <2>3, <2>4 DEF Position
<1>8. ASSUME NEW id \in Id PROVE QueuesOK(id)'
  <2>1. QueuesOK(id) /\ Position(id)
    BY DEF ClientInv
  <2>2. Current' = Current
    BY DEF Current
  <2>3. CASE LoadOf(id) # load
    BY <2>1, <2>3 DEF QueuesOK, Position
  <2>4. CASE LoadOf(id) = load /\ Before(id, n, i)
    <3>1. cm_id'[id] = "connected" /\ cm_id[id] = "connected" /\ InStop(id)'
      BY <2>4, <1>6
    <3> QED BY <3>1, <2>1, <2>4, <1>1 DEF QueuesOK
  <2>5. CASE LoadOf(id) = load /\ ~Before(id, n, i)
    BY <2>1, <2>2, <2>5, <1>1, <1>2 DEF QueuesOK
  <2> QED BY <2>3, <2>4, <2>5
<1>9. StopOK'
  <2>1. ASSUME NEW j \in DOMAIN s
        PROVE  LoadOf(s[j]) = load /\ s[j] \in qp /\ cm_id'[s[j]] = "connected"
    <3>1. s[j] \in Id /\ LoadOf(s[j]) = load /\ cm_id[s[j]] = "connected"
          /\ cm_id'[s[j]] = "connected"
      BY <1>3, <1>4
    <3> QED BY <3>1 DEF ClientInv, QueuesOK
  <2>2. Stopping'
    BY <1>1 DEF Stopping
  <2> QED BY <2>1, <2>2, <1>3 DEF StopOK, StopsOnlyConnected
<1>10. LeftOfOldLoads'
  BY <1>2 DEF LeftOfOldLoads
<1>11. Regions'
  BY <1>1 DEF Regions, Connecting
<1> QED BY <1>5, <1>7, <1>8, <1>9, <1>10, <1>11 DEF ClientInv

(* Where the queues are while none is being connected. *)
LEMMA ConnectingFacts ==
  ASSUME ClientInv, Connecting, NEW id \in Id, LoadOf(id) = load
  PROVE  /\ Before(id, node, queue) => cm_id[id] = "connected"
         /\ ~Before(id, node, queue) /\ (id = Current => pc = "init") =>
              cm_id[id] = "none" /\ id \notin cq /\ id \notin qp
         /\ cm_id[id] # "destroyed"
<1>1. Position(id) /\ QueuesOK(id) /\ load \in Nat
  BY CurrentFacts DEF ClientInv
<1>2. cm_id[id] # "destroyed"
  BY <1>1 DEF Position
<1> QED BY <1>1, <1>2 DEF Position, QueuesOK

LEMMA InitQueueClientInv ==
  ASSUME ClientInv, InitQueue \/ InitQueueFails
  PROVE  ClientInv'
<1>1. ClientTypeOK /\ StopOK /\ LeftOfOldLoads /\ Regions
  BY DEF ClientInv
<1>2. pc = "init" /\ Connecting /\ UNCHANGED <<load, node, queue, cq, qp, rdev, servermr>>
  BY DEF InitQueue, InitQueueFails, Connecting
<1>3. Current' = Current /\ Current \in Id /\ LoadOf(Current) = load
      /\ ~Before(Current, node, queue)
  BY <1>1, <1>2, CurrentFacts DEF Current
<1>4. CASE InitQueue
  <2>1. /\ pc' = "wait" /\ stop' = stop /\ cm_done' = cm_done
        /\ cm_id' = [cm_id EXCEPT ![Current] = "addr"]
        /\ cm_error' = [cm_error EXCEPT ![Current] = "ETIMEDOUT"]
    BY <1>4 DEF InitQueue
  <2>2. /\ cm_id'[Current] = "addr" /\ cm_error'[Current] = "ETIMEDOUT"
        /\ \A id \in Id \ {Current} : cm_id'[id] = cm_id[id]
    BY <2>1, <1>1, <1>3 DEF ClientTypeOK
  <2>3. ClientTypeOK'
    BY <2>1, <1>1, <1>2 DEF ClientTypeOK
  <2>4. ASSUME NEW id \in Id PROVE Position(id)'
    <3>1. Position(id)
      BY DEF ClientInv
    <3>2. CASE id = Current
      BY <3>2, <2>1, <2>2, <1>2, <1>3
         DEF Position, Connecting, Receiving, Stopping, Ended, Before
    <3>3. CASE id # Current
      BY <3>1, <3>3, <2>1, <2>2, <1>2, <1>3
         DEF Position, Connecting, Receiving, Stopping, Ended, Before
    <3> QED BY <3>2, <3>3
  <2>5. ASSUME NEW id \in Id PROVE QueuesOK(id)'
    <3>1. QueuesOK(id)
      BY DEF ClientInv
    <3>2. id = Current \/ cm_id'[id] = cm_id[id]
      BY <2>2
    <3> QED BY <3>1, <3>2, <2>1, <2>2, <1>2, <1>3 DEF QueuesOK
  <2>6. StopOK'
    BY <2>1, <1>1, <1>2 DEF StopOK, StopsOnlyConnected, Stopping
  <2>7. LeftOfOldLoads' /\ Regions'
    BY <2>1, <1>1, <1>2 DEF LeftOfOldLoads, Regions, Connecting
  <2> QED BY <2>3, <2>4, <2>5, <2>6, <2>7 DEF ClientInv
<1>5. CASE InitQueueFails
  <2>1. /\ FailAt(node, queue, "undo")
        /\ UNCHANGED <<load, node, queue, cm_id, cm_error, cm_done, cq, qp, rdev, servermr>>
    BY <1>5 DEF InitQueueFails
  <2>2. ASSUME NEW id \in Id, LoadOf(id) = load
        PROVE  /\ Before(id, node, queue) => cm_id[id] = "connected"
               /\ ~Before(id, node, queue) =>
                    cm_id[id] = "none" /\ id \notin cq /\ id \notin qp
    BY <2>2, <1>2, ConnectingFacts
  <2>3. node \in 0 .. NrNodes /\ queue \in Nat /\ node # NrNodes /\ queue \in Queue
    BY <1>1, CurrentFacts, LinkAssumption DEF ClientTypeOK
  <2>4. cm_id' \in [Id -> {"none", "addr", "route", "connect", "connected", "error", "destroyed"}]
    BY <2>1, <1>1 DEF ClientTypeOK
  <2>5. \A id \in Id :
           /\ LoadOf(id) # load => cm_id'[id] = cm_id[id]
           /\ LoadOf(id) = load /\ Before(id, node, queue) =>
                cm_id'[id] = "connected" /\ cm_id[id] = "connected"
           /\ LoadOf(id) = load /\ ~Before(id, node, queue) =>
                /\ cm_id'[id] \in {"none", "destroyed"}
                /\ cm_id'[id] = "none" => cm_id[id] = "none"
                /\ id \in cq \/ id \in qp => "undo" = "undo" /\ id = Current
    BY <2>1, <2>2
  <2> QED BY <2>1, <2>3, <2>4, <2>5, TearDown
<1> QED BY <1>4, <1>5

LEMMA WaitClientInv ==
  ASSUME ClientInv, WaitForCm \/ WaitForCmFails
  PROVE  ClientInv'
<1>1. ClientTypeOK /\ StopOK /\ LeftOfOldLoads /\ Regions
  BY DEF ClientInv
<1>2. /\ pc = "wait" /\ Connecting
      /\ UNCHANGED <<load, stop, cm_id, cm_error, cm_done, cq, qp, rdev, servermr>>
  BY DEF WaitForCm, WaitForCmFails, Connecting
<1>3. /\ Current \in Id /\ LoadOf(Current) = load /\ NodeOf(Current) = node
      /\ QueueOf(Current) = queue /\ ~Before(Current, node, queue)
      /\ \A id \in Id :
           NodeOf(id) = node /\ QueueOf(id) = queue /\ LoadOf(id) = load => id = Current
      /\ node \in Nat /\ queue \in Nat /\ node < NrNodes /\ queue < NumQueues
  BY <1>1, CurrentFacts
<1>4. CASE WaitForCm
  <2>1. cm_id[Current] = "connected"
    <3>1. Position(Current) /\ cm_error[Current] = "none"
      BY <1>3, <1>4 DEF ClientInv, WaitForCm
    <3> QED BY <3>1, <1>2, <1>3 DEF Position
  <2> DEFINE Last == node = NrNodes - 1 /\ queue = NumQueues - 1
  <2>2. CASE ~Last
    <3>1. /\ pc' = "init" /\ node' \in Node /\ queue' \in Queue
          /\ \/ queue < NumQueues - 1 /\ node' = node /\ queue' = queue + 1
             \/ queue = NumQueues - 1 /\ node' = node + 1 /\ queue' = 0
      <4>1. pc' = "init"
        BY <2>2, <1>4, <1>3 DEF WaitForCm
      <4>2. NumQueues \in Nat \ {0} /\ NrNodes \in Nat \ {0}
        BY LinkAssumption
      <4>3. CASE queue < NumQueues - 1
        <5>1. queue + 1 \in 0 .. NumQueues - 1 /\ (queue + 1) % NumQueues = queue + 1
          BY <4>2, <4>3, <1>3
        <5>2. node' = node /\ queue' = queue + 1
          BY <5>1, <4>2, <4>3, <1>3, <1>4 DEF WaitForCm
        <5> QED BY <4>1, <4>3, <5>1, <5>2, <1>1 DEF Queue, ClientTypeOK
      <4>4. CASE queue = NumQueues - 1
        <5>1. node < NrNodes - 1
          BY <2>2, <4>2, <4>4, <1>3
        <5>2. ~(queue < NumQueues - 1) /\ (queue + 1) % NumQueues = 0
          BY <4>2, <4>4, <1>3
        <5>3. node' = node + 1
          BY <5>1, <5>2, <4>4, <1>4 DEF WaitForCm
        <5>4. queue' = 0
          BY <5>2, <1>4 DEF WaitForCm
        <5> QED BY <4>1, <4>2, <4>4, <5>1, <5>3, <5>4, <1>3 DEF Queue, Node
      <4> QED BY <4>2, <4>3, <4>4, <1>3
    <3>2. ASSUME NEW id \in Id
          PROVE  Before(id, node', queue') <=>
                   Before(id, node, queue) \/ (NodeOf(id) = node /\ QueueOf(id) = queue)
      <4>1. NodeOf(id) \in Nat /\ QueueOf(id) \in Nat /\ QueueOf(id) < NumQueues
        BY IdFacts, LinkAssumption DEF Node, Queue
      <4> QED BY <4>1, <3>1, <1>3, LinkAssumption DEF Before
    <3>3. ClientTypeOK'
      BY <3>1, <1>1, <1>2 DEF ClientTypeOK
    <3>4. ASSUME NEW id \in Id PROVE Position(id)'
      <4>1. Position(id) /\ (Before(id, node, queue))' = Before(id, node', queue')
        BY DEF ClientInv, Before
      <4>2. /\ Connecting' /\ ~Receiving' /\ ~Stopping' /\ ~Ended' /\ pc' = "init"
        BY <3>1 DEF Connecting, Receiving, Stopping, Ended
      <4>3. CASE LoadOf(id) # load
        BY <4>1, <4>3, <1>2 DEF Position
      <4>4. CASE LoadOf(id) = load /\ Before(id, node', queue')
        <5>1. cm_id[id] = "connected"
          BY <4>4, <3>2, <2>1, <1>2, <1>3, ConnectingFacts
        <5> QED BY <5>1, <4>1, <4>2, <4>4, <1>2 DEF Position
      <4>5. CASE LoadOf(id) = load /\ ~Before(id, node', queue')
        <5>1. cm_id[id] = "none"
          BY <4>5, <3>2, <1>2, <1>3, ConnectingFacts
        <5> QED BY <5>1, <4>1, <4>2, <4>5, <1>2 DEF Position
      <4> QED BY <4>3, <4>4, <4>5
    <3>5. ASSUME NEW id \in Id PROVE QueuesOK(id)'
      <4>1. QueuesOK(id)
        BY DEF ClientInv
      <4> QED BY <4>1, <3>1, <1>2 DEF QueuesOK
    <3>6. StopOK' /\ LeftOfOldLoads' /\ Regions'
      BY <3>1, <1>1, <1>2
         DEF StopOK, StopsOnlyConnected, Stopping, LeftOfOldLoads, Regions, Connecting
    <3> QED BY <3>3, <3>4, <3>5, <3>6 DEF ClientInv
  <2>3. CASE Last
    <3>1. pc' = "recv" /\ node' = 0 /\ queue' = 0
      <4>1. NumQueues \in Nat \ {0} /\ NrNodes \in Nat \ {0}
        BY LinkAssumption
      <4>2. /\ ~(queue < NumQueues - 1) /\ ~(node < NrNodes - 1)
            /\ (queue + 1) % NumQueues = 0
        BY <4>1, <2>3, <1>3
      <4> QED BY <4>2, <2>3, <1>4 DEF WaitForCm
    <3>2. node' \in Node /\ queue' \in Queue
      BY <3>1, LinkAssumption DEF Node, Queue
    <3>3. ClientTypeOK'
      BY <3>1, <3>2, <1>1, <1>2 DEF ClientTypeOK
    <3>4. ASSUME NEW id \in Id PROVE Position(id)'
      <4>1. Position(id)
        BY DEF ClientInv
      <4>2. ~Connecting' /\ Receiving' /\ ~Stopping' /\ ~Ended'
        BY <3>1 DEF Connecting, Receiving, Stopping, Ended
      <4>3. LoadOf(id) = load => cm_id[id] = "connected"
        <5> SUFFICES ASSUME LoadOf(id) = load PROVE cm_id[id] = "connected"
          OBVIOUS
        <5>1. /\ NodeOf(id) \in Nat /\ QueueOf(id) \in Nat
              /\ NodeOf(id) < NrNodes /\ QueueOf(id) < NumQueues
          BY IdFacts, LinkAssumption DEF Node, Queue
        <5>2. Before(id, node, queue) \/ (NodeOf(id) = node /\ QueueOf(id) = queue)
          BY <5>1, <2>3, LinkAssumption DEF Before
        <5> QED BY <5>2, <2>1, <1>2, <1>3, ConnectingFacts
      <4> QED BY <4>1, <4>2, <4>3, <1>2 DEF Position
    <3>5. ASSUME NEW id \in Id PROVE QueuesOK(id)'
      <4>1. QueuesOK(id)
        BY DEF ClientInv
      <4> QED BY <4>1, <3>1, <1>2 DEF QueuesOK
    <3>6. StopOK' /\ LeftOfOldLoads'
      BY <3>1, <1>1, <1>2 DEF StopOK, StopsOnlyConnected, Stopping, LeftOfOldLoads
    <3>7. Regions'
      <4>1. servermr' = {} /\ 0 .. node' - 1 = {}
        BY <3>1, <1>1, <1>2 DEF Regions, Connecting
      <4> QED BY <4>1, <3>1 DEF Regions, Connecting
    <3> QED BY <3>3, <3>4, <3>5, <3>6, <3>7 DEF ClientInv
  <2> QED BY <2>2, <2>3
<1>5. CASE WaitForCmFails
  <2>1. pc' = "destroy" /\ UNCHANGED <<node, queue>> /\ Current' = Current
    BY <1>2, <1>5 DEF WaitForCmFails, Current
  <2>2. ClientTypeOK'
    BY <2>1, <1>1, <1>2 DEF ClientTypeOK
  <2>3. ASSUME NEW id \in Id PROVE Position(id)' /\ QueuesOK(id)'
    <3>1. Position(id) /\ QueuesOK(id)
      BY DEF ClientInv
    <3>2. Position(id)'
      BY <3>1, <2>1, <1>2 DEF Position, Connecting, Receiving, Stopping, Ended, Before
    <3> QED BY <3>1, <3>2, <2>1, <1>2 DEF QueuesOK
  <2>4. StopOK' /\ LeftOfOldLoads' /\ Regions'
    BY <2>1, <1>1, <1>2
       DEF StopOK, StopsOnlyConnected, Stopping, LeftOfOldLoads, Regions, Connecting
  <2> QED BY <2>2, <2>3, <2>4 DEF ClientInv
<1> QED BY <1>4, <1>5

LEMMA DestroyIdClientInv ==
  ASSUME ClientInv, DestroyId
  PROVE  ClientInv'
<1>1. ClientTypeOK
  BY DEF ClientInv
<1>2. /\ pc = "destroy" /\ Connecting /\ FailAt(node, queue, "undo")
      /\ UNCHANGED <<load, node, queue, cm_error, cm_done, cq, qp, rdev, servermr>>
      /\ cm_id' = [cm_id EXCEPT ![Current] = "destroyed"]
  BY DEF DestroyId, Connecting
<1>3. /\ Current \in Id /\ ~Before(Current, node, queue) /\ LoadOf(Current) = load
      /\ node \in 0 .. NrNodes /\ queue \in Nat /\ node # NrNodes /\ queue \in Queue
  BY <1>1, CurrentFacts, LinkAssumption DEF ClientTypeOK
<1>4. /\ cm_id'[Current] = "destroyed"
      /\ \A id \in Id \ {Current} : cm_id'[id] = cm_id[id]
      /\ cm_id' \in [Id -> {"none", "addr", "route", "connect", "connected", "error", "destroyed"}]
  BY <1>1, <1>2, <1>3 DEF ClientTypeOK
<1>5. \A id \in Id :
         /\ LoadOf(id) # load => cm_id'[id] = cm_id[id]
         /\ LoadOf(id) = load /\ Before(id, node, queue) =>
              cm_id'[id] = "connected" /\ cm_id[id] = "connected"
         /\ LoadOf(id) = load /\ ~Before(id, node, queue) =>
              /\ cm_id'[id] \in {"none", "destroyed"}
              /\ cm_id'[id] = "none" => cm_id[id] = "none"
              /\ id \in cq \/ id \in qp => "undo" = "undo" /\ id = Current
  <2> TAKE id \in Id
  <2>1. CASE id = Current
    BY <2>1, <1>3, <1>4
  <2>2. CASE id # Current
    <3>1. cm_id'[id] = cm_id[id]
      BY <2>2, <1>4
    <3>2. LoadOf(id) = load => /\ Before(id, node, queue) => cm_id[id] = "connected"
                               /\ ~Before(id, node, queue) =>
                                    cm_id[id] = "none" /\ id \notin cq /\ id \notin qp
      BY <2>2, <1>2, ConnectingFacts
    <3> QED BY <3>1, <3>2
  <2> QED BY <2>1, <2>2
<1> QED BY <1>2, <1>3, <1>4, <1>5, TearDown

LEMMA RecvClientInv ==
  ASSUME ClientInv, PostRecv \/ RecvRemoteMr \/ CreateGctrl \/ NoMemory
  PROVE  ClientInv'
<1>1. ClientTypeOK /\ StopOK /\ LeftOfOldLoads /\ Regions
  BY DEF ClientInv
<1>2. /\ Receiving /\ pc' \in {"recv", "poll", "gctrl", "ready", "oops"}
      /\ UNCHANGED <<load, queue, stop, cm_id, cm_error, cm_done, cq, qp, rdev>>
  <2>1. CASE RecvRemoteMr
    BY <2>1 DEF RecvRemoteMr, Receiving
  <2>2. CASE PostRecv \/ CreateGctrl \/ NoMemory
    BY <2>2 DEF PostRecv, CreateGctrl, NoMemory, Receiving
  <2> QED BY <2>1, <2>2
<1>3. node \in Nat /\ node < NrNodes /\ NrNodes \in Nat \ {0}
  BY <1>1, LinkAssumption DEF ClientTypeOK, Node
<1>4. /\ node' \in Node /\ servermr' \subseteq Node
      /\ pc' \in {"gctrl", "ready"} => servermr' = Node
      /\ pc' \in {"recv", "poll"} => servermr' = 0 .. node' - 1
  <2>1. CASE PostRecv \/ CreateGctrl \/ NoMemory
    BY <2>1, <1>1, <1>3 DEF PostRecv, CreateGctrl, NoMemory, ClientTypeOK, Regions
  <2>2. CASE RecvRemoteMr
    <3>1. servermr' = 0 .. node
      BY <2>2, <1>1, <1>3 DEF RecvRemoteMr, Regions
    <3>2. CASE node = NrNodes - 1
      <4>1. (node + 1) % NrNodes = 0
        BY <3>2, <1>3
      <4> QED BY <3>1, <3>2, <4>1, <2>2, <1>3 DEF RecvRemoteMr, Node
    <3>3. CASE node < NrNodes - 1
      <4>1. (node + 1) % NrNodes = node + 1
        BY <3>3, <1>3
      <4>2. node' = node + 1 /\ pc' = "recv"
        BY <3>3, <4>1, <2>2, <1>3 DEF RecvRemoteMr
      <4> QED BY <3>1, <3>3, <4>2, <1>3 DEF Node
    <3> QED BY <3>2, <3>3, <1>3
  <2> QED BY <2>1, <2>2
<1>5. ClientTypeOK'
  BY <1>1, <1>2, <1>4 DEF ClientTypeOK
<1>6. ASSUME NEW id \in Id PROVE Position(id)' /\ QueuesOK(id)'
  <2>1. Position(id) /\ QueuesOK(id)
    BY DEF ClientInv
  <2>2. Position(id)'
    BY <2>1, <1>2 DEF Position, Connecting, Receiving, Stopping, Ended
  <2> QED BY <2>1, <2>2, <1>2 DEF QueuesOK
<1>7. StopOK' /\ LeftOfOldLoads' /\ Regions'
  BY <1>1, <1>2, <1>4 DEF StopOK, StopsOnlyConnected, Stopping, LeftOfOldLoads, Regions,
                          Connecting, Receiving
<1> QED BY <1>5, <1>6, <1>7 DEF ClientInv

LEMMA UnloadClientInv ==
  ASSUME ClientInv, PostRecvFails \/ CleanupModule
  PROVE  ClientInv'
<1>1. PICK label \in {"undo", "cleanup"} : FailAt(NrNodes, 0, label)
  BY DEF PostRecvFails, CleanupModule
<1>2. /\ Receiving
      /\ UNCHANGED <<load, node, queue, cm_id, cm_error, cm_done, cq, qp, rdev, servermr>>
  BY DEF PostRecvFails, CleanupModule, Receiving
<1>3. NrNodes \in 0 .. NrNodes /\ 0 \in Nat
  BY LinkAssumption
<1>4. cm_id' \in [Id -> {"none", "addr", "route", "connect", "connected", "error", "destroyed"}]
  BY <1>2 DEF ClientInv, ClientTypeOK
<1>5. \A id \in Id :
         /\ LoadOf(id) # load => cm_id'[id] = cm_id[id]
         /\ LoadOf(id) = load /\ Before(id, NrNodes, 0) =>
              cm_id'[id] = "connected" /\ cm_id[id] = "connected"
         /\ LoadOf(id) = load /\ ~Before(id, NrNodes, 0) =>
              /\ cm_id'[id] \in {"none", "destroyed"}
              /\ cm_id'[id] = "none" => cm_id[id] = "none"
              /\ id \in cq \/ id \in qp => label = "undo" /\ id = Current
  <2> TAKE id \in Id
  <2>1. Before(id, NrNodes, 0)
    BY IdFacts, LinkAssumption DEF Before, Node
  <2>2. Position(id) /\ cm_id' = cm_id
    BY <1>2 DEF ClientInv
  <2> QED BY <2>1, <2>2, <1>2 DEF Position
<1> QED BY <1>1, <1>2, <1>3, <1>4, <1>5, TearDown

(* What is left to stop once the first is stopped. *)
LEMMA StopFacts ==
  ASSUME ClientInv, StopAndFree
  PROVE  /\ Head(stop) \in Id /\ LoadOf(Head(stop)) = load
         /\ cm_id[Head(stop)] = "connected" /\ Head(stop) \in qp
         /\ stop' \in Seq(Id)
         /\ \A id \in Id : InStop(id) => id = Head(stop) \/ InStop(id)'
         /\ \A j \in DOMAIN stop' : \E k \in DOMAIN stop : k # 1 /\ stop'[j] = stop[k]
         /\ \A j \in DOMAIN stop' : stop'[j] # Head(stop)
         /\ \A j, k \in DOMAIN stop' : j # k => stop'[j] # stop'[k]
<1>1. stop \in Seq(Id) /\ stop # <<>> /\ stop' = Tail(stop)
  BY DEF ClientInv, ClientTypeOK, StopAndFree
<1>2. /\ \A j \in DOMAIN stop : LoadOf(stop[j]) = load
      /\ \A j \in DOMAIN stop : stop[j] \in qp /\ cm_id[stop[j]] = "connected"
      /\ \A j, k \in DOMAIN stop : j # k => stop[j] # stop[k]
  BY DEF ClientInv, StopOK, StopsOnlyConnected
<1>3. /\ stop' \in Seq(Id) /\ Len(stop') = Len(stop) - 1
      /\ \A j \in 1 .. Len(stop') : stop'[j] = stop[j + 1]
      /\ Head(stop) \in Id
  BY <1>1, HeadTailProperties
<1>4. /\ Len(stop) \in Nat \ {0} /\ DOMAIN stop = 1 .. Len(stop)
      /\ DOMAIN stop' = 1 .. Len(stop) - 1 /\ 1 \in DOMAIN stop /\ Head(stop) = stop[1]
  BY <1>1, <1>3
<1>5. \A j \in DOMAIN stop' : /\ j \in Nat /\ j + 1 \in DOMAIN stop /\ j + 1 # 1
                              /\ stop'[j] = stop[j + 1]
  BY <1>3, <1>4
<1>6. ASSUME NEW id \in Id, InStop(id), id # Head(stop) PROVE InStop(id)'
  <2>1. PICK j \in DOMAIN stop : stop[j] = id
    BY <1>6 DEF InStop
  <2>2. j # 1
    BY <2>1, <1>4, <1>6
  <2>3. j - 1 \in DOMAIN stop' /\ (j - 1) + 1 = j
    BY <2>1, <2>2, <1>4
  <2> QED BY <2>1, <2>3, <1>5 DEF InStop
<1>7. \A j, k \in DOMAIN stop' : j # k => stop'[j] # stop'[k]
  <2> TAKE j, k \in DOMAIN stop'
  <2>1. j # k => j + 1 # k + 1
    BY <1>5
  <2> QED BY <2>1, <1>2, <1>5
<1>8. \A j \in DOMAIN stop' : stop'[j] # Head(stop)
  BY <1>2, <1>4, <1>5
<1> QED BY <1>2, <1>3, <1>4, <1>5, <1>6, <1>7, <1>8

LEMMA StopClientInv ==
  ASSUME ClientInv, StopAndFree
  PROVE  ClientInv'
<1> DEFINE h == Head(stop)
<1>1. ClientTypeOK /\ StopOK /\ LeftOfOldLoads /\ Regions
  BY DEF ClientInv
<1>2. /\ Stopping /\ pc \in {"undo", "cleanup"}
      /\ UNCHANGED <<load, pc, node, queue, cm_error, cm_done, rdev, servermr>>
      /\ qp' = qp \ {h} /\ cq' = cq \ {h}
      /\ cm_id' = [cm_id EXCEPT ![h] = "destroyed"]
  BY DEF StopAndFree, Freed, Stopping
<1>3. /\ h \in Id /\ LoadOf(h) = load
      /\ stop' \in Seq(Id)
      /\ \A id \in Id : InStop(id) => id = h \/ InStop(id)'
      /\ \A j \in DOMAIN stop' : \E k \in DOMAIN stop : k # 1 /\ stop'[j] = stop[k]
      /\ \A j \in DOMAIN stop' : stop'[j] # h
      /\ \A j, k \in DOMAIN stop' : j # k => stop'[j] # stop'[k]
  BY StopFacts
<1> HIDE DEF h
<1>4. cm_id'[h] = "destroyed" /\ \A id \in Id \ {h} : cm_id'[id] = cm_id[id]
  BY <1>1, <1>2, <1>3 DEF ClientTypeOK
<1>5. ClientTypeOK'
  BY <1>1, <1>2, <1>3 DEF ClientTypeOK
<1>6. ~Connecting' /\ ~Receiving' /\ ~Ended' /\ Stopping' /\ Current' = Current
  BY <1>2 DEF Connecting, Receiving, Ended, Stopping, Current
<1>7. ASSUME NEW id \in Id PROVE Position(id)' /\ QueuesOK(id)'
  <2>1. Position(id) /\ QueuesOK(id)
    BY DEF ClientInv
  <2>2. CASE id = h
    BY <2>2, <1>2, <1>3, <1>4, <1>6 DEF Position, QueuesOK
  <2>3. CASE id # h
    <3>1. /\ cm_id'[id] = cm_id[id] /\ (InStop(id) => InStop(id)')
          /\ id \in cq' <=> id \in cq
          /\ id \in qp' <=> id \in qp
      BY <2>3, <1>2, <1>3, <1>4
    <3>2. Position(id)'
      BY <3>1, <2>1, <1>2, <1>6 DEF Position
    <3>3. QueuesOK(id)'
      BY <3>1, <2>1, <1>2, <1>6 DEF QueuesOK
    <3> QED BY <3>2, <3>3
  <2> QED BY <2>2, <2>3
<1>8. StopOK'
  <2>1. ASSUME NEW j \in DOMAIN stop'
        PROVE  LoadOf(stop'[j]) = load /\ stop'[j] \in qp' /\ cm_id'[stop'[j]] = "connected"
    <3>1. PICK k \in DOMAIN stop : stop'[j] = stop[k]
      BY <1>3
    <3>2. LoadOf(stop[k]) = load /\ stop[k] \in qp /\ cm_id[stop[k]] = "connected"
          /\ stop[k] \in Id
      BY <1>1 DEF StopOK, StopsOnlyConnected, ClientTypeOK
    <3>3. stop[k] # h
      BY <3>1, <1>3
    <3> QED BY <3>1, <3>2, <3>3, <1>2, <1>4
  <2> QED BY <2>1, <1>2, <1>3, <1>6 DEF StopOK, StopsOnlyConnected
<1>9. LeftOfOldLoads' /\ Regions'
  BY <1>1, <1>2 DEF LeftOfOldLoads, Regions, Connecting
<1> QED BY <1>5, <1>7, <1>8, <1>9 DEF ClientInv

LEMMA StoppedClientInv ==
  ASSUME ClientInv, Stopped
  PROVE  ClientInv'
<1>1. ClientTypeOK /\ StopOK /\ LeftOfOldLoads /\ Regions
  BY DEF ClientInv
<1>2. /\ Stopping /\ stop = <<>>
      /\ (pc = "undo" /\ pc' = "failed") \/ (pc = "cleanup" /\ pc' = "unloaded")
      /\ UNCHANGED <<load, node, queue, stop, cm_id, cm_error, cm_done, cq, qp, rdev, servermr>>
  BY DEF Stopped, Stopping
<1>3. \A id \in Id : ~InStop(id)
  BY <1>2 DEF InStop
<1>4. ~Connecting' /\ ~Receiving' /\ ~Stopping' /\ Ended' /\ Current' = Current
  BY <1>2 DEF Connecting, Receiving, Stopping, Ended, Current
<1>5. ClientTypeOK'
  BY <1>1, <1>2 DEF ClientTypeOK
<1>6. ASSUME NEW id \in Id PROVE Position(id)' /\ QueuesOK(id)'
  <2>1. Position(id) /\ QueuesOK(id)
    BY DEF ClientInv
  <2>2. Position(id)'
    BY <2>1, <1>2, <1>3, <1>4 DEF Position
  <2>3. QueuesOK(id)'
    BY <2>1, <1>2, <1>3, <1>4 DEF QueuesOK
  <2> QED BY <2>2, <2>3
<1>7. StopOK' /\ LeftOfOldLoads' /\ Regions'
  BY <1>1, <1>2, <1>4
     DEF StopOK, StopsOnlyConnected, LeftOfOldLoads, Regions, Connecting
<1> QED BY <1>5, <1>6, <1>7 DEF ClientInv

LEMMA ReloadClientInv ==
  ASSUME ClientInv, LoadAgain
  PROVE  ClientInv'
<1>1. ClientTypeOK /\ StopOK /\ LeftOfOldLoads /\ load \in Nat
  BY CurrentFacts DEF ClientInv
<1>2. /\ Ended /\ pc \in {"failed", "unloaded"} /\ load < MaxLoads
      /\ load' = load + 1 /\ pc' = "init" /\ node' = 0 /\ queue' = 0
      /\ cm_id' = [id \in Id |-> "none"] /\ cm_error' = [id \in Id |-> "none"]
      /\ cm_done' = [id \in Id |-> FALSE] /\ servermr' = {}
      /\ UNCHANGED <<stop, cq, qp, rdev>>
  BY DEF LoadAgain, Ended
<1>3. /\ Connecting' /\ ~Receiving' /\ ~Stopping' /\ ~Ended' /\ ~Stopping
  BY <1>2 DEF Connecting, Receiving, Stopping, Ended
<1>4. ClientTypeOK'
  <2>1. load' \in Loads /\ node' \in Node /\ queue' \in Queue
    BY <1>1, <1>2, LinkAssumption DEF Loads, Node, Queue
  <2> QED BY <2>1, <1>1, <1>2 DEF ClientTypeOK
<1>5. ASSUME NEW id \in Id PROVE Position(id)'
  <2>1. ~Before(id, 0, 0)
    BY IdFacts DEF Before, Node, Queue
  <2>2. ~Before(id, node', queue')
    BY <2>1, <1>2
  <2>3. cm_id'[id] = "none" /\ ~(Before(id, node, queue))'
    BY <2>2, <1>2 DEF Before
  <2> QED BY <2>3, <1>2, <1>3 DEF Position
<1>6. ASSUME NEW id \in Id PROVE QueuesOK(id)'
  <2>1. QueuesOK(id) /\ Position(id) /\ LoadOf(id) \in Nat
    BY IdFacts DEF ClientInv, Loads
  <2>2. LoadOf(id) >= load + 1 => LoadOf(id) >= load /\ LoadOf(id) # load
    BY <2>1, <1>1
  <2> QED BY <2>1, <2>2, <1>2 DEF QueuesOK, Position
<1>7. StopOK'
  BY <1>1, <1>2, <1>3 DEF StopOK, StopsOnlyConnected
<1>8. LeftOfOldLoads'
  <2> SUFFICES ASSUME NEW a \in cq \cup qp, NEW b \in cq \cup qp,
                      LoadOf(a) = LoadOf(b), LoadOf(a) < load + 1
               PROVE  a = b
    BY <1>2 DEF LeftOfOldLoads
  <2>1. a \in Id /\ b \in Id /\ LoadOf(a) \in Nat
    BY <1>1, IdFacts DEF ClientTypeOK, Loads
  <2>2. CASE LoadOf(a) < load
    BY <2>2, <1>1 DEF LeftOfOldLoads
  <2>3. CASE LoadOf(a) = load
    <3>1. QueuesOK(a) /\ QueuesOK(b)
      BY <2>1 DEF ClientInv
    <3>2. a = Current /\ b = Current
      BY <3>1, <2>3, <1>2 DEF QueuesOK
    <3> QED BY <3>2
  <2> QED BY <2>1, <2>2, <2>3, <1>1
<1>9. Regions'
  BY <1>2 DEF Regions
<1> QED BY <1>4, <1>5, <1>6, <1>7, <1>8, <1>9 DEF ClientInv

LEMMA InitClientInv == Init => ClientInv
<1> SUFFICES ASSUME Init PROVE ClientInv
  OBVIOUS
<1>1. /\ load = 1 /\ pc = "init" /\ node = 0 /\ queue = 0 /\ stop = <<>>
      /\ cm_id = [id \in Id |-> "none"] /\ cm_error = [id \in Id |-> "none"]
      /\ cm_done = [id \in Id |-> FALSE] /\ cq = {} /\ qp = {} /\ rdev = {} /\ servermr = {}
  BY DEF Init, ClientInit
<1>2. ClientTypeOK
  <2>1. load \in Loads /\ node \in Node /\ queue \in Queue /\ stop \in Seq(Id)
    BY <1>1, LinkAssumption DEF Loads, Node, Queue
  <2> QED BY <2>1, <1>1 DEF ClientTypeOK
<1>3. ASSUME NEW id \in Id PROVE Position(id) /\ QueuesOK(id)
  <2>1. ~Before(id, node, queue) /\ cm_id[id] = "none"
    BY <1>1, IdFacts DEF Before, Node, Queue
  <2>2. Position(id)
    BY <2>1, <1>1 DEF Position, Connecting, Receiving, Stopping, Ended
  <2> QED BY <2>1, <2>2, <1>1 DEF QueuesOK
<1>4. StopOK /\ LeftOfOldLoads /\ Regions
  BY <1>1 DEF StopOK, StopsOnlyConnected, LeftOfOldLoads, Regions
<1> QED BY <1>2, <1>3, <1>4 DEF ClientInv

LEMMA StepClientInv ==
  ASSUME ClientInv, [Next]_vars
  PROVE  ClientInv'
<1>1. ASSUME UNCHANGED clientVars PROVE ClientInv'
  <2>1. UNCHANGED <<load, pc, node, queue, stop, cm_id, cm_error, cm_done, cq, qp, rdev, servermr>>
    BY <1>1 DEF clientVars
  <2>2. ClientTypeOK' /\ StopOK' /\ LeftOfOldLoads' /\ Regions'
    BY <2>1 DEF ClientInv, ClientTypeOK, StopOK, StopsOnlyConnected, Stopping,
                LeftOfOldLoads, Regions, Connecting
  <2>3. ASSUME NEW id \in Id PROVE Position(id)' /\ QueuesOK(id)'
    <3>1. Position(id) /\ QueuesOK(id)
      BY DEF ClientInv
    <3>2. Current' = Current /\ InStop(id)' = InStop(id)
      BY <2>1 DEF Current, InStop
    <3>3. Position(id)'
      BY <3>1, <3>2, <2>1 DEF Position, Connecting, Receiving, Stopping, Ended, Before
    <3> QED BY <3>1, <3>2, <3>3, <2>1 DEF QueuesOK
  <2> QED BY <2>2, <2>3 DEF ClientInv
<1>2. CASE Load
  BY <1>2, InitQueueClientInv, WaitClientInv, DestroyIdClientInv, RecvClientInv,
     UnloadClientInv, StopClientInv, StoppedClientInv DEF Load, LoadStep
<1>3. CASE Unload
  BY <1>3, UnloadClientInv DEF Unload
<1>4. CASE Reload
  BY <1>4, ReloadClientInv DEF Reload
<1>5. ASSUME NEW id \in Id, Handler(id) PROVE ClientInv'
  BY <1>5, HandlerClientInv DEF Handler
<1>6. ASSUME NEW id \in Id, Server(id) PROVE ClientInv'
  BY <1>6, <1>1 DEF Server
<1>7. ASSUME NEW n \in Node, RestartServer(n) PROVE ClientInv'
  BY <1>7, <1>1 DEF RestartServer
<1>8. CASE UNCHANGED vars
  BY <1>8, <1>1 DEF vars
<1> QED BY <1>2, <1>3, <1>4, <1>5, <1>6, <1>7, <1>8 DEF Next

-----------------------------------------------------------------------------
(* How many connections a server can take. *)

OfNode(n) == {id \in Id : NodeOf(id) = n}
OfLoad(n, g) == {id \in OfNode(n) : LoadOf(id) = g}

LEMMA OfNodeFinite ==
  ASSUME NEW n \in Node
  PROVE  /\ IsFiniteSet(OfNode(n)) /\ Cardinality(OfNode(n)) \in Nat
         /\ Cardinality(OfNode(n)) <= NumQueues * MaxLoads
<1> DEFINE f == [id \in OfNode(n) |-> <<QueueOf(id), LoadOf(id)>>]
<1>1. \A id \in OfNode(n) : QueueOf(id) \in Queue /\ LoadOf(id) \in Loads
  BY IdFacts DEF OfNode
<1>2. \A a, b \in OfNode(n) : f[a] = f[b] => a = b
  BY IdFacts DEF OfNode
<1>3. f \in Injection(OfNode(n), Queue \X Loads)
  BY <1>1, <1>2 DEF Injection, IsInjective
<1>4. /\ IsFiniteSet(Queue) /\ Cardinality(Queue) = NumQueues
      /\ IsFiniteSet(Loads) /\ Cardinality(Loads) = MaxLoads
  BY FS_Interval, LinkAssumption DEF Queue, Loads
<1>5. IsFiniteSet(Queue \X Loads) /\ Cardinality(Queue \X Loads) = NumQueues * MaxLoads
  BY <1>4, FS_Product
<1> HIDE DEF f
<1>6. /\ IsFiniteSet(OfNode(n))
      /\ Cardinality(OfNode(n)) <= Cardinality(Queue \X Loads)
  BY <1>3, <1>5, FS_Injection
<1> QED BY <1>5, <1>6, FS_CardinalityType

LEMMA OfLoadFinite ==
  ASSUME NEW n \in Node, NEW g \in Loads
  PROVE  /\ IsFiniteSet(OfLoad(n, g)) /\ Cardinality(OfLoad(n, g)) \in Nat
         /\ Cardinality(OfLoad(n, g)) <= NumQueues
<1> DEFINE f == [id \in OfLoad(n, g) |-> QueueOf(id)]
<1>1. \A id \in OfLoad(n, g) : QueueOf(id) \in Queue
  BY IdFacts DEF OfNode, OfLoad
<1>2. \A a, b \in OfLoad(n, g) : f[a] = f[b] => a = b
  BY IdFacts DEF OfNode, OfLoad
<1>3. f \in Injection(OfLoad(n, g), Queue)
  BY <1>1, <1>2 DEF Injection, IsInjective
<1>4. IsFiniteSet(Queue) /\ Cardinality(Queue) = NumQueues
  BY FS_Interval, LinkAssumption DEF Queue
<1> HIDE DEF f
<1>5. /\ IsFiniteSet(OfLoad(n, g))
      /\ Cardinality(OfLoad(n, g)) <= Cardinality(Queue)
  BY <1>3, <1>4, FS_Injection
<1> QED BY <1>4, <1>5, FS_CardinalityType

(* A part of a finite set that misses an element is smaller. *)
LEMMA SmallerPart ==
  ASSUME NEW S, IsFiniteSet(S), NEW T \in SUBSET S, NEW x \in S, x \notin T
  PROVE  /\ IsFiniteSet(T) /\ Cardinality(T) \in Nat
         /\ Cardinality(T) + 1 <= Cardinality(S)
<1>1. IsFiniteSet(T) /\ Cardinality(T) <= Cardinality(S)
      /\ (Cardinality(S) = Cardinality(T) => S = T)
  BY FS_Subset
<1>2. Cardinality(T) \in Nat /\ Cardinality(S) \in Nat
  BY <1>1, FS_CardinalityType
<1> QED BY <1>1, <1>2

LEMMA CellFacts ==
  /\ IsFiniteSet(Cell) /\ Cell \subseteq Nat
  /\ Cardinality(Cell) \in Nat /\ NumQueues * MaxLoads <= Cardinality(Cell)
  /\ NumQueues * MaxLoads \in Nat /\ 0 .. NumQueues * MaxLoads - 1 \subseteq Cell
<1> DEFINE m == NumQueues * MaxLoads
           S == 0 .. m - 1
<1>1. m \in Nat /\ ServerQueues \in Nat
  BY LinkAssumption, ProcsAssumption
<1> HIDE DEF m
<1>2. /\ IsFiniteSet(S) /\ Cardinality(S) = m
      /\ IsFiniteSet(0 .. ServerQueues - 1)
  BY <1>1, FS_Interval
<1>3. Cell = (0 .. ServerQueues - 1) \cup S
  BY DEF Cell, ServerQueue, m
<1>4. IsFiniteSet(Cell)
  BY <1>2, <1>3, FS_Union
<1>5. S \in SUBSET Cell
  BY <1>3
<1>6. Cardinality(S) <= Cardinality(Cell)
  BY <1>4, <1>5, FS_Subset
<1>7. Cell \subseteq Nat
  BY <1>1, <1>3
<1> USE DEF m
<1> QED BY <1>1, <1>2, <1>4, <1>5, <1>6, <1>7, FS_CardinalityType

(* The queue that a new connection gets. *)
LEMMA NextQueue ==
  ASSUME ServerInv, NEW c \in Id, context[c] = NoQueue
  PROVE  LET n == NodeOf(c) IN
         /\ queue_ctr[n] \in Cell
         /\ queue_ctr[n] + 1 \in 0 .. Cardinality(Cell)
<1> DEFINE n == NodeOf(c)
<1>1. n \in Node
  BY IdFacts
<1>2. c \in OfNode(n) /\ Taken(n) \in SUBSET OfNode(n) /\ c \notin Taken(n)
  BY DEF OfNode, Taken
<1>3. queue_ctr[n] = Cardinality(Taken(n))
  BY <1>1 DEF ServerInv, CountersOK
<1> HIDE DEF n
<1>4. Cardinality(Taken(n)) \in Nat /\ Cardinality(Taken(n)) + 1 <= Cardinality(OfNode(n))
  BY <1>1, <1>2, SmallerPart, OfNodeFinite
<1>5. queue_ctr[n] \in Nat /\ queue_ctr[n] + 1 <= NumQueues * MaxLoads
  BY <1>1, <1>3, <1>4, OfNodeFinite, CellFacts
<1>6. queue_ctr[n] \in 0 .. NumQueues * MaxLoads - 1
  BY <1>5, CellFacts
<1>7. queue_ctr[n] \in Cell /\ queue_ctr[n] + 1 \in 0 .. Cardinality(Cell)
  BY <1>5, <1>6, CellFacts
<1> QED BY <1>7 DEF n

-----------------------------------------------------------------------------
(* The servers' part of the invariant, in a step of the compute node. *)

ClientStep ==
  \/ Load \/ Unload
  \/ \E id \in Id : Handler(id)

(* What a step of the compute node says to the server over connection x.    *)
Says(x) ==
  /\ msgs[x] \subseteq msgs'[x]
  /\ msgs'[x] # msgs[x] => LoadOf(x) = load
  /\ "RTU" \in msgs'[x] /\ "RTU" \notin msgs[x] => cm_id'[x] = "connected"
  /\ \A m \in {"DREQ", "REJ"} :
       m \in msgs'[x] /\ m \notin msgs[x] => cm_id'[x] = "destroyed"
  /\ cm_id[x] = "connected" => cm_id'[x] = "connected" \/ "DREQ" \in msgs'[x]
  /\ cm_id[x] = "destroyed" => cm_id'[x] = "destroyed"

(* rdma_destroy_id. *)
LEMMA WithdrawFacts ==
  ASSUME CInv, NEW c \in Id, LoadOf(c) = load, Withdraw(c),
         cm_id' = [cm_id EXCEPT ![c] = "destroyed"]
  PROVE  /\ msgs' \in [Id -> SUBSET {"REQ", "RTU", "DREQ", "REJ"}]
         /\ \A x \in Id : Says(x)
<1>1. /\ msgs \in [Id -> SUBSET {"REQ", "RTU", "DREQ", "REJ"}]
      /\ cm_id \in [Id -> {"none", "addr", "route", "connect", "connected", "error", "destroyed"}]
  BY DEF CInv, ClientInv, ServerInv, LinkTypeOK, ClientTypeOK
<1>2. PICK M \in SUBSET {"DREQ", "REJ"} :
        /\ msgs' = [msgs EXCEPT ![c] = @ \cup M]
        /\ cm_id[c] = "connected" => "DREQ" \in M
  <2>1. msgs = [msgs EXCEPT ![c] = @ \cup {}]
    BY <1>1
  <2>2. CASE cm_id[c] = "connected"
    <3>1. msgs' = [msgs EXCEPT ![c] = @ \cup {"DREQ"}]
      BY <2>2 DEF Withdraw
    <3>2. {"DREQ"} \in SUBSET {"DREQ", "REJ"} /\ "DREQ" \in {"DREQ"}
      OBVIOUS
    <3> QED BY <3>1, <3>2
  <2>3. CASE cm_id[c] # "connected" /\ "REQ" \in msgs[c]
    <3>1. msgs' = [msgs EXCEPT ![c] = @ \cup {"REJ"}]
      BY <2>3 DEF Withdraw
    <3>2. {"REJ"} \in SUBSET {"DREQ", "REJ"}
      OBVIOUS
    <3> QED BY <3>1, <3>2, <2>3
  <2>4. CASE cm_id[c] # "connected" /\ "REQ" \notin msgs[c]
    <3>1. msgs' = msgs
      BY <2>4 DEF Withdraw
    <3>2. {} \in SUBSET {"DREQ", "REJ"}
      OBVIOUS
    <3> QED BY <3>1, <3>2, <2>1, <2>4
  <2> QED BY <2>2, <2>3, <2>4
<1>3. /\ msgs'[c] = msgs[c] \cup M /\ cm_id'[c] = "destroyed"
      /\ \A x \in Id \ {c} : msgs'[x] = msgs[x] /\ cm_id'[x] = cm_id[x]
  BY <1>1, <1>2
<1>4. msgs' \in [Id -> SUBSET {"REQ", "RTU", "DREQ", "REJ"}]
  BY <1>1, <1>2
<1>5. ASSUME NEW x \in Id PROVE Says(x)
  <2>1. CASE x = c
    BY <2>1, <1>2, <1>3 DEF Says
  <2>2. CASE x # c
    BY <2>2, <1>3 DEF Says
  <2> QED BY <2>1, <2>2
<1> QED BY <1>4, <1>5

LEMMA SendFacts ==
  ASSUME CInv, NEW c \in Id, LoadOf(c) = load, NEW m \in {"REQ", "RTU"}, Send(c, m),
         NEW to \in {"connect", "connected"}, m = "RTU" => to = "connected",
         cm_id[c] \in {"route", "connect"}, cm_id' = [cm_id EXCEPT ![c] = to]
  PROVE  /\ msgs' \in [Id -> SUBSET {"REQ", "RTU", "DREQ", "REJ"}]
         /\ \A x \in Id : Says(x)
<1>1. /\ msgs \in [Id -> SUBSET {"REQ", "RTU", "DREQ", "REJ"}]
      /\ cm_id \in [Id -> {"none", "addr", "route", "connect", "connected", "error", "destroyed"}]
  BY DEF CInv, ClientInv, ServerInv, LinkTypeOK, ClientTypeOK
<1>2. msgs' = [msgs EXCEPT ![c] = @ \cup {m}]
  BY DEF Send
<1>3. /\ msgs'[c] = msgs[c] \cup {m} /\ cm_id'[c] = to
      /\ \A x \in Id \ {c} : msgs'[x] = msgs[x] /\ cm_id'[x] = cm_id[x]
  BY <1>1, <1>2
<1>4. msgs' \in [Id -> SUBSET {"REQ", "RTU", "DREQ", "REJ"}]
  BY <1>1, <1>2
<1>5. ASSUME NEW x \in Id PROVE Says(x)
  <2>1. CASE x = c
    BY <2>1, <1>3 DEF Says
  <2>2. CASE x # c
    BY <2>2, <1>3 DEF Says
  <2> QED BY <2>1, <2>2
<1> QED BY <1>4, <1>5

(* Saying nothing. *)
LEMMA Silent ==
  ASSUME CInv, UNCHANGED msgs,
         \A x \in Id : cm_id[x] \in {"connected", "destroyed"} => cm_id'[x] = cm_id[x]
  PROVE  /\ msgs' \in [Id -> SUBSET {"REQ", "RTU", "DREQ", "REJ"}]
         /\ \A x \in Id : Says(x)
BY DEF CInv, ServerInv, LinkTypeOK, Says

LEMMA HandlerSays ==
  ASSUME CInv, NEW c \in Id, CmHandler(c)
  PROVE  /\ msgs' \in [Id -> SUBSET {"REQ", "RTU", "DREQ", "REJ"}]
         /\ \A x \in Id : Says(x)
         /\ UNCHANGED <<peer, sent>>
<1>1. LoadOf(c) = load /\ cm_id[c] \in {"addr", "route", "connect"}
  BY HandlerFacts DEF CInv
<1>2. CASE UNCHANGED linkVars
  <2>1. \A x \in Id \ {c} : cm_id'[x] = cm_id[x]
    BY HandlerFacts DEF CInv, ClientInv, ClientTypeOK
  <2> QED BY <2>1, <1>1, <1>2, Silent DEF linkVars
<1>3. CASE RouteResolved(c)
  <2>1. /\ Send(c, "REQ") /\ UNCHANGED <<peer, sent>> /\ cm_id[c] = "route"
        /\ cm_id' = [cm_id EXCEPT ![c] = "connect"]
    BY <1>3 DEF RouteResolved, Advance
  <2> QED BY <2>1, <1>1, SendFacts
<1>4. CASE Established(c)
  <2>1. /\ Send(c, "RTU") /\ UNCHANGED <<peer, sent>> /\ cm_id[c] = "connect"
        /\ cm_id' = [cm_id EXCEPT ![c] = "connected"]
    BY <1>4 DEF Established, Advance
  <2> QED BY <2>1, <1>1, SendFacts
<1> QED BY <1>2, <1>3, <1>4 DEF CmHandler, AddrResolved, AddrResolvedFails,
           ResolveRouteFails, ConnectFails, CmErrorEvent, Rejected

LEMMA ClientFacts ==
  ASSUME CInv, ClientStep
  PROVE  /\ LinkTypeOK' /\ \A x \in Id : Says(x)
         /\ UNCHANGED <<load, peer, sent, serverVars>>
         /\ Ended => Ended'
         /\ Connecting' \/ Receiving' => Connecting \/ Receiving
         /\ \A n \in servermr' : n \in servermr \/ <<n, 0, load>> \in sent[n]
<1>1. /\ ClientTypeOK /\ LinkTypeOK
      /\ Current \in Id /\ LoadOf(Current) = load
      /\ pc \in {"init", "wait", "destroy", "recv", "poll", "gctrl", "ready", "oops",
                 "undo", "cleanup", "failed", "unloaded"}
  BY CurrentFacts DEF CInv, ClientInv, ServerInv, ClientTypeOK
<1>2. UNCHANGED serverVars
  BY DEF ClientStep, Load, Unload, Handler
<1> DEFINE Result ==
      /\ msgs' \in [Id -> SUBSET {"REQ", "RTU", "DREQ", "REJ"}] /\ \A x \in Id : Says(x)
      /\ UNCHANGED <<load, peer, sent>>
      /\ Ended => Ended'
      /\ Connecting' \/ Receiving' => Connecting \/ Receiving
      /\ \A n \in servermr' : n \in servermr \/ <<n, 0, load>> \in sent[n]
<1>3. ASSUME InitQueue PROVE Result
  <2>1. /\ pc = "init" /\ pc' = "wait" /\ cm_id' = [cm_id EXCEPT ![Current] = "addr"]
        /\ UNCHANGED <<load, servermr, linkVars>>
    BY <1>3 DEF InitQueue
  <2>2. cm_id[Current] \notin {"connected", "destroyed"}
    BY <2>1, <1>1, CurrentFacts, ConnectingFacts DEF CInv, Connecting
  <2>3. \A x \in Id : cm_id[x] \in {"connected", "destroyed"} => cm_id'[x] = cm_id[x]
    BY <2>1, <2>2, <1>1 DEF ClientTypeOK
  <2>4. UNCHANGED msgs
    BY <2>1 DEF linkVars
  <2>5. /\ msgs' \in [Id -> SUBSET {"REQ", "RTU", "DREQ", "REJ"}] /\ \A x \in Id : Says(x)
    BY <2>3, <2>4, Silent
  <2> QED BY <2>1, <2>5 DEF Ended, Connecting, Receiving, linkVars
<1>4. ASSUME \/ InitQueueFails \/ WaitForCm \/ WaitForCmFails \/ PostRecv \/ PostRecvFails
             \/ CreateGctrl \/ NoMemory \/ Stopped \/ CleanupModule
      PROVE  Result
  <2>1. UNCHANGED <<load, servermr, cm_id, linkVars>>
    BY <1>4 DEF InitQueueFails, WaitForCm, WaitForCmFails, PostRecv, PostRecvFails, Stopped,
                CreateGctrl, NoMemory, CleanupModule
  <2>2. (Ended => Ended') /\ (Connecting' \/ Receiving' => Connecting \/ Receiving)
    BY <1>4 DEF InitQueueFails, WaitForCm, WaitForCmFails, PostRecv, PostRecvFails, Stopped,
                CreateGctrl, NoMemory, CleanupModule, FailAt, Ended, Connecting, Receiving
  <2>3. UNCHANGED msgs
    BY <2>1 DEF linkVars
  <2>4. /\ msgs' \in [Id -> SUBSET {"REQ", "RTU", "DREQ", "REJ"}] /\ \A x \in Id : Says(x)
    BY <2>1, <2>3, Silent
  <2> QED BY <2>1, <2>2, <2>4 DEF linkVars
<1>5. ASSUME RecvRemoteMr PROVE Result
  <2>1. /\ UNCHANGED <<load, cm_id, linkVars>> /\ pc = "poll" /\ pc' \in {"gctrl", "recv"}
        /\ servermr' = servermr \cup {node} /\ <<node, 0, load>> \in sent[node]
    BY <1>5 DEF RecvRemoteMr
  <2>2. UNCHANGED msgs
    BY <2>1 DEF linkVars
  <2>3. /\ msgs' \in [Id -> SUBSET {"REQ", "RTU", "DREQ", "REJ"}] /\ \A x \in Id : Says(x)
    BY <2>1, <2>2, Silent
  <2> QED BY <2>1, <2>3 DEF Ended, Connecting, Receiving, linkVars
<1>6. ASSUME DestroyId PROVE Result
  <2>1. /\ pc = "destroy" /\ pc' = "undo" /\ Withdraw(Current)
        /\ cm_id' = [cm_id EXCEPT ![Current] = "destroyed"]
        /\ UNCHANGED <<load, servermr, peer, sent>>
    BY <1>6 DEF DestroyId, FailAt
  <2>2. /\ msgs' \in [Id -> SUBSET {"REQ", "RTU", "DREQ", "REJ"}] /\ \A x \in Id : Says(x)
    BY <2>1, <1>1, WithdrawFacts
  <2> QED BY <2>1, <2>2 DEF Ended, Connecting, Receiving
<1>7. ASSUME StopAndFree PROVE Result
  <2>1. /\ pc' = pc /\ Withdraw(Head(stop))
        /\ cm_id' = [cm_id EXCEPT ![Head(stop)] = "destroyed"]
        /\ UNCHANGED <<load, servermr, peer, sent>>
    BY <1>7 DEF StopAndFree
  <2>2. Head(stop) \in Id /\ LoadOf(Head(stop)) = load
    BY <1>7, StopFacts DEF CInv
  <2>3. /\ msgs' \in [Id -> SUBSET {"REQ", "RTU", "DREQ", "REJ"}] /\ \A x \in Id : Says(x)
    BY <2>1, <2>2, WithdrawFacts
  <2> QED BY <2>1, <2>3 DEF Ended, Connecting, Receiving
<1>8. ASSUME NEW c \in Id, CmHandler(c) PROVE Result
  <2>1. UNCHANGED <<load, pc, servermr>>
    BY <1>8, HandlerFacts DEF CInv
  <2> QED BY <2>1, <1>8, HandlerSays DEF Ended, Connecting, Receiving
<1>9. Result
  BY <1>3, <1>4, <1>5, <1>6, <1>7, <1>8
     DEF ClientStep, Load, LoadStep, Unload, Handler
<1> QED BY <1>1, <1>2, <1>9 DEF LinkTypeOK

LEMMA ServerFrame ==
  ASSUME ServerInv, UNCHANGED <<serverVars, peer>>
  PROVE  /\ UNCHANGED <<queue_ctr, context, state, accepting, mr_buffer, process>>
         /\ ServerTypeOK' /\ CountersOK' /\ QueuesNotShared'
         /\ \A id \in Id : ContextOK(id)'
<1>1. UNCHANGED <<queue_ctr, context, state, accepting, mr_buffer, process, peer>>
  BY DEF serverVars
<1>2. ServerTypeOK' /\ QueuesNotShared'
  BY <1>1 DEF ServerInv, ServerTypeOK, QueuesNotShared
<1>3. CountersOK'
  BY <1>1 DEF ServerInv, CountersOK, Taken
<1>4. \A id \in Id : ContextOK(id)'
  BY <1>1 DEF ServerInv, ContextOK
<1> QED BY <1>1, <1>2, <1>3, <1>4

LEMMA ClientServerInv ==
  ASSUME CInv, ClientStep
  PROVE  ServerInv'
<1>1. /\ LinkTypeOK' /\ \A x \in Id : Says(x)
      /\ UNCHANGED <<load, peer, sent, serverVars>>
      /\ Ended => Ended'
      /\ Connecting' \/ Receiving' => Connecting \/ Receiving
      /\ \A n \in servermr' : n \in servermr \/ <<n, 0, load>> \in sent[n]
  BY ClientFacts
<1>2. ServerInv /\ load \in Nat
  BY CurrentFacts DEF CInv, ClientInv
<1>3. /\ UNCHANGED <<queue_ctr, context, state, accepting, mr_buffer, process>>
      /\ ServerTypeOK' /\ CountersOK' /\ QueuesNotShared'
      /\ \A id \in Id : ContextOK(id)'
  BY <1>1, <1>2, ServerFrame
<1>4. ASSUME NEW x \in Id PROVE MessagesOK(x)'
  <2>1. MessagesOK(x) /\ Says(x) /\ LoadOf(x) \in Nat
    BY <1>1, IdFacts DEF CInv, ServerInv, Loads
  <2>2. "RTU" \in msgs'[x] => cm_id'[x] = "connected" \/ "DREQ" \in msgs'[x]
    BY <2>1 DEF MessagesOK, Says
  <2>3. "DREQ" \in msgs'[x] \/ "REJ" \in msgs'[x] => LoadOf(x) < load \/ cm_id'[x] = "destroyed"
    BY <2>1 DEF MessagesOK, Says
  <2>4. LoadOf(x) > load =>
          /\ msgs'[x] = {} /\ peer[x] = "none" /\ context[x] = NoQueue
          /\ \A n \in Node : x \notin sent[n]
    BY <2>1, <1>2 DEF MessagesOK, Says
  <2> QED BY <2>2, <2>3, <2>4, <1>1, <1>3 DEF MessagesOK
<1>5. LoadsInOrder'
  <2> SUFFICES ASSUME NEW a \in Id, NEW b \in Id, NodeOf(a) = NodeOf(b),
                      LoadOf(a) < LoadOf(b), context[b] # NoQueue
               PROVE  /\ context[a] # NoQueue => context[a] < context[b]
                      /\ "REQ" \in msgs'[a] => peer[a] # "none"
    BY <1>1, <1>3 DEF LoadsInOrder
  <2>1. /\ context[a] # NoQueue => context[a] < context[b]
        /\ "REQ" \in msgs[a] => peer[a] # "none"
    BY <1>2 DEF ServerInv, LoadsInOrder
  <2>2. MessagesOK(b) /\ LoadOf(a) \in Nat /\ LoadOf(b) \in Nat
    BY <1>2, IdFacts DEF ServerInv, Loads
  <2>3. LoadOf(a) # load
    BY <2>2, <1>2 DEF MessagesOK
  <2> QED BY <2>1, <2>3, <1>1 DEF Says
<1>6. RegionsFromQueue0'
  BY <1>1, <1>2, <1>3 DEF ServerInv, RegionsFromQueue0
<1>7. ServersStay'
  BY <1>1, <1>2, <1>3 DEF ServerInv, ServersStay
<1> QED BY <1>1, <1>3, <1>4, <1>5, <1>6, <1>7 DEF ServerInv

LEMMA ReloadServerInv ==
  ASSUME CInv, Reload
  PROVE  ServerInv'
<1>1. /\ Ended /\ load' = load + 1 /\ servermr' = {} /\ load \in Nat
      /\ cm_id' = [id \in Id |-> "none"]
      /\ UNCHANGED <<linkVars, serverVars>>
  BY CurrentFacts DEF Reload, LoadAgain, Ended, CInv, ClientInv
<1>2. ServerInv /\ UNCHANGED <<msgs, peer, sent>>
  BY <1>1 DEF CInv, linkVars
<1>3. /\ UNCHANGED <<queue_ctr, context, state, accepting, mr_buffer, process>>
      /\ ServerTypeOK' /\ CountersOK' /\ QueuesNotShared'
      /\ \A id \in Id : ContextOK(id)'
  BY <1>1, <1>2, ServerFrame
<1>4. ASSUME NEW x \in Id
      PROVE  /\ MessagesOK(x)'
             /\ LoadOf(x) = load' => /\ context[x] = NoQueue
                                     /\ \A n \in Node : x \notin sent[n]
  <2>1. MessagesOK(x) /\ Position(x) /\ LoadOf(x) \in Nat
    BY IdFacts DEF CInv, ClientInv, ServerInv, Loads
  <2>2. cm_id[x] # "connected"
    BY <2>1, <1>1 DEF Position
  <2>3. "RTU" \in msgs[x] => "DREQ" \in msgs[x]
    BY <2>1, <2>2 DEF MessagesOK
  <2>4. LoadOf(x) >= load + 1 =>
          /\ msgs[x] = {} /\ peer[x] = "none" /\ context[x] = NoQueue
          /\ \A n \in Node : x \notin sent[n]
    BY <2>1, <1>1 DEF MessagesOK
  <2>5. "DREQ" \in msgs[x] \/ "REJ" \in msgs[x] => LoadOf(x) < load + 1
    BY <2>1, <2>4, <1>1
  <2> QED BY <2>1, <2>3, <2>4, <2>5, <1>1, <1>2, <1>3 DEF MessagesOK
<1>5. LinkTypeOK' /\ LoadsInOrder'
  BY <1>2, <1>3 DEF ServerInv, LinkTypeOK, LoadsInOrder
<1>6. RegionsFromQueue0'
  <2>1. \A n \in Node : \A id \in sent[n] : LoadOf(id) # load'
    BY <1>2, <1>4 DEF ServerInv, LinkTypeOK
  <2> QED BY <2>1, <1>1, <1>2 DEF RegionsFromQueue0
<1>7. ServersStay'
  BY <1>3, <1>4, ProcsAssumption DEF ServersStay
<1> QED BY <1>2, <1>3, <1>4, <1>5, <1>6, <1>7 DEF ServerInv

LEMMA RestartServerInv ==
  ASSUME CInv, NEW n \in Node, RestartServer(n)
  PROVE  ServerInv'
<1> DEFINE before(id) == NodeOf(id) = n /\ LoadOf(id) <= load
<1>1. /\ Ended /\ Ended' /\ load' = load /\ cm_id' = cm_id /\ sent' = sent
      /\ queue_ctr' = [queue_ctr EXCEPT ![n] = 0]
      /\ context' = [id \in Id |-> IF before(id) THEN NoQueue ELSE context[id]]
      /\ state' = [state EXCEPT ![n] = [k \in Cell |-> "INIT"]]
      /\ accepting' = [accepting EXCEPT ![n] = 0]
      /\ mr_buffer' = [mr_buffer EXCEPT ![n] = FALSE]
      /\ process' = [process EXCEPT ![n] = "up"]
      /\ peer' = [id \in Id |-> IF before(id) THEN "closed" ELSE peer[id]]
      /\ msgs' = [id \in Id |-> IF before(id) THEN {} ELSE msgs[id]]
  BY DEF RestartServer, StartServer, clientVars, Ended
<1>2. ServerInv /\ load \in Nat /\ ServerTypeOK /\ LinkTypeOK
  BY CurrentFacts DEF CInv, ClientInv, ServerInv
<1>3. LinkTypeOK'
  BY <1>1, <1>2 DEF LinkTypeOK
<1>4. ServerTypeOK'
  <2>1. 0 \in 0 .. Cardinality(Cell) /\ 0 \in 0 .. ServerQueues
    BY CellFacts, ProcsAssumption
  <2> QED BY <2>1, <1>1, <1>2 DEF ServerTypeOK
<1>5. ASSUME NEW x \in Id, NodeOf(x) = n
      PROVE  /\ context'[x] = NoQueue /\ msgs'[x] = {}
             /\ peer'[x] = "closed" \/ peer'[x] = "none"
             /\ LoadOf(x) > load => peer'[x] = "none"
  <2>1. MessagesOK(x) /\ LoadOf(x) \in Nat
    BY <1>2, IdFacts DEF ServerInv, Loads
  <2>2. CASE LoadOf(x) <= load
    BY <2>1, <2>2, <1>1, <1>2, <1>5
  <2>3. CASE LoadOf(x) > load
    BY <2>1, <2>3, <1>1, <1>2, <1>5 DEF MessagesOK
  <2> QED BY <2>1, <2>2, <2>3, <1>2
<1>6. ASSUME NEW x \in Id, NodeOf(x) # n
      PROVE  context'[x] = context[x] /\ msgs'[x] = msgs[x] /\ peer'[x] = peer[x]
  BY <1>1, <1>6
<1>7. ASSUME NEW x \in Id PROVE MessagesOK(x)' /\ ContextOK(x)'
  <2>1. MessagesOK(x) /\ ContextOK(x) /\ NodeOf(x) \in Node
    BY <1>2, IdFacts DEF ServerInv
  <2>2. CASE NodeOf(x) = n
    <3>1. ContextOK(x)'
      BY <2>2, <1>5 DEF ContextOK
    <3>2. MessagesOK(x)'
      BY <2>1, <2>2, <1>1, <1>5 DEF MessagesOK
    <3> QED BY <3>1, <3>2
  <2>3. CASE NodeOf(x) # n
    <3>1. queue_ctr'[NodeOf(x)] = queue_ctr[NodeOf(x)]
      BY <2>1, <2>3, <1>1, <1>2 DEF ServerTypeOK
    <3> QED BY <3>1, <2>1, <2>3, <1>1, <1>6 DEF MessagesOK, ContextOK
  <2> QED BY <2>2, <2>3
<1>8. CountersOK'
  <2> SUFFICES ASSUME NEW m \in Node
               PROVE  /\ queue_ctr'[m] = Cardinality(Taken(m)')
                      /\ \A k \in Cell : k >= queue_ctr'[m] => state'[m][k] = "INIT"
    BY DEF CountersOK
  <2>1. CASE m = n
    <3>1. Taken(m)' = {}
      BY <2>1, <1>5 DEF Taken
    <3>2. queue_ctr'[m] = 0 /\ state'[m] = [k \in Cell |-> "INIT"]
      BY <2>1, <1>1, <1>2 DEF ServerTypeOK
    <3> QED BY <3>1, <3>2, FS_EmptySet
  <2>2. CASE m # n
    <3>1. Taken(m)' = Taken(m)
      BY <2>2, <1>6 DEF Taken
    <3>2. queue_ctr'[m] = queue_ctr[m] /\ state'[m] = state[m]
      BY <2>2, <1>1, <1>2 DEF ServerTypeOK
    <3> QED BY <3>1, <3>2, <1>2 DEF ServerInv, CountersOK
  <2> QED BY <2>1, <2>2
<1>9. QueuesNotShared'
  <2> SUFFICES ASSUME NEW x \in Id
               PROVE  /\ peer'[x] = "accepted" => state'[NodeOf(x)][context'[x]] = "INIT"
                      /\ \A other \in Id \ {x} :
                           /\ NodeOf(x) = NodeOf(other)
                           /\ context'[x] # NoQueue /\ context'[other] # NoQueue
                           => context'[x] # context'[other]
    BY DEF QueuesNotShared
  <2>1. CASE NodeOf(x) = n
    BY <2>1, <1>5
  <2>2. CASE NodeOf(x) # n
    <3>1. state'[NodeOf(x)] = state[NodeOf(x)]
      BY <2>2, <1>1, <1>2, IdFacts DEF ServerTypeOK
    <3>2. \A other \in Id \ {x} : NodeOf(x) = NodeOf(other) => context'[other] = context[other]
      BY <2>2, <1>6
    <3> QED BY <3>1, <3>2, <2>2, <1>2, <1>6 DEF ServerInv, QueuesNotShared
  <2> QED BY <2>1, <2>2
<1>10. LoadsInOrder'
  <2> SUFFICES ASSUME NEW a \in Id, NEW b \in Id, NodeOf(a) = NodeOf(b),
                      LoadOf(a) < LoadOf(b), context'[b] # NoQueue
               PROVE  /\ context'[a] # NoQueue => context'[a] < context'[b]
                      /\ "REQ" \in msgs'[a] => peer'[a] # "none"
    BY DEF LoadsInOrder
  <2>1. NodeOf(a) # n /\ NodeOf(b) # n
    BY <1>5
  <2> QED BY <2>1, <1>2, <1>6 DEF ServerInv, LoadsInOrder
<1>11. RegionsFromQueue0' /\ ServersStay'
  BY <1>1 DEF RegionsFromQueue0, ServersStay, Ended, Connecting, Receiving
<1> QED BY <1>3, <1>4, <1>7, <1>8, <1>9, <1>10, <1>11 DEF ServerInv

-----------------------------------------------------------------------------
(* The servers' part of the invariant, in a step of a server. *)

(* accepting counts the first loop of the process. *)
LEMMA CountTypes ==
  ASSUME ServerTypeOK, NEW n \in Node, NEW result, Count(n, result)
  PROVE  accepting' \in [Node -> 0 .. ServerQueues]
<1>1. accepting \in [Node -> 0 .. ServerQueues] /\ ServerQueues \in Nat
  BY ProcsAssumption DEF ServerTypeOK
<1>2. CASE accepting[n] < ServerQueues
  <2>1. accepting[n] + 1 \in 0 .. ServerQueues
    BY <1>1, <1>2
  <2> QED BY <2>1, <1>1 DEF Count
<1>3. CASE ~(accepting[n] < ServerQueues)
  BY <1>1, <1>3 DEF Count
<1> QED BY <1>2, <1>3

LEMMA RequestServerInv ==
  ASSUME CInv, NEW c \in Id, OnConnectRequest(c), UNCHANGED clientVars
  PROVE  ServerInv'
<1> DEFINE n == NodeOf(c)
           k == queue_ctr[n]
<1>1. ServerInv /\ ServerTypeOK /\ LinkTypeOK /\ load \in Nat /\ n \in Node
  BY CurrentFacts, IdFacts DEF CInv, ClientInv, ServerInv
<1>2. /\ process[n] = "up" /\ peer[c] = "none" /\ "REQ" \in msgs[c]
      /\ \A old \in Id :
           /\ NodeOf(old) = n /\ LoadOf(old) < LoadOf(c)
           /\ "REQ" \in msgs[old]
           => peer[old] # "none"
      /\ context' = [context EXCEPT ![c] = k]
      /\ queue_ctr' = [queue_ctr EXCEPT ![n] = @ + 1]
      /\ mr_buffer' = [mr_buffer EXCEPT ![n] = TRUE]
      /\ peer' = [peer EXCEPT ![c] = "accepted"]
      /\ UNCHANGED <<state, process, msgs, sent, load, pc, cm_id, servermr>>
      /\ Count(n, 0)
  BY DEF OnConnectRequest, Up, Requested, TakeQueue, SetPeer, clientVars
<1>3. ContextOK(c) /\ MessagesOK(c) /\ context[c] = NoQueue /\ ~(LoadOf(c) > load)
  <2>1. ContextOK(c) /\ MessagesOK(c)
    BY <1>1 DEF ServerInv
  <2> QED BY <2>1, <1>2 DEF ContextOK, MessagesOK
<1>4. k \in Cell /\ k \in Nat /\ k + 1 \in 0 .. Cardinality(Cell) /\ k # NoQueue
  BY <1>1, <1>3, NextQueue, CellFacts, ProcsAssumption
<1> HIDE DEF n, k
<1>5. /\ context'[c] = k /\ peer'[c] = "accepted"
      /\ \A x \in Id \ {c} : context'[x] = context[x] /\ peer'[x] = peer[x]
      /\ queue_ctr[n] = k /\ queue_ctr'[n] = k + 1
      /\ \A m \in Node \ {n} : queue_ctr'[m] = queue_ctr[m]
  BY <1>1, <1>2 DEF LinkTypeOK, ServerTypeOK, k
<1>6. LinkTypeOK'
  BY <1>1, <1>2 DEF LinkTypeOK
<1>7. ServerTypeOK'
  <2>1. accepting' \in [Node -> 0 .. ServerQueues]
    BY <1>1, <1>2, CountTypes
  <2>2. queue_ctr' \in [Node -> 0 .. Cardinality(Cell)]
    <3>1. queue_ctr' = [queue_ctr EXCEPT ![n] = k + 1]
      BY <1>2 DEF k
    <3> QED BY <3>1, <1>1, <1>4 DEF ServerTypeOK
  <2> QED BY <2>1, <2>2, <1>1, <1>2, <1>4 DEF ServerTypeOK
<1>8. NodeOf(c) = n
  BY DEF n
(* A queue that has been given out is below the counter. *)
<1>9. ASSUME NEW x \in Id, NodeOf(x) = n, context[x] # NoQueue
      PROVE  context[x] \in Nat /\ context[x] < k
  <2>1. context[x] \in Nat
    BY <1>1, <1>9, CellFacts DEF ServerTypeOK
  <2> QED BY <2>1, <1>1, <1>5, <1>9 DEF ServerInv, ContextOK
<1>10. ASSUME NEW x \in Id PROVE MessagesOK(x)' /\ ContextOK(x)'
  <2>1. MessagesOK(x) /\ ContextOK(x) /\ NodeOf(x) \in Node
    BY <1>1, IdFacts DEF ServerInv
  <2>2. CASE x = c
    <3>1. ContextOK(x)'
      BY <2>2, <1>4, <1>5, <1>8 DEF ContextOK
    <3>2. MessagesOK(x)'
      BY <2>1, <2>2, <1>2, <1>3 DEF MessagesOK
    <3> QED BY <3>1, <3>2
  <2>3. CASE x # c
    <3>1. MessagesOK(x)'
      BY <2>1, <2>3, <1>2, <1>5 DEF MessagesOK
    <3>2. ASSUME NodeOf(x) = n PROVE ContextOK(x)'
      BY <3>2, <2>1, <2>3, <1>4, <1>5, <1>9 DEF ContextOK
    <3>3. ASSUME NodeOf(x) # n PROVE ContextOK(x)'
      BY <3>3, <2>1, <2>3, <1>5 DEF ContextOK
    <3> QED BY <3>1, <3>2, <3>3
  <2> QED BY <2>2, <2>3
<1>11. CountersOK'
  <2> SUFFICES ASSUME NEW m \in Node
               PROVE  /\ queue_ctr'[m] = Cardinality(Taken(m)')
                      /\ \A q \in Cell : q >= queue_ctr'[m] => state'[m][q] = "INIT"
    BY DEF CountersOK
  <2>1. /\ queue_ctr[m] = Cardinality(Taken(m))
        /\ \A q \in Cell : q >= queue_ctr[m] => state[m][q] = "INIT"
    BY <1>1 DEF ServerInv, CountersOK
  <2>2. CASE m = n
    <3>1. Taken(m)' = Taken(m) \cup {c} /\ c \notin Taken(m)
      BY <2>2, <1>3, <1>4, <1>5, <1>8 DEF Taken
    <3>2. IsFiniteSet(Taken(m))
      <4>1. Taken(m) \in SUBSET OfNode(m)
        BY DEF Taken, OfNode
      <4> QED BY <4>1, OfNodeFinite, FS_Subset
    <3>3. Cardinality(Taken(m)') = k + 1
      <4>1. Cardinality(Taken(m) \cup {c}) = Cardinality(Taken(m)) + 1
        BY <3>1, <3>2, FS_AddElement
      <4> QED BY <4>1, <3>1, <2>1, <2>2, <1>5
    <3>4. \A q \in Cell : q >= k + 1 => q >= k
      BY <1>4, CellFacts
    <3> QED BY <3>3, <3>4, <2>1, <2>2, <1>2, <1>5
  <2>3. CASE m # n
    <3>1. Taken(m)' = Taken(m)
      BY <2>3, <1>5, <1>8 DEF Taken
    <3> QED BY <3>1, <2>1, <2>3, <1>2, <1>5
  <2> QED BY <2>2, <2>3
<1>12. QueuesNotShared'
  <2>1. state[n][k] = "INIT"
    BY <1>1, <1>4, <1>5 DEF ServerInv, CountersOK
  <2> SUFFICES ASSUME NEW x \in Id
               PROVE  /\ peer'[x] = "accepted" => state[NodeOf(x)][context'[x]] = "INIT"
                      /\ \A other \in Id \ {x} :
                           /\ NodeOf(x) = NodeOf(other)
                           /\ context'[x] # NoQueue /\ context'[other] # NoQueue
                           => context'[x] # context'[other]
    BY <1>2 DEF QueuesNotShared
  <2>2. CASE x = c
    BY <2>1, <2>2, <1>4, <1>5, <1>8, <1>9
  <2>3. CASE x # c
    <3>1. peer'[x] = "accepted" => state[NodeOf(x)][context'[x]] = "INIT"
      BY <2>3, <1>1, <1>5 DEF ServerInv, QueuesNotShared
    <3>2. ASSUME NEW other \in Id \ {x}, NodeOf(x) = NodeOf(other),
                 context'[x] # NoQueue, context'[other] # NoQueue
          PROVE  context'[x] # context'[other]
      <4>1. CASE other = c
        BY <4>1, <3>2, <2>3, <1>4, <1>5, <1>8, <1>9
      <4>2. CASE other # c
        BY <4>2, <3>2, <2>3, <1>1, <1>5 DEF ServerInv, QueuesNotShared
      <4> QED BY <4>1, <4>2
    <3> QED BY <3>1, <3>2
  <2> QED BY <2>2, <2>3
<1>13. LoadsInOrder'
  <2> SUFFICES ASSUME NEW a \in Id, NEW b \in Id, NodeOf(a) = NodeOf(b),
                      LoadOf(a) < LoadOf(b), context'[b] # NoQueue
               PROVE  /\ context'[a] # NoQueue => context'[a] < context'[b]
                      /\ "REQ" \in msgs[a] => peer'[a] # "none"
    BY <1>2 DEF LoadsInOrder
  <2>1. LoadOf(a) \in Nat /\ LoadOf(b) \in Nat
    BY IdFacts DEF Loads
  <2>2. a # b
    BY <2>1
  <2>3. CASE b = c
    <3>1. context'[a] = context[a] /\ peer'[a] = peer[a] /\ context'[b] = k
      BY <2>2, <2>3, <1>5
    <3> QED BY <3>1, <2>3, <1>2, <1>8, <1>9
  <2>4. CASE a = c
    <3>1. context[b] # NoQueue
      BY <2>2, <2>4, <1>5
    <3>2. peer[c] # "none"
      BY <3>1, <2>4, <1>1, <1>2 DEF ServerInv, LoadsInOrder
    <3> QED BY <3>2, <1>2
  <2>5. CASE a # c /\ b # c
    BY <2>5, <1>1, <1>5 DEF ServerInv, LoadsInOrder
  <2> QED BY <2>3, <2>4, <2>5
<1>14. RegionsFromQueue0'
  <2> SUFFICES ASSUME ~Ended, NEW m \in Node
               PROVE  /\ \A id \in sent[m] : LoadOf(id) = load => NodeOf(id) = m /\ context'[id] = 0
                      /\ m \in servermr => <<m, 0, load>> \in sent[m]
    BY <1>2 DEF RegionsFromQueue0, Ended
  <2>1. /\ \A id \in sent[m] : LoadOf(id) = load => NodeOf(id) = m /\ context[id] = 0
        /\ m \in servermr => <<m, 0, load>> \in sent[m]
    BY <1>1 DEF ServerInv, RegionsFromQueue0
  <2>2. \A id \in sent[m] : id \in Id
    BY <1>1 DEF LinkTypeOK
  <2>3. context[c] # 0
    BY <1>3, ProcsAssumption
  <2> QED BY <2>1, <2>2, <2>3, <1>5
<1>15. ServersStay'
  <2> SUFFICES ASSUME Connecting \/ Receiving, NEW id \in Id,
                      LoadOf(id) = load, context'[id] = 0
               PROVE  process[NodeOf(id)] = "up" /\ mr_buffer'[NodeOf(id)]
    BY <1>2 DEF ServersStay, Connecting, Receiving
  <2>1. NodeOf(id) \in Node
    BY IdFacts
  <2>2. CASE NodeOf(id) = n
    BY <2>2, <1>1, <1>2 DEF ServerTypeOK
  <2>3. CASE NodeOf(id) # n
    <3>1. process[NodeOf(id)] = "up" /\ mr_buffer[NodeOf(id)]
      BY <2>3, <1>1, <1>5, <1>8 DEF ServerInv, ServersStay
    <3> QED BY <3>1, <2>1, <2>3, <1>1, <1>2 DEF ServerTypeOK
  <2> QED BY <2>2, <2>3
<1> QED BY <1>6, <1>7, <1>10, <1>11, <1>12, <1>13, <1>14, <1>15 DEF ServerInv

(* The events other than a request give out no queue. *)
OtherEvent(c) ==
  OverrunDies(c) \/ AcceptDies(c) \/ OnConnection(c) \/ OnDisconnect(c) \/ OnUnknownEvent(c)

LEMMA EventFacts ==
  ASSUME CInv, NEW c \in Id, OtherEvent(c)
  PROVE  /\ LinkTypeOK' /\ ServerTypeOK'
         /\ UNCHANGED <<queue_ctr, context, msgs>>
         /\ \A x \in Id : peer'[x] # peer[x] =>
              x = c /\ peer[x] # "none" /\ context[x] # NoQueue
                    /\ peer'[x] \in {"established", "closed"}
         /\ \A m \in Node, q \in Cell : state'[m][q] # state[m][q] =>
              m = NodeOf(c) /\ q = context[c] /\ context[c] # NoQueue
                            /\ peer'[c] \in {"established", "closed"}
         /\ \A m \in Node : \A x \in sent'[m] : x \in sent[m] \/
              (x = c /\ m = NodeOf(c) /\ context[c] = 0 /\ peer[c] # "none")
         /\ \A m \in Node : \A x \in sent[m] : x \in sent'[m]
<1> DEFINE n == NodeOf(c)
           k == context[c]
<1>1. ServerTypeOK /\ LinkTypeOK /\ n \in Node /\ ContextOK(c)
  BY IdFacts DEF CInv, ServerInv
<1>2. /\ queue_ctr \in [Node -> 0 .. Cardinality(Cell)]
      /\ context \in [Id -> Cell \cup {NoQueue}]
      /\ state \in [Node -> [Cell -> {"INIT", "CONNECTED"}]]
      /\ accepting \in [Node -> 0 .. ServerQueues]
      /\ mr_buffer \in [Node -> BOOLEAN]
      /\ process \in [Node -> {"up", "exited", "died"}]
      /\ msgs \in [Id -> SUBSET {"REQ", "RTU", "DREQ", "REJ"}]
      /\ peer \in [Id -> {"none", "accepted", "established", "closed"}]
      /\ sent \in [Node -> SUBSET Id]
  BY <1>1 DEF ServerTypeOK, LinkTypeOK
<1> DEFINE Result ==
      /\ LinkTypeOK' /\ ServerTypeOK'
      /\ UNCHANGED <<queue_ctr, context, msgs>>
      /\ \A x \in Id : peer'[x] # peer[x] =>
           x = c /\ peer[x] # "none" /\ context[x] # NoQueue
                 /\ peer'[x] \in {"established", "closed"}
      /\ \A m \in Node, q \in Cell : state'[m][q] # state[m][q] =>
           m = n /\ q = k /\ k # NoQueue /\ peer'[c] \in {"established", "closed"}
      /\ \A m \in Node : \A x \in sent'[m] : x \in sent[m] \/
           (x = c /\ m = n /\ k = 0 /\ peer[c] # "none")
      /\ \A m \in Node : \A x \in sent[m] : x \in sent'[m]
<1>3. ASSUME OverrunDies(c) \/ AcceptDies(c) PROVE Result
  <2>1. /\ UNCHANGED <<queue_ctr, context, state, accepting, msgs, peer, sent>>
        /\ process' = [process EXCEPT ![n] = "died"]
        /\ mr_buffer' = [mr_buffer EXCEPT ![n] = FALSE]
    BY <1>3 DEF OverrunDies, AcceptDies, Dies, linkVars
  <2>2. LinkTypeOK' /\ ServerTypeOK'
    BY <2>1, <1>1, <1>2 DEF LinkTypeOK, ServerTypeOK
  <2> QED BY <2>1, <2>2
(* What the other three have in common. *)
<1>4. ASSUME NEW s \in {"INIT", "CONNECTED"}, NEW p \in {"established", "closed"},
             NEW r, Loop(n, r),
             UNCHANGED <<queue_ctr, context, msgs>>,
             peer[c] \in {"accepted", "established"},
             peer' = [peer EXCEPT ![c] = p],
             state' = state \/ state' = [state EXCEPT ![n][k] = s],
             sent' = sent \/ (k = 0 /\ sent' = [sent EXCEPT ![n] = @ \cup {c}])
      PROVE  Result
  <2>1. k \in Cell /\ k # NoQueue
    BY <1>1, <1>2, <1>4 DEF ContextOK
  <2>2. accepting' \in [Node -> 0 .. ServerQueues]
    BY <1>1, <1>4, CountTypes DEF Loop
  <2>3. /\ mr_buffer' \in [Node -> BOOLEAN]
        /\ process' \in [Node -> {"up", "exited", "died"}]
    <3>1. \/ /\ mr_buffer' = [mr_buffer EXCEPT ![n] = FALSE]
             /\ process' = [process EXCEPT ![n] = "exited"]
          \/ UNCHANGED <<mr_buffer, process>>
      BY <1>4 DEF Loop, Leave
    <3> QED BY <3>1, <1>1, <1>2
  <2> HIDE DEF k
  <2>4. /\ state' \in [Node -> [Cell -> {"INIT", "CONNECTED"}]]
        /\ \A m \in Node, q \in Cell : state'[m][q] # state[m][q] => m = n /\ q = k
    <3>1. CASE state' = state
      BY <3>1, <1>2
    <3>2. CASE state' = [state EXCEPT ![n][k] = s]
      <4>1. [state[n] EXCEPT ![k] = s] \in [Cell -> {"INIT", "CONNECTED"}]
        BY <1>1, <1>2, <2>1
      <4>2. state' = [state EXCEPT ![n] = [state[n] EXCEPT ![k] = s]]
        BY <3>2
      <4>3. state' \in [Node -> [Cell -> {"INIT", "CONNECTED"}]]
        BY <4>1, <4>2, <1>1, <1>2
      <4>4. state'[n] = [state[n] EXCEPT ![k] = s] /\ \A m \in Node \ {n} : state'[m] = state[m]
        BY <4>2, <1>1, <1>2
      <4> QED BY <4>3, <4>4, <1>1, <1>2, <2>1
    <3> QED BY <3>1, <3>2, <1>4 DEF k
  <2>5. /\ peer' \in [Id -> {"none", "accepted", "established", "closed"}]
        /\ peer'[c] = p /\ \A x \in Id \ {c} : peer'[x] = peer[x]
    BY <1>2, <1>4
  <2>6. /\ sent' \in [Node -> SUBSET Id]
        /\ \A m \in Node : \A x \in sent'[m] : x \in sent[m] \/ (x = c /\ m = n /\ k = 0)
        /\ \A m \in Node : \A x \in sent[m] : x \in sent'[m]
    <3>1. CASE sent' = sent
      BY <3>1, <1>2
    <3>2. CASE k = 0 /\ sent' = [sent EXCEPT ![n] = @ \cup {c}]
      <4>1. sent'[n] = sent[n] \cup {c} /\ \A m \in Node \ {n} : sent'[m] = sent[m]
        BY <3>2, <1>1, <1>2
      <4>2. sent' \in [Node -> SUBSET Id]
        BY <3>2, <1>1, <1>2
      <4> QED BY <3>2, <4>1, <4>2
    <3> QED BY <3>1, <3>2, <1>4 DEF k
  <2>7. LinkTypeOK'
    BY <2>5, <2>6, <1>2, <1>4 DEF LinkTypeOK
  <2>8. ServerTypeOK'
    BY <2>2, <2>3, <2>4, <1>2, <1>4 DEF ServerTypeOK
  <2>9. context[c] # NoQueue
    BY <2>1 DEF k
  <2> QED BY <2>1, <2>4, <2>5, <2>6, <2>7, <2>8, <2>9, <1>4
<1>5. ASSUME OnConnection(c) PROVE Result
  <2>1. /\ peer[c] = "accepted" /\ peer' = [peer EXCEPT ![c] = "established"]
        /\ state' = [state EXCEPT ![n][k] = "CONNECTED"]
        /\ sent' = sent \/ (k = 0 /\ sent' = [sent EXCEPT ![n] = @ \cup {c}])
        /\ Loop(n, 0) /\ UNCHANGED <<queue_ctr, context, msgs>>
    BY <1>5 DEF OnConnection, CarriesRegion, SetState, SetPeer
  <2> HIDE DEF n, k, Result
  <2> QED BY <2>1, <1>4
<1>6. ASSUME OnDisconnect(c) PROVE Result
  <2>1. /\ peer[c] \in {"accepted", "established"} /\ peer' = [peer EXCEPT ![c] = "closed"]
        /\ state' = [state EXCEPT ![n][k] = "INIT"] /\ sent' = sent
        /\ Loop(n, 1) /\ UNCHANGED <<queue_ctr, context, msgs>>
    BY <1>6 DEF OnDisconnect, SetState, SetPeer
  <2> HIDE DEF n, k, Result
  <2> QED BY <2>1, <1>4
<1>7. ASSUME OnUnknownEvent(c) PROVE Result
  <2>1. /\ peer[c] = "accepted" /\ peer' = [peer EXCEPT ![c] = "closed"]
        /\ state' = state /\ sent' = sent
        /\ Loop(n, 1) /\ UNCHANGED <<queue_ctr, context, msgs>>
    BY <1>7 DEF OnUnknownEvent, SetPeer
  <2> HIDE DEF n, k, Result
  <2> QED BY <2>1, <1>4
<1> QED BY <1>3, <1>5, <1>6, <1>7 DEF OtherEvent

(* A server that serves the load being made, or in use, does not leave: all *)
(* its connections are of that load, none of them is disconnected or taken  *)
(* back, and there are no more of them than it has queues.                  *)
LEMMA ServersKeep ==
  ASSUME CInv, Connecting \/ Receiving, NEW c \in Id, OtherEvent(c),
         NEW id \in Id, LoadOf(id) = load, context[id] = 0
  PROVE  UNCHANGED <<process[NodeOf(id)], mr_buffer[NodeOf(id)]>>
<1> DEFINE n == NodeOf(c)
           m == NodeOf(id)
<1>1. /\ ServerTypeOK /\ n \in Node /\ m \in Node
      /\ load \in Nat /\ load \in Loads
      /\ LoadOf(c) \in Nat /\ NoQueue # 0
  BY CurrentFacts, IdFacts, ProcsAssumption
     DEF CInv, ClientInv, ServerInv, ClientTypeOK, Loads
<1>2. CASE n # m
  <2>1. /\ process' = process \/ \E s : process' = [process EXCEPT ![n] = s]
        /\ mr_buffer' = mr_buffer \/ \E s : mr_buffer' = [mr_buffer EXCEPT ![n] = s]
    BY DEF OtherEvent, OverrunDies, AcceptDies, Dies, OnConnection, OnDisconnect,
           OnUnknownEvent, Loop, Leave
  <2>2. process'[m] = process[m]
    BY <2>1, <1>1, <1>2 DEF ServerTypeOK
  <2>3. mr_buffer'[m] = mr_buffer[m]
    BY <2>1, <1>1, <1>2 DEF ServerTypeOK
  <2> QED BY <2>2, <2>3
<1>3. CASE n = m
  (* The connections that the server has taken are of this load.            *)
  <2>1. ASSUME NEW x \in Id, NodeOf(x) = m, context[x] # NoQueue
        PROVE  LoadOf(x) = load
    <3>1. MessagesOK(x) /\ LoadOf(x) \in Nat
      BY IdFacts DEF CInv, ServerInv, Loads
    <3>2. ~(LoadOf(x) > load)
      BY <3>1, <2>1 DEF MessagesOK
    <3>3. context[x] \in Nat
      BY <1>1, <2>1, CellFacts DEF ServerTypeOK
    <3>4. ~(LoadOf(x) < load)
      BY <3>3, <2>1, <1>1 DEF CInv, ServerInv, LoadsInOrder
    <3> QED BY <3>1, <3>2, <3>4, <1>1
  (* Nor is a request of an earlier load left.                              *)
  <2>2. ASSUME "REQ" \in msgs[c], peer[c] = "none" PROVE LoadOf(c) = load
    <3>1. MessagesOK(c)
      BY DEF CInv, ServerInv
    <3>2. ~(LoadOf(c) > load)
      BY <3>1, <2>2 DEF MessagesOK
    <3>3. ~(LoadOf(c) < load)
      BY <2>2, <1>1, <1>3 DEF CInv, ServerInv, LoadsInOrder
    <3> QED BY <3>2, <3>3, <1>1
  (* And the compute node takes none of this load's connections back.       *)
  <2>3. LoadOf(c) = load => "DREQ" \notin msgs[c] /\ "REJ" \notin msgs[c]
    <3>1. SUFFICES ASSUME LoadOf(c) = load
                   PROVE  "DREQ" \notin msgs[c] /\ "REJ" \notin msgs[c]
      OBVIOUS
    <3>2. cm_id[c] # "destroyed"
      <4>1. CASE Connecting
        BY <4>1, <3>1, ConnectingFacts DEF CInv
      <4>2. CASE Receiving
        BY <4>2, <3>1 DEF CInv, ClientInv, Position
      <4> QED BY <4>1, <4>2
    <3>3. MessagesOK(c)
      BY DEF CInv, ServerInv
    <3> QED BY <3>1, <3>2, <3>3, <1>1 DEF MessagesOK
  <2>4. ~OverrunDies(c)
    <3> SUFFICES ASSUME OverrunDies(c) PROVE FALSE
      OBVIOUS
    <3>1. /\ "REQ" \in msgs[c] /\ peer[c] = "none" /\ queue_ctr[m] >= ServerQueues
      BY <1>3 DEF OverrunDies, Requested
    <3>2. LoadOf(c) = load
      BY <3>1, <2>2
    <3>3. ContextOK(c) /\ queue_ctr[m] = Cardinality(Taken(m))
      BY <1>1 DEF CInv, ServerInv, CountersOK
    <3>4. context[c] = NoQueue
      BY <3>1, <3>3 DEF ContextOK
    <3>5. Taken(m) \in SUBSET OfLoad(m, load) /\ c \in OfLoad(m, load) /\ c \notin Taken(m)
      BY <3>2, <3>4, <2>1, <1>3 DEF Taken, OfLoad, OfNode
    <3> HIDE DEF m
    <3>6. Cardinality(Taken(m)) \in Nat
          /\ Cardinality(Taken(m)) + 1 <= Cardinality(OfLoad(m, load))
      BY <3>5, <1>1, OfLoadFinite, SmallerPart
    <3>7. Cardinality(OfLoad(m, load)) \in Nat /\ Cardinality(OfLoad(m, load)) <= NumQueues
      BY <1>1, OfLoadFinite
    <3> QED BY <3>1, <3>3, <3>6, <3>7, ProcsAssumption, LinkAssumption
  <2>5. ~AcceptDies(c)
    BY <2>2, <2>3 DEF AcceptDies, Requested
  <2>6. ASSUME peer[c] \in {"accepted", "established"} PROVE LoadOf(c) = load
    <3>1. ContextOK(c)
      BY DEF CInv, ServerInv
    <3> QED BY <3>1, <2>1, <2>6, <1>3 DEF ContextOK
  <2>7. ~OnDisconnect(c) /\ ~OnUnknownEvent(c)
    BY <2>3, <2>6 DEF OnDisconnect, OnUnknownEvent
  <2>8. OnConnection(c)
    BY <2>4, <2>5, <2>7 DEF OtherEvent
  <2>9. UNCHANGED <<mr_buffer, process>>
    BY <2>8 DEF OnConnection, Loop, Leave
  <2> QED BY <2>9
<1> QED BY <1>2, <1>3

LEMMA EventServerInv ==
  ASSUME CInv, NEW c \in Id, OtherEvent(c), UNCHANGED clientVars
  PROVE  ServerInv'
<1> DEFINE n == NodeOf(c)
           k == context[c]
<1>1. /\ LinkTypeOK' /\ ServerTypeOK'
      /\ UNCHANGED <<queue_ctr, context, msgs>>
      /\ \A x \in Id : peer'[x] # peer[x] =>
           x = c /\ peer[x] # "none" /\ context[x] # NoQueue
                 /\ peer'[x] \in {"established", "closed"}
      /\ \A m \in Node, q \in Cell : state'[m][q] # state[m][q] =>
           m = n /\ q = k /\ k # NoQueue /\ peer'[c] \in {"established", "closed"}
      /\ \A m \in Node : \A x \in sent'[m] : x \in sent[m] \/
           (x = c /\ m = n /\ k = 0 /\ peer[c] # "none")
      /\ \A m \in Node : \A x \in sent[m] : x \in sent'[m]
  BY EventFacts
<1>2. ServerInv /\ ServerTypeOK /\ UNCHANGED <<load, pc, cm_id, servermr>>
  BY DEF CInv, ServerInv, clientVars
<1>3. ASSUME NEW x \in Id PROVE MessagesOK(x)' /\ ContextOK(x)'
  <2>1. MessagesOK(x) /\ ContextOK(x)
    BY <1>2 DEF ServerInv
  <2>2. ContextOK(x)'
    BY <2>1, <1>1 DEF ContextOK
  <2>3. LoadOf(x) > load =>
          peer'[x] = "none" /\ \A m \in Node : x \notin sent'[m]
    <3>1. LoadOf(x) > load => peer[x] = "none" /\ \A m \in Node : x \notin sent[m]
      BY <2>1 DEF MessagesOK
    <3> QED BY <3>1, <1>1
  <2> QED BY <2>1, <2>2, <2>3, <1>1, <1>2 DEF MessagesOK
<1>4. CountersOK'
  <2> SUFFICES ASSUME NEW m \in Node
               PROVE  /\ queue_ctr[m] = Cardinality(Taken(m)')
                      /\ \A q \in Cell : q >= queue_ctr[m] => state'[m][q] = "INIT"
    BY <1>1 DEF CountersOK
  <2>1. /\ queue_ctr[m] = Cardinality(Taken(m)) /\ Taken(m)' = Taken(m)
        /\ \A q \in Cell : q >= queue_ctr[m] => state[m][q] = "INIT"
    BY <1>1, <1>2 DEF ServerInv, CountersOK, Taken
  <2>2. ASSUME NEW q \in Cell, q >= queue_ctr[m] PROVE state'[m][q] = "INIT"
    <3>1. CASE state'[m][q] = state[m][q]
      BY <3>1, <2>1, <2>2
    <3>2. CASE state'[m][q] # state[m][q]
      <4>1. m = n /\ q = k /\ k # NoQueue /\ ContextOK(c)
        BY <3>2, <1>1, <1>2 DEF ServerInv
      <4>2. k < queue_ctr[n]
        BY <4>1 DEF ContextOK
      <4>3. q \in Nat /\ queue_ctr[m] \in Nat
        BY <1>2, CellFacts DEF ServerTypeOK
      <4> QED BY <4>1, <4>2, <4>3, <2>2
    <3> QED BY <3>1, <3>2
  <2> QED BY <2>1, <2>2
<1>5. QueuesNotShared'
  <2>1. ASSUME NEW x \in Id, peer'[x] = "accepted"
        PROVE  state'[NodeOf(x)][context[x]] = "INIT"
    <3>1. /\ peer[x] = "accepted" /\ NodeOf(x) \in Node /\ ContextOK(x)
          /\ state[NodeOf(x)][context[x]] = "INIT"
      BY <2>1, <1>1, <1>2, IdFacts DEF ServerInv, QueuesNotShared
    <3>2. context[x] \in Cell /\ context[x] # NoQueue
      BY <3>1, <1>2 DEF ContextOK, ServerTypeOK
    <3>3. x # c => NodeOf(x) # n \/ context[x] # k \/ k = NoQueue
      BY <3>2, <1>2 DEF ServerInv, QueuesNotShared
    <3> QED BY <3>1, <3>2, <3>3, <2>1, <1>1
  <2> QED BY <2>1, <1>1, <1>2 DEF ServerInv, QueuesNotShared
<1>6. LoadsInOrder'
  BY <1>1, <1>2 DEF ServerInv, LoadsInOrder
<1>7. RegionsFromQueue0'
  <2> SUFFICES ASSUME ~Ended, NEW m \in Node
               PROVE  /\ \A id \in sent'[m] : LoadOf(id) = load => NodeOf(id) = m /\ context[id] = 0
                      /\ m \in servermr => <<m, 0, load>> \in sent'[m]
    BY <1>1, <1>2 DEF RegionsFromQueue0, Ended
  <2>1. /\ \A id \in sent[m] : LoadOf(id) = load => NodeOf(id) = m /\ context[id] = 0
        /\ m \in servermr => <<m, 0, load>> \in sent[m]
    BY <1>2 DEF ServerInv, RegionsFromQueue0
  <2> QED BY <2>1, <1>1
<1>8. ServersStay'
  <2> SUFFICES ASSUME Connecting \/ Receiving, NEW id \in Id,
                      LoadOf(id) = load, context[id] = 0
               PROVE  process'[NodeOf(id)] = "up" /\ mr_buffer'[NodeOf(id)]
    BY <1>1, <1>2 DEF ServersStay, Connecting, Receiving
  <2>1. process[NodeOf(id)] = "up" /\ mr_buffer[NodeOf(id)]
    BY <1>2 DEF ServerInv, ServersStay
  <2>2. /\ process'[NodeOf(id)] = process[NodeOf(id)]
        /\ mr_buffer'[NodeOf(id)] = mr_buffer[NodeOf(id)]
    BY ServersKeep
  <2> QED BY <2>1, <2>2
<1> QED BY <1>1, <1>3, <1>4, <1>5, <1>6, <1>7, <1>8 DEF ServerInv

-----------------------------------------------------------------------------
(* The invariant holds. *)

LEMMA InitServerInv == Init => ServerInv
<1> SUFFICES ASSUME Init PROVE ServerInv
  OBVIOUS
<1>1. /\ msgs = [id \in Id |-> {}] /\ peer = [id \in Id |-> "none"]
      /\ sent = [n \in Node |-> {}]
      /\ queue_ctr = [n \in Node |-> 0] /\ context = [id \in Id |-> NoQueue]
      /\ state = [n \in Node |-> [k \in Cell |-> "INIT"]]
      /\ accepting = [n \in Node |-> 0] /\ mr_buffer = [n \in Node |-> FALSE]
      /\ process = [n \in Node |-> "up"] /\ servermr = {}
  BY DEF Init, LinkInit, ServerInit, ClientInit
<1>2. LinkTypeOK
  BY <1>1 DEF LinkTypeOK
<1>3. ServerTypeOK
  <2>1. 0 \in 0 .. Cardinality(Cell) /\ 0 \in 0 .. ServerQueues
    BY CellFacts, ProcsAssumption
  <2> QED BY <2>1, <1>1 DEF ServerTypeOK
<1>4. \A id \in Id : MessagesOK(id) /\ ContextOK(id)
  BY <1>1 DEF MessagesOK, ContextOK
<1>5. CountersOK
  <2>1. \A n \in Node : Taken(n) = {}
    BY <1>1 DEF Taken
  <2> QED BY <2>1, <1>1, FS_EmptySet DEF CountersOK
<1>6. QueuesNotShared /\ LoadsInOrder
  BY <1>1 DEF QueuesNotShared, LoadsInOrder
<1>7. RegionsFromQueue0 /\ ServersStay
  BY <1>1, ProcsAssumption DEF RegionsFromQueue0, ServersStay
<1> QED BY <1>2, <1>3, <1>4, <1>5, <1>6, <1>7 DEF ServerInv

LEMMA StutterServerInv ==
  ASSUME CInv, UNCHANGED vars
  PROVE  ServerInv'
<1>1. ServerInv /\ UNCHANGED <<clientVars, serverVars, msgs, peer, sent>>
  BY DEF CInv, vars, linkVars
<1>2. UNCHANGED <<load, pc, cm_id, servermr>>
  BY <1>1 DEF clientVars
<1>3. /\ UNCHANGED <<queue_ctr, context, state, accepting, mr_buffer, process>>
      /\ ServerTypeOK' /\ CountersOK' /\ QueuesNotShared'
      /\ \A id \in Id : ContextOK(id)'
  BY <1>1, ServerFrame
<1>4. LinkTypeOK' /\ LoadsInOrder' /\ RegionsFromQueue0' /\ ServersStay'
  BY <1>1, <1>2, <1>3 DEF ServerInv, LinkTypeOK, LoadsInOrder, RegionsFromQueue0, ServersStay,
                          Ended, Connecting, Receiving
<1>5. \A id \in Id : MessagesOK(id)'
  BY <1>1, <1>2, <1>3 DEF ServerInv, MessagesOK
<1> QED BY <1>3, <1>4, <1>5 DEF ServerInv

LEMMA StepServerInv ==
  ASSUME CInv, [Next]_vars
  PROVE  ServerInv'
<1>1. CASE ClientStep
  BY <1>1, ClientServerInv
<1>2. CASE Reload
  BY <1>2, ReloadServerInv
<1>3. ASSUME NEW id \in Id, Server(id) PROVE ServerInv'
  BY <1>3, RequestServerInv, EventServerInv DEF Server, OnEvent, OtherEvent
<1>4. ASSUME NEW n \in Node, RestartServer(n) PROVE ServerInv'
  BY <1>4, RestartServerInv
<1>5. CASE UNCHANGED vars
  BY <1>5, StutterServerInv
<1> QED BY <1>1, <1>2, <1>3, <1>4, <1>5 DEF Next, ClientStep

LEMMA ClusterInvariant == Spec => []CInv
<1>1. Init => CInv
  BY InitClientInv, InitServerInv DEF CInv
<1>2. CInv /\ [Next]_vars => CInv'
  BY StepClientInv, StepServerInv DEF CInv
<1> QED BY <1>1, <1>2, PTL DEF Spec

-----------------------------------------------------------------------------
(* What follows from it. *)

(* Every variable of both programs and of the link keeps its type; in       *)
(* particular queue_ctr never runs past what NumQueues connections of each  *)
(* load can take (rmserver.c:201).                                          *)
THEOREM ClusterTypeCorrect == Spec => []TypeOK
<1>1. CInv => TypeOK
  BY DEF CInv, ClientInv, ServerInv, TypeOK
<1> QED BY <1>1, ClusterInvariant, PTL

(* GetQueue finds, for each processor and type, a queue of that type. *)
LEMMA QueueOfProcessor ==
  ASSUME NEW cpu \in Cpu, NEW type \in QpType
  PROVE  /\ GetQueue(cpu, type) \in Queue
         /\ GetQueueType(GetQueue(cpu, type)) = type
<1>1. /\ numcpus \in Nat /\ NumQueues \in Nat
      /\ numcpus * 2 + numcpus <= NumQueues
  <2>1. NumQueues \in Nat /\ NumQueues = 3 * (NumQueues \div 3) + (NumQueues % 3)
        /\ NumQueues % 3 \in 0 .. 2 /\ NumQueues \div 3 \in Nat
    BY LinkAssumption
  <2> QED BY <2>1 DEF numcpus
<1>2. cpu \in Nat /\ cpu < numcpus
  BY <1>1 DEF Cpu
<1>3. CASE type = "QP_READ_SYNC"
  <2>1. GetQueue(cpu, type) = cpu
    BY <1>3 DEF GetQueue
  <2>2. GetQueueType(cpu) = "QP_READ_SYNC"
    <3>1. cpu < numcpus /\ cpu \notin numcpus .. numcpus * 2 - 1
      BY <1>1, <1>2
    <3> QED BY <3>1 DEF GetQueueType
  <2> QED BY <2>1, <2>2, <1>1, <1>2, <1>3 DEF Queue
<1>4. CASE type = "QP_READ_ASYNC"
  <2>1. GetQueue(cpu, type) = cpu + numcpus
    BY <1>4 DEF GetQueue
  <2>2. ~(cpu + numcpus < numcpus) /\ cpu + numcpus \in numcpus .. numcpus * 2 - 1
    BY <1>1, <1>2
  <2>3. GetQueueType(cpu + numcpus) = "QP_READ_ASYNC"
    BY <2>2 DEF GetQueueType
  <2> QED BY <2>1, <2>3, <1>1, <1>2, <1>4 DEF Queue
<1>5. CASE type = "QP_WRITE_SYNC"
  <2>1. GetQueue(cpu, type) = cpu + numcpus * 2
    BY <1>5 DEF GetQueue
  <2>2. ~(cpu + numcpus * 2 < numcpus) /\ cpu + numcpus * 2 \notin numcpus .. numcpus * 2 - 1
    BY <1>1, <1>2
  <2>3. GetQueueType(cpu + numcpus * 2) = "QP_WRITE_SYNC"
    BY <2>2 DEF GetQueueType
  <2> QED BY <2>1, <2>3, <1>1, <1>2, <1>5 DEF Queue
<1> QED BY <1>3, <1>4, <1>5 DEF QpType

(* When the module reports that it is ready (multiswap_rdma.c:1008), every  *)
(* processor finds a connected queue of each type on every node, whatever   *)
(* timer has run out and whatever event came late.                          *)
THEOREM ReadyModuleIsUsable == Spec => []ReadyMeansUsable
<1>1. CInv => ReadyMeansUsable
  <2> SUFFICES ASSUME CInv, pc = "ready",
                      NEW n \in Node, NEW cpu \in Cpu, NEW type \in QpType
               PROVE  LET id == <<n, GetQueue(cpu, type), load>> IN
                      /\ GetQueueType(GetQueue(cpu, type)) = type
                      /\ id \in cq /\ id \in qp /\ cm_id[id] = "connected"
    BY DEF ReadyMeansUsable
  <2> DEFINE id == <<n, GetQueue(cpu, type), load>>
  <2>1. id \in Id /\ LoadOf(id) = load
    BY QueueOfProcessor, IdFacts DEF CInv, ClientInv, ClientTypeOK
  <2>2. Position(id) /\ QueuesOK(id)
    BY <2>1 DEF CInv, ClientInv
  <2>3. cm_id[id] = "connected"
    BY <2>1, <2>2 DEF Position, Receiving
  <2> QED BY <2>2, <2>3, QueueOfProcessor DEF QueuesOK
<1> QED BY <1>1, ClusterInvariant, PTL

(* And every server that it uses has taken no connection of another load:   *)
(* the region that has come over queue 0 was sent by a server whose queue 0 *)
(* belongs to this load (rmserver.c:201-203, 243-249).                      *)
THEOREM ReadyNeedsFreshServers == Spec => []ReadyMeansFreshServer
<1>1. CInv => ReadyMeansFreshServer
  <2> SUFFICES ASSUME CInv, pc = "ready"
               PROVE  servermr = Node /\ \A n \in Node : Served(n) = {load}
    BY DEF ReadyMeansFreshServer
  <2>1. servermr = Node /\ ServerTypeOK /\ LinkTypeOK /\ load \in Nat /\ load \in Loads
    BY CurrentFacts DEF CInv, ClientInv, ServerInv, Regions, ClientTypeOK
  <2>2. ASSUME NEW n \in Node PROVE Served(n) = {load}
    <3> DEFINE id0 == <<n, 0, load>>
    <3>1. 0 \in Queue
      BY LinkAssumption DEF Queue
    <3>2. id0 \in Id /\ NodeOf(id0) = n /\ LoadOf(id0) = load
      BY <3>1, <2>1, IdFacts
    <3>3. context[id0] = 0
      BY <2>1, <3>2 DEF CInv, ServerInv, RegionsFromQueue0, Ended
    <3> HIDE DEF id0
    <3>4. ASSUME NEW x \in Id, NodeOf(x) = n, context[x] # NoQueue
          PROVE  LoadOf(x) = load
      <4>1. MessagesOK(x) /\ LoadOf(x) \in Nat /\ context[x] \in Nat
        <5>1. MessagesOK(x) /\ LoadOf(x) \in Nat
          BY <3>4, IdFacts DEF CInv, ServerInv, Loads
        <5>2. context[x] \in Nat
          BY <2>1, <3>4, CellFacts DEF ServerTypeOK
        <5> QED BY <5>1, <5>2
      <4>2. ~(LoadOf(x) > load)
        BY <4>1, <3>4 DEF MessagesOK
      <4>3. ~(LoadOf(x) < load)
        BY <4>1, <3>2, <3>3, <3>4, ProcsAssumption DEF CInv, ServerInv, LoadsInOrder
      <4> QED BY <4>1, <4>2, <4>3, <2>1
    <3>5. NoQueue # 0
      BY ProcsAssumption
    <3> QED BY <3>2, <3>3, <3>4, <3>5 DEF Served
  <2> QED BY <2>1, <2>2
<1> QED BY <1>1, ClusterInvariant, PTL

(* No server that a ready module uses has ended or has given up its buffer: *)
(* it leaves at the first disconnect (rmserver.c:100-107), but none comes.  *)
THEOREM BufferStays == Spec => []BufferOutlivesClient
<1>1. CInv => BufferOutlivesClient
  <2> SUFFICES ASSUME CInv, pc = "ready", NEW n \in Node
               PROVE  process[n] = "up" /\ mr_buffer[n]
    BY DEF BufferOutlivesClient
  <2> DEFINE id0 == <<n, 0, load>>
  <2>1. id0 \in Id /\ NodeOf(id0) = n /\ LoadOf(id0) = load
    BY IdFacts, LinkAssumption DEF CInv, ClientInv, ClientTypeOK, Queue
  <2>2. id0 \in sent[n]
    BY DEF CInv, ClientInv, ServerInv, Regions, RegionsFromQueue0, Ended
  <2>3. context[id0] = 0
    BY <2>1, <2>2 DEF CInv, ServerInv, RegionsFromQueue0, Ended
  <2> HIDE DEF id0
  <2> QED BY <2>1, <2>3 DEF CInv, ServerInv, ServersStay, Receiving
<1> QED BY <1>1, ClusterInvariant, PTL

(* sswap_rdma_stop_queue and sswap_rdma_free_queue are called once for each *)
(* queue, and only for one that is connected and has its queue pair.        *)
THEOREM StopsAreOfConnectedQueues == Spec => []StopsOnlyConnected
<1>1. CInv => StopsOnlyConnected
  BY DEF CInv, ClientInv, StopOK
<1> QED BY <1>1, ClusterInvariant, PTL

(* A load that fails takes back every connection it has made, also one that *)
(* was established after its wait had ended (multiswap_rdma.c:978, 990).    *)
THEOREM FailedLoadsDisconnect == Spec => []FailedLoadDisconnects
<1>1. CInv => FailedLoadDisconnects
  <2> SUFFICES ASSUME CInv, pc = "failed", NEW id \in Id
               PROVE  /\ cm_id[id] \in {"none", "destroyed"}
                      /\ "RTU" \in msgs[id] => "DREQ" \in msgs[id]
    BY DEF FailedLoadDisconnects
  <2>1. Position(id) /\ MessagesOK(id)
    BY DEF CInv, ClientInv, ServerInv
  <2>2. cm_id[id] \in {"none", "destroyed"}
    BY <2>1 DEF Position, Ended
  <2> QED BY <2>1, <2>2 DEF MessagesOK
<1> QED BY <1>1, ClusterInvariant, PTL

(* However often the module is loaded and unloaded, of its queue pairs and  *)
(* completion queues a load leaves behind at most those of the one queue    *)
(* that failed (multiswap_rdma.c:384), and one that was unloaded leaves     *)
(* none.  The theorem is about nothing else that a load allocates.          *)
THEOREM AtMostOneQueueStays == Spec => []AtMostOneQueueLeft
<1>1. CInv => AtMostOneQueueLeft
  <2> SUFFICES ASSUME CInv, NEW g \in Loads,
                      NEW left, left = {id \in cq \cup qp : LoadOf(id) = g},
                      ~(g = load /\ pc \notin {"failed", "unloaded"})
               PROVE  \/ left = {}
                      \/ Cardinality(left) = 1 /\ ~(g = load /\ pc = "unloaded")
    BY DEF AtMostOneQueueLeft
  <2>1. ClientTypeOK /\ LeftOfOldLoads /\ load \in Nat /\ g \in Nat
    BY CurrentFacts DEF CInv, ClientInv, Loads
  <2>2. ASSUME NEW id \in left
        PROVE  id \in Id /\ LoadOf(id) = g /\ id \in cq \cup qp /\ Position(id) /\ QueuesOK(id)
    BY <2>1 DEF CInv, ClientInv, ClientTypeOK
  <2>3. g > load => left = {}
    BY <2>1, <2>2 DEF Position, QueuesOK
  <2>4. g = load /\ pc = "unloaded" => left = {}
    BY <2>2 DEF QueuesOK
  <2>5. ASSUME g <= load, ~(g = load /\ pc = "unloaded"), left # {}
        PROVE  Cardinality(left) = 1
    <3>1. PICK a \in left : TRUE
      BY <2>5
    <3>2. ASSUME NEW b \in left PROVE b = a
      <4>1. CASE g = load
        <5>1. pc = "failed"
          BY <4>1, <2>5
        <5> QED BY <4>1, <5>1, <2>2, <3>1 DEF QueuesOK
      <4>2. CASE g < load
        BY <4>2, <2>1, <2>2, <3>1 DEF LeftOfOldLoads
      <4> QED BY <4>1, <4>2, <2>1, <2>5
    <3>3. left = {a}
      BY <3>1, <3>2
    <3> QED BY <3>3, FS_Singleton
  <2> QED BY <2>1, <2>3, <2>4, <2>5
<1> QED BY <1>1, ClusterInvariant, PTL

(* No two connections, of whatever loads, share a queue of a server, and a  *)
(* connection that is reported as established finds its queue in INIT, so   *)
(* the tests at rmserver.c:203 and 243 never fail.                          *)
THEOREM ServerQueuesNotShared == Spec => []QueuesNotShared
<1>1. CInv => QueuesNotShared
  BY DEF CInv, ServerInv
<1> QED BY <1>1, ClusterInvariant, PTL
=============================================================================
