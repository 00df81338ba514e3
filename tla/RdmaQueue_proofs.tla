-------------------------- MODULE RdmaQueue_proofs --------------------------
(***************************************************************************)
(* TLAPS proves the safety properties of the queue's data path for any     *)
(* finite set of threads and any size of the send queue, each under the    *)
(* weakest assumption about failures that it needs.                        *)
(***************************************************************************)
EXTENDS RdmaQueue, FiniteSetTheorems, TLAPS

-----------------------------------------------------------------------------
(* The inductive invariant. *)

Label == {"idle", "check", "get", "post", "test", "lock", "poll",
          "dec", "free", "return", "bug"}

Holding == {"poll", "dec", "free"}     \* inside cq_lock

Types ==
  /\ pending \in Int /\ reqs \in Int
  /\ cq_lock \in Thread \cup {NoThread}
  /\ req \in [Thread -> CountedStates \cup {"none"}]
  /\ moved \subseteq Thread
  /\ unlocked \subseteq Thread
  /\ pc \in [Thread -> Label]
  /\ draining \in [Thread -> BOOLEAN]
  /\ completed \in [Thread -> 0 .. PollTarget]
  /\ budget \in [Thread -> Nat]
  /\ cur \in [Thread -> Thread]
  /\ ret \in [Thread -> BOOLEAN]

(* One thread at a time polls, and the request whose handler it runs is no  *)
(* longer the adapter's and not yet forgotten.                              *)
Polling ==
  \A t \in Thread :
    /\ pc[t] \in Holding => cq_lock = t
    /\ pc[t] = "dec" => req[cur[t]] = "unmapped"
    /\ pc[t] \in {"dec", "free"} => budget[t] # 0
    /\ pc[t] \in Holding /\ ~draining[t] => completed[t] + budget[t] <= PollTarget

(* Where a thread is tells what its request can be; while it drains, only   *)
(* pending can.                                                             *)
Stages ==
  \A t \in Thread :
    /\ pc[t] \in {"idle", "check", "get", "return"} => req[t] = "none"
    /\ pc[t] = "post" => req[t] = "counted"
    /\ pc[t] \in {"test", "lock"} \cup Holding /\ ~draining[t] => req[t] = "none"
    /\ pc[t] \in {"idle", "check", "get", "post"} => ~draining[t]
    /\ pc[t] = "return" => draining[t]

PendingCounts == pending = Cardinality(Counted)

(* Without errors of the adapter, a completed request has moved its page.   *)
Arrived ==
  WcMayFail = FALSE =>
    /\ \A t \in Thread :
         /\ req[t] \in {"done", "unmapped"} => t \in moved
         /\ draining[t] /\ ret[t] => req[t] = "sent" \/ t \in moved
    /\ unlocked \subseteq moved

Live == {t \in Thread : req[t] # "none"}
Freeing == {t \in Thread : pc[t] = "free"}

Allocated ==
  /\ reqs >= Cardinality(Live) + Cardinality(Freeing)
  /\ MapMayFail = FALSE => reqs = Cardinality(Live) + Cardinality(Freeing)

(* A post cannot fail: the send queue has a place for every thread.         *)
PostSafe == PostMayFail = FALSE /\ Cardinality(Thread) <= MaxSendWr

Posting ==
  /\ PostSafe => \A t \in Thread : req[t] = "counted" => pc[t] = "post"
  /\ PostSafe /\ AllocMayFail = FALSE /\ MapMayFail = FALSE =>
       \A t \in Thread : pc[t] # "bug"

QInv ==
  /\ Types /\ Polling /\ Stages /\ PendingCounts
  /\ Arrived /\ Allocated /\ Posting

-----------------------------------------------------------------------------
Step(t) == Call(t) \/ ThreadStep(t) \/ Complete(t) \/ CompleteInError(t)

(* Counted is finite, and at most the size of Thread. *)
LEMMA CountedFinite ==
  /\ IsFiniteSet(Counted) /\ Cardinality(Counted) \in Nat
  /\ Cardinality(Counted) <= Cardinality(Thread)
  /\ Cardinality(Thread) \in Nat
BY ThreadAssumption, FS_Subset, FS_CardinalityType DEF Counted

(* When pending is zero no request is on its way. *)
LEMMA DrainedMeansNone ==
  ASSUME QInv, ~(pending > 0), NEW t \in Thread
  PROVE  req[t] = "none"
<1>1. Counted = {}
  BY CountedFinite, FS_EmptySet DEF QInv, Types, PendingCounts
<1> QED BY <1>1 DEF QInv, Types, Counted

(* Every step keeps the types. *)
LEMMA StepTypes ==
  ASSUME QInv, NEW t \in Thread, Step(t)
  PROVE  Types'
<1> USE QueueAssumption DEF QInv, Types, Label, CountedStates
<1>1. CASE Call(t)
  BY <1>1 DEF Call, Goto, locals
<1>2. CASE Admit(t)
  BY <1>2 DEF Admit, Goto, locals
<1>3. CASE BackPressure(t)
  BY <1>3 DEF BackPressure, Goto, locals
<1>4. CASE InflightBug(t)
  BY <1>4 DEF InflightBug, Goto, locals
<1>5. CASE GetReq(t)
  BY <1>5 DEF GetReq, SetReq, Goto, locals
<1>6. CASE AllocFails(t)
  BY <1>6 DEF AllocFails, Goto, locals
<1>7. CASE MapFails(t)
  <2>1. CASE Fail(t)
    BY <1>7, <2>1 DEF MapFails, Fail, Goto
  <2>2. CASE BadFree(t)
    BY <1>7, <2>2 DEF MapFails, BadFree, Goto, locals
  <2> QED BY <1>7, <2>1, <2>2 DEF MapFails
<1>8. CASE PostSend(t)
  BY <1>8 DEF PostSend, SetReq, Goto, locals
<1>9. CASE PostFails(t)
  BY <1>9 DEF PostFails, Fail, Goto, locals
<1>10. CASE KeepPolling(t)
  BY <1>10 DEF KeepPolling, Goto, MustPoll, locals
<1>11. CASE StopPolling(t)
  BY <1>11 DEF StopPolling, Goto, MustPoll, locals
<1>12. CASE LockCq(t)
  BY <1>12 DEF LockCq, Goto, locals
<1>13. CASE PollCq(t)
  BY <1>13 DEF PollCq, SetReq, Goto, locals
<1>14. CASE UnlockCq(t)
  BY <1>14 DEF UnlockCq, Goto, locals
<1>15. CASE DoneDec(t)
  BY <1>15 DEF DoneDec, SetReq, Goto, locals
<1>16. CASE DoneFree(t)
  <2>1. budget[t] # 0 /\ (draining[t] \/ completed[t] + budget[t] <= PollTarget)
    BY <1>16 DEF DoneFree, Polling, Holding
  <2>2. budget' \in [Thread -> Nat]
    BY <1>16, <2>1 DEF DoneFree
  <2>3. completed' \in [Thread -> 0 .. PollTarget]
    <3>1. CASE draining[t]
      BY <1>16, <3>1 DEF DoneFree
    <3>2. CASE ~draining[t]
      <4>1. completed[t] + budget[t] <= PollTarget
        BY <2>1, <3>2
      <4>2. completed[t] + 1 \in 0 .. PollTarget
        BY <2>1, <4>1
      <4>3. completed' = [completed EXCEPT ![t] = completed[t] + 1]
        BY <1>16, <3>2 DEF DoneFree
      <4> QED BY <4>2, <4>3
    <3> QED BY <3>1, <3>2
  <2> QED BY <1>16, <2>2, <2>3 DEF DoneFree, Goto
<1>17. CASE Return(t)
  BY <1>17 DEF Return, Goto, locals
<1>18. CASE Complete(t)
  BY <1>18 DEF Complete, SetReq, locals
<1>19. CASE CompleteInError(t)
  BY <1>19 DEF CompleteInError, SetReq, locals
<1> QED BY <1>1, <1>2, <1>3, <1>4, <1>5, <1>6, <1>7, <1>8, <1>9, <1>10, <1>11,
       <1>12, <1>13, <1>14, <1>15, <1>16, <1>17, <1>18, <1>19 DEF Step,
       ThreadStep

(* Only the holder of cq_lock polls, and one handler at a time. *)
LEMMA StepPolling ==
  ASSUME QInv, NEW t \in Thread, Step(t)
  PROVE  Polling'
<1> USE QueueAssumption DEF QInv, Types, Label, CountedStates, Polling, Holding
<1>1. CASE Call(t)
  BY <1>1 DEF Call, Goto, locals
<1>2. CASE Admit(t)
  BY <1>2 DEF Admit, Goto, locals
<1>3. CASE BackPressure(t)
  BY <1>3 DEF BackPressure, Goto, locals
<1>4. CASE InflightBug(t)
  BY <1>4 DEF InflightBug, Goto, locals
<1>5. CASE GetReq(t)
  BY <1>5 DEF GetReq, SetReq, Goto, locals, Stages
<1>6. CASE AllocFails(t)
  BY <1>6 DEF AllocFails, Goto, locals
<1>7. CASE MapFails(t)
  BY <1>7 DEF MapFails, Fail, BadFree, Goto, locals
<1>8. CASE PostSend(t)
  BY <1>8 DEF PostSend, SetReq, Goto, locals, Stages
<1>9. CASE PostFails(t)
  BY <1>9 DEF PostFails, Fail, Goto, locals
<1>10. CASE KeepPolling(t)
  BY <1>10 DEF KeepPolling, Goto, MustPoll, locals
<1>11. CASE StopPolling(t)
  BY <1>11 DEF StopPolling, Goto, MustPoll, locals
<1>12. CASE LockCq(t)
  BY <1>12 DEF LockCq, Goto, locals
<1>13. CASE PollCq(t)
  BY <1>13 DEF PollCq, SetReq, Goto, locals
<1>14. CASE UnlockCq(t)
  BY <1>14 DEF UnlockCq, Goto, locals
<1>15. CASE DoneDec(t)
  BY <1>15 DEF DoneDec, SetReq, Goto, locals
<1>16. CASE DoneFree(t)
  BY <1>16 DEF DoneFree, Goto, locals
<1>17. CASE Return(t)
  BY <1>17 DEF Return, Goto, locals
<1>18. CASE Complete(t)
  BY <1>18 DEF Complete, SetReq, locals
<1>19. CASE CompleteInError(t)
  BY <1>19 DEF CompleteInError, SetReq, locals
<1> QED BY <1>1, <1>2, <1>3, <1>4, <1>5, <1>6, <1>7, <1>8, <1>9, <1>10, <1>11,
       <1>12, <1>13, <1>14, <1>15, <1>16, <1>17, <1>18, <1>19 DEF Step,
       ThreadStep

(* A thread's place tells the state of its request. *)
LEMMA StepStages ==
  ASSUME QInv, NEW t \in Thread, Step(t)
  PROVE  Stages'
<1> USE QueueAssumption DEF QInv, Types, Label, CountedStates, Stages, Holding
<1>1. CASE Call(t)
  BY <1>1 DEF Call, Goto, locals
<1>2. CASE Admit(t)
  BY <1>2 DEF Admit, Goto, locals
<1>3. CASE BackPressure(t)
  BY <1>3 DEF BackPressure, Goto, locals
<1>4. CASE InflightBug(t)
  BY <1>4 DEF InflightBug, Goto, locals
<1>5. CASE GetReq(t)
  BY <1>5 DEF GetReq, SetReq, Goto, locals
<1>6. CASE AllocFails(t)
  BY <1>6 DEF AllocFails, Goto, locals
<1>7. CASE MapFails(t)
  BY <1>7 DEF MapFails, Fail, BadFree, Goto, locals
<1>8. CASE PostSend(t)
  BY <1>8 DEF PostSend, SetReq, Goto, locals
<1>9. CASE PostFails(t)
  BY <1>9 DEF PostFails, Fail, Goto, locals
<1>10. CASE KeepPolling(t)
  BY <1>10 DEF KeepPolling, Goto, MustPoll, locals
<1>11. CASE StopPolling(t)
  <2>1. pc[t] = "test" /\ ~MustPoll(t) /\ req' = req /\ draining' = draining
    BY <1>11 DEF StopPolling
  <2>2. pc' = [pc EXCEPT ![t] = IF draining[t] THEN "return" ELSE "check"]
    BY <1>11 DEF StopPolling, Goto
  <2>3. CASE draining[t]
    <3>1. req[t] = "none"
      BY <2>1, <2>3, DrainedMeansNone DEF MustPoll
    <3> QED BY <2>1, <2>2, <2>3, <3>1
  <2>4. CASE ~draining[t]
    BY <2>1, <2>2, <2>4
  <2> QED BY <2>3, <2>4
<1>12. CASE LockCq(t)
  BY <1>12 DEF LockCq, Goto, locals
<1>13. CASE PollCq(t)
  BY <1>13 DEF PollCq, SetReq, Goto, locals
<1>14. CASE UnlockCq(t)
  BY <1>14 DEF UnlockCq, Goto, locals
<1>15. CASE DoneDec(t)
  BY <1>15 DEF DoneDec, SetReq, Goto, locals, Polling
<1>16. CASE DoneFree(t)
  BY <1>16 DEF DoneFree, Goto, locals
<1>17. CASE Return(t)
  BY <1>17 DEF Return, Goto, locals
<1>18. CASE Complete(t)
  BY <1>18 DEF Complete, SetReq, locals
<1>19. CASE CompleteInError(t)
  BY <1>19 DEF CompleteInError, SetReq, locals
<1> QED BY <1>1, <1>2, <1>3, <1>4, <1>5, <1>6, <1>7, <1>8, <1>9, <1>10, <1>11,
       <1>12, <1>13, <1>14, <1>15, <1>16, <1>17, <1>18, <1>19 DEF Step,
       ThreadStep

(* What a completion reports has arrived. *)
LEMMA StepArrived ==
  ASSUME QInv, NEW t \in Thread, Step(t)
  PROVE  Arrived'
<1> USE QueueAssumption DEF QInv, Types, Label, CountedStates, Stages, Arrived
<1>1. CASE Call(t)
  BY <1>1 DEF Call, Goto, locals
<1>2. CASE Admit(t)
  BY <1>2 DEF Admit, Goto, locals
<1>3. CASE BackPressure(t)
  BY <1>3 DEF BackPressure, Goto, locals
<1>4. CASE InflightBug(t)
  BY <1>4 DEF InflightBug, Goto, locals
<1>5. CASE GetReq(t)
  BY <1>5 DEF GetReq, SetReq, Goto, locals
<1>6. CASE AllocFails(t)
  BY <1>6 DEF AllocFails, Goto, locals
<1>7. CASE MapFails(t)
  BY <1>7 DEF MapFails, Fail, BadFree, Goto, locals
<1>8. CASE PostSend(t)
  BY <1>8 DEF PostSend, SetReq, Goto, locals
<1>9. CASE PostFails(t)
  BY <1>9 DEF PostFails, Fail, Goto, locals
<1>10. CASE KeepPolling(t)
  BY <1>10 DEF KeepPolling, Goto, MustPoll, locals
<1>11. CASE StopPolling(t)
  BY <1>11 DEF StopPolling, Goto, MustPoll, locals
<1>12. CASE LockCq(t)
  BY <1>12 DEF LockCq, Goto, locals
<1>13. CASE PollCq(t)
  BY <1>13 DEF PollCq, SetReq, Goto, locals
<1>14. CASE UnlockCq(t)
  BY <1>14 DEF UnlockCq, Goto, locals
<1>15. CASE DoneDec(t)
  BY <1>15 DEF DoneDec, SetReq, Goto, locals, Polling
<1>16. CASE DoneFree(t)
  BY <1>16 DEF DoneFree, Goto, locals
<1>17. CASE Return(t)
  BY <1>17 DEF Return, Goto, locals
<1>18. CASE Complete(t)
  BY <1>18 DEF Complete, SetReq, locals
<1>19. CASE CompleteInError(t)
  BY <1>19 DEF CompleteInError, SetReq, locals
<1> QED BY <1>1, <1>2, <1>3, <1>4, <1>5, <1>6, <1>7, <1>8, <1>9, <1>10, <1>11,
       <1>12, <1>13, <1>14, <1>15, <1>16, <1>17, <1>18, <1>19 DEF Step,
       ThreadStep


(* How a step changes the set of requests on their way. *)
LEMMA StepCounted ==
  ASSUME QInv, NEW t \in Thread, Step(t)
  PROVE  IF GetReq(t) THEN Counted' = Counted \cup {t} /\ t \notin Counted
         ELSE IF DoneDec(t) THEN Counted' = Counted \ {cur[t]} /\ cur[t] \in Counted
         ELSE Counted' = Counted
<1> USE DEF QInv, Types, CountedStates
<1>1. CASE GetReq(t)
  BY <1>1 DEF GetReq, SetReq, Counted, Stages
<1>2. CASE DoneDec(t)
  <2>1. ~GetReq(t)
    BY <1>2 DEF GetReq, DoneDec
  <2>2. req[cur[t]] = "unmapped" /\ cur[t] \in Thread
    BY <1>2 DEF DoneDec, Polling
  <2>3. req' = [req EXCEPT ![cur[t]] = "none"]
    BY <1>2 DEF DoneDec, SetReq
  <2> QED BY <1>2, <2>1, <2>2, <2>3 DEF Counted
<1>3. CASE PostSend(t)
  BY <1>3 DEF PostSend, SetReq, Counted, Stages, GetReq, DoneDec
<1>4. CASE PollCq(t)
  BY <1>4 DEF PollCq, SetReq, Counted, GetReq, DoneDec
<1>5. CASE Complete(t) \/ CompleteInError(t)
  BY <1>5 DEF Complete, CompleteInError, SetReq, Counted, GetReq, DoneDec, Goto
<1>6. CASE /\ ~GetReq(t) /\ ~DoneDec(t) /\ ~PostSend(t) /\ ~PollCq(t)
           /\ ~Complete(t) /\ ~CompleteInError(t)
  <2>1. req' = req
    BY <1>6 DEF Step, ThreadStep, Call, Admit, BackPressure, InflightBug, AllocFails,
                MapFails, BadFree, PostFails, Fail, KeepPolling, StopPolling, LockCq, UnlockCq,
                DoneFree, Return
  <2> QED BY <1>6, <2>1 DEF Counted
<1> QED BY <1>1, <1>2, <1>3, <1>4, <1>5, <1>6

(* The cardinality of a finite set to which one element is added, or from   *)
(* which one is removed.                                                    *)
LEMMA CountOne ==
  ASSUME NEW S, IsFiniteSet(S), NEW x
  PROVE  /\ x \notin S => Cardinality(S \cup {x}) = Cardinality(S) + 1
         /\ x \in S => Cardinality(S \ {x}) = Cardinality(S) - 1
         /\ Cardinality(S) \in Nat
BY FS_AddElement, FS_RemoveElement, FS_CardinalityType

(* What a step does to the counters. *)
LEMMA StepCounters ==
  ASSUME QInv, NEW t \in Thread, Step(t)
  PROVE  /\ pending' = IF GetReq(t) THEN pending + 1
                       ELSE IF DoneDec(t) THEN pending - 1 ELSE pending
         /\ reqs' = IF GetReq(t) \/ MapFails(t) THEN reqs + 1
                    ELSE IF DoneFree(t) THEN reqs - 1 ELSE reqs
BY DEF Step, ThreadStep, Call, Admit, BackPressure, InflightBug, GetReq, AllocFails,
       MapFails, BadFree, PostSend, PostFails, Fail, KeepPolling, StopPolling, LockCq, PollCq,
       UnlockCq, DoneDec, DoneFree, Return, Complete, CompleteInError, Goto, locals

(* pending stays the number of requests on their way. *)
LEMMA StepPendingCounts ==
  ASSUME QInv, NEW t \in Thread, Step(t)
  PROVE  PendingCounts'
<1>1. IsFiniteSet(Counted) /\ pending = Cardinality(Counted)
  BY CountedFinite DEF QInv, PendingCounts
<1> QED BY <1>1, StepCounted, StepCounters, CountOne DEF PendingCounts

(* Which steps begin and end the freeing of a request. *)
LEMMA StepFreeing ==
  ASSUME QInv, NEW t \in Thread, Step(t)
  PROVE  IF DoneDec(t) THEN Freeing' = Freeing \cup {t} /\ t \notin Freeing
         ELSE IF DoneFree(t) THEN Freeing' = Freeing \ {t} /\ t \in Freeing
         ELSE Freeing' = Freeing
<1> USE DEF QInv, Types, Label
<1>1. CASE DoneDec(t)
  BY <1>1 DEF DoneDec, Goto, Freeing
<1>2. CASE DoneFree(t)
  BY <1>2 DEF DoneFree, DoneDec, Goto, Freeing
<1>3. CASE ~DoneDec(t) /\ ~DoneFree(t)
  <2>1. ASSUME NEW u \in Thread PROVE pc'[u] = "free" <=> pc[u] = "free"
    BY <1>3 DEF Step, ThreadStep, Call, Admit, BackPressure, InflightBug, GetReq,
                AllocFails, MapFails, BadFree, PostSend, PostFails, Fail, KeepPolling,
                StopPolling, LockCq, PollCq, UnlockCq, Return, Complete,
                CompleteInError, Goto
  <2> QED BY <1>3, <2>1 DEF Freeing
<1> QED BY <1>1, <1>2, <1>3

(* Every object of req_cache stays accounted for. *)
LEMMA StepAllocated ==
  ASSUME QInv, NEW t \in Thread, Step(t)
  PROVE  Allocated'
<1>1. Live = Counted /\ Live' = Counted'
  BY StepTypes DEF QInv, Types, CountedStates, Live, Counted
<1>2. /\ IsFiniteSet(Counted) /\ IsFiniteSet(Freeing)
      /\ Cardinality(Counted) \in Nat /\ Cardinality(Freeing) \in Nat
  BY CountedFinite, ThreadAssumption, FS_Subset, FS_CardinalityType DEF Freeing
<1>3. /\ reqs \in Int
      /\ reqs >= Cardinality(Counted) + Cardinality(Freeing)
      /\ MapMayFail = FALSE => reqs = Cardinality(Counted) + Cardinality(Freeing)
  BY <1>1 DEF QInv, Types, Allocated
<1>4. CASE GetReq(t)
  <2>1. ~DoneDec(t) /\ ~DoneFree(t)
    BY <1>4 DEF GetReq, DoneDec, DoneFree
  <2>2. /\ Counted' = Counted \cup {t} /\ t \notin Counted
        /\ Freeing' = Freeing /\ reqs' = reqs + 1
    BY <1>4, <2>1, StepCounted, StepCounters, StepFreeing
  <2>3. Cardinality(Counted') = Cardinality(Counted) + 1
    BY <1>2, <2>2, CountOne
  <2> QED BY <1>1, <1>2, <1>3, <2>2, <2>3 DEF Allocated
<1>5. CASE DoneDec(t)
  <2>1. ~GetReq(t) /\ ~MapFails(t) /\ ~DoneFree(t)
    BY <1>5 DEF GetReq, DoneDec, DoneFree, MapFails
  <2>2. /\ Counted' = Counted \ {cur[t]} /\ cur[t] \in Counted
        /\ Freeing' = Freeing \cup {t} /\ t \notin Freeing /\ reqs' = reqs
    BY <1>5, <2>1, StepCounted, StepCounters, StepFreeing
  <2>3. Cardinality(Counted') = Cardinality(Counted) - 1
    BY <1>2, <2>2, CountOne
  <2>4. Cardinality(Freeing') = Cardinality(Freeing) + 1
    BY <1>2, <2>2, CountOne
  <2> QED BY <1>1, <1>2, <1>3, <2>2, <2>3, <2>4 DEF Allocated
<1>6. CASE DoneFree(t)
  <2>1. ~GetReq(t) /\ ~MapFails(t) /\ ~DoneDec(t)
    BY <1>6 DEF GetReq, DoneDec, DoneFree, MapFails
  <2>2. /\ Counted' = Counted /\ reqs' = reqs - 1
        /\ Freeing' = Freeing \ {t} /\ t \in Freeing
    BY <1>6, <2>1, StepCounted, StepCounters, StepFreeing
  <2>3. Cardinality(Freeing') = Cardinality(Freeing) - 1
    BY <1>2, <2>2, CountOne
  <2> QED BY <1>1, <1>2, <1>3, <2>2, <2>3 DEF Allocated
<1>7. CASE MapFails(t)
  <2>1. pc[t] = "get" /\ pc'[t] # "post" /\ MapMayFail
    BY <1>7 DEF MapFails, Fail, BadFree, Goto, QInv, Types
  <2>2. ~GetReq(t) /\ ~DoneFree(t) /\ ~DoneDec(t)
    BY <2>1 DEF GetReq, DoneDec, DoneFree, Goto, QInv, Types
  <2>3. Counted' = Counted /\ Freeing' = Freeing /\ reqs' = reqs + 1
    BY <1>7, <2>2, StepCounted, StepCounters, StepFreeing
  <2> QED BY <1>1, <1>2, <1>3, <2>1, <2>3 DEF Allocated
<1>8. CASE ~GetReq(t) /\ ~DoneDec(t) /\ ~DoneFree(t) /\ ~MapFails(t)
  BY <1>1, <1>3, <1>8, StepCounted, StepCounters, StepFreeing DEF Allocated
<1> QED BY <1>4, <1>5, <1>6, <1>7, <1>8

(* The send queue has a place for every thread that posts. *)
LEMMA RoomToPost ==
  ASSUME QInv, PostSafe, NEW t \in Thread, pc[t] = "post"
  PROVE  Cardinality(InSendQueue) < MaxSendWr /\ Cardinality(InSendQueue) \in Nat
<1>1. InSendQueue \subseteq Thread \ {t}
  BY DEF InSendQueue, QInv, Stages
<1>2. /\ Cardinality(Thread \ {t}) = Cardinality(Thread) - 1
      /\ IsFiniteSet(Thread \ {t})
      /\ Cardinality(Thread) \in Nat
  BY ThreadAssumption, FS_RemoveElement, FS_CardinalityType
<1>3. Cardinality(InSendQueue) <= Cardinality(Thread \ {t})
  BY <1>1, <1>2, FS_Subset
<1>4. Cardinality(InSendQueue) \in Nat
  BY <1>1, <1>2, FS_Subset, FS_CardinalityType
<1> QED BY <1>2, <1>3, <1>4, QueueAssumption DEF PostSafe

(* So ib_post_send never fails. *)
LEMMA PostNeverFails ==
  ASSUME QInv, PostSafe, NEW t \in Thread
  PROVE  ~PostFails(t)
<1> SUFFICES ASSUME PostFails(t) PROVE FALSE
  OBVIOUS
<1>1. pc[t] = "post" /\ (PostMayFail \/ Cardinality(InSendQueue) >= MaxSendWr)
  BY Zenon DEF PostFails
<1>2. ~(Cardinality(InSendQueue) >= MaxSendWr)
  <2>1. pc[t] = "post"
    BY <1>1
  <2>2. Cardinality(InSendQueue) < MaxSendWr /\ Cardinality(InSendQueue) \in Nat
    BY <2>1, RoomToPost
  <2> QED BY <2>2, QueueAssumption
<1> QED BY <1>1, <1>2, Zenon DEF PostSafe

(* Nor is pending ever above the size of the send queue then. *)
LEMMA PendingInRange ==
  ASSUME QInv, PostSafe
  PROVE  ~(pending > MaxSendWr)
BY CountedFinite, QueueAssumption DEF QInv, PendingCounts, PostSafe

(* A counted request is one that is being posted. *)
LEMMA StepPosting ==
  ASSUME QInv, NEW t \in Thread, Step(t)
  PROVE  Posting'
<1> USE QueueAssumption DEF QInv, Types, Label, CountedStates, Posting, PostSafe
<1>1. CASE Call(t)
  BY <1>1 DEF Call, Goto, locals
<1>2. CASE Admit(t)
  BY <1>2 DEF Admit, Goto, locals
<1>3. CASE BackPressure(t)
  BY <1>3 DEF BackPressure, Goto, locals
<1>4. CASE InflightBug(t)
  BY <1>4, PendingInRange DEF InflightBug, Goto, locals, PostSafe
<1>5. CASE GetReq(t)
  BY <1>5 DEF GetReq, SetReq, Goto, locals
<1>6. CASE AllocFails(t)
  BY <1>6 DEF AllocFails, Goto, locals
<1>7. CASE MapFails(t)
  BY <1>7 DEF MapFails, Fail, BadFree, Goto, locals
<1>8. CASE PostSend(t)
  BY <1>8 DEF PostSend, SetReq, Goto, locals
<1>9. CASE PostFails(t)
  BY <1>9, PostNeverFails
<1>10. CASE KeepPolling(t)
  BY <1>10 DEF KeepPolling, Goto, MustPoll, locals
<1>11. CASE StopPolling(t)
  BY <1>11 DEF StopPolling, Goto, MustPoll, locals
<1>12. CASE LockCq(t)
  BY <1>12 DEF LockCq, Goto, locals
<1>13. CASE PollCq(t)
  BY <1>13 DEF PollCq, SetReq, Goto, locals
<1>14. CASE UnlockCq(t)
  BY <1>14 DEF UnlockCq, Goto, locals
<1>15. CASE DoneDec(t)
  BY <1>15 DEF DoneDec, SetReq, Goto, locals
<1>16. CASE DoneFree(t)
  BY <1>16 DEF DoneFree, Goto, locals
<1>17. CASE Return(t)
  BY <1>17 DEF Return, Goto, locals
<1>18. CASE Complete(t)
  BY <1>18 DEF Complete, SetReq, locals
<1>19. CASE CompleteInError(t)
  BY <1>19 DEF CompleteInError, SetReq, locals
<1> QED BY <1>1, <1>2, <1>3, <1>4, <1>5, <1>6, <1>7, <1>8, <1>9, <1>10, <1>11,
       <1>12, <1>13, <1>14, <1>15, <1>16, <1>17, <1>18, <1>19 DEF Step,
       ThreadStep

-----------------------------------------------------------------------------
(* A queue nobody has used yet satisfies the invariant. *)
LEMMA InitQInv == Init => QInv
<1> SUFFICES ASSUME Init PROVE QInv
  OBVIOUS
<1> USE DEF Init
<1>1. Types
  BY QueueAssumption DEF Types, Label, CountedStates
<1>2. Counted = {} /\ Live = {} /\ Freeing = {}
  BY DEF Counted, CountedStates, Live, Freeing
<1>3. PendingCounts /\ Allocated
  BY <1>2, FS_EmptySet DEF PendingCounts, Allocated
<1>4. Polling /\ Stages /\ Posting
  BY DEF Polling, Stages, Posting, Holding
<1>5. Arrived
  BY DEF Arrived
<1> QED BY <1>1, <1>3, <1>4, <1>5 DEF QInv

(* Every step of a thread and of the adapter preserves it. *)
LEMMA NextQInv == QInv /\ [Next]_vars => QInv'
<1> SUFFICES ASSUME QInv, [Next]_vars PROVE QInv'
  OBVIOUS
<1>1. CASE Next
  <2>1. PICK t \in Thread : Step(t)
    BY <1>1 DEF Next, Step
  <2> QED BY <2>1, StepTypes, StepPolling, StepStages, StepPendingCounts, StepArrived,
             StepAllocated, StepPosting DEF QInv
<1>2. CASE UNCHANGED vars
  <2>1. UNCHANGED <<Counted, Live, Freeing>>
    BY <1>2 DEF vars, Counted, Live, Freeing
  <2> QED BY <1>2, <2>1 DEF QInv, Types, Polling, Stages, PendingCounts, Arrived,
                          Allocated, Posting, vars, locals
<1> QED BY <1>1, <1>2

(* It holds in every reachable state. *)
LEMMA Invariance == Spec => []QInv
BY InitQInv, NextQInv, PTL DEF Spec

-----------------------------------------------------------------------------
(* Every state of a queue has its type; in particular pending and the       *)
(* number of allocated requests never fall below zero.                      *)
THEOREM TypeCorrect == Spec => []TypeOK
<1>1. QInv => TypeOK
  <2> SUFFICES ASSUME QInv PROVE TypeOK
    OBVIOUS
  <2>1. pending \in Nat
    BY CountedFinite DEF QInv, PendingCounts
  <2>2. Cardinality(Live) \in Nat /\ Cardinality(Freeing) \in Nat
    BY ThreadAssumption, FS_Subset, FS_CardinalityType DEF Live, Freeing
  <2>3. reqs \in Nat
    BY <2>2 DEF QInv, Types, Allocated
  <2> QED BY <2>1, <2>3 DEF QInv, Types, TypeOK, Label
<1> QED BY <1>1, Invariance, PTL

(* drain_queue (lines 734-743) waits for a counter that all threads of the  *)
(* queue share; all the same, whatever fails, a call that returns has no    *)
(* request on its way.                                                      *)
THEOREM CallsDrainTheirOwn == Spec => []DrainCoversOwn
<1>1. QInv => DrainCoversOwn
  BY DEF QInv, Stages, DrainCoversOwn
<1> QED BY <1>1, Invariance, PTL

(* pending (multiswap_rdma.h:47) is exact as long as ib_post_send cannot    *)
(* fail and no more threads share the queue than its send queue has places. *)
THEOREM PendingIsExact ==
  ASSUME PostMayFail = FALSE, Cardinality(Thread) <= MaxSendWr
  PROVE  Spec => []PendingExact
<1>1. QInv => PendingExact
  <2> SUFFICES ASSUME QInv PROVE PendingExact
    OBVIOUS
  <2>1. Counted = {t \in Thread : pc[t] = "post"} \cup
                    (Counted \ {t \in Thread : req[t] = "counted"})
    BY DEF Counted, CountedStates, QInv, Stages, Posting, PostSafe
  <2> QED BY <2>1 DEF QInv, PendingCounts, PendingExact
<1> QED BY <1>1, Invariance, PTL

(* When no work request completes with an error, a call that returns 0 has  *)
(* moved its page: what sswap_store and sswap_load tell frontswap is true.  *)
THEOREM SuccessMeansMoved ==
  ASSUME WcMayFail = FALSE
  PROVE  Spec => []ReturnMeansMoved
<1>1. QInv => ReturnMeansMoved
  <2> SUFFICES ASSUME QInv, NEW t \in Thread, pc[t] = "return", ret[t]
               PROVE  t \in moved
    BY DEF ReturnMeansMoved
  <2>1. req[t] = "none" /\ draining[t]
    BY DEF QInv, Stages
  <2> QED BY <2>1 DEF QInv, Arrived
<1> QED BY <1>1, Invariance, PTL

(* And sswap_rdma_read_done never unlocks a page before its data is there.  *)
THEOREM UnlockedPagesArrived ==
  ASSUME WcMayFail = FALSE
  PROVE  Spec => []UnlockedMeansMoved
<1>1. QInv => UnlockedMeansMoved
  BY DEF QInv, Arrived, UnlockedMeansMoved
<1> QED BY <1>1, Invariance, PTL

(* As long as neither ib_dma_map_page nor a post can fail, no object of     *)
(* req_cache is lost (multiswap_rdma.c:531, 554, 652), although the handler *)
(* that frees it may be run by another thread and may report an error.      *)
THEOREM RequestsFreed ==
  ASSUME MapMayFail = FALSE, PostMayFail = FALSE, Cardinality(Thread) <= MaxSendWr
  PROVE  Spec => []NoRequestLeaks
<1>1. QInv => NoRequestLeaks
  <2> SUFFICES ASSUME QInv PROVE NoRequestLeaks
    OBVIOUS
  <2>1. Live = {t \in Thread : \/ req[t] \in CountedStates \ {"counted"}
                               \/ pc[t] = "post"}
    BY DEF Live, CountedStates, QInv, Types, Stages, Posting, PostSafe
  <2>2. reqs = Cardinality(Live) + Cardinality(Freeing)
    BY DEF QInv, Allocated
  <2> QED BY <2>1, <2>2 DEF Freeing, NoRequestLeaks
<1> QED BY <1>1, Invariance, PTL

(* The check of pending (lines 754-759, 779-786) and the post are separate  *)
(* steps, so it is the number of threads and not the check that keeps the   *)
(* send queue from overflowing: with at most QP_MAX_SEND_WR threads on a    *)
(* queue no post finds it full and no BUG_ON is met.                        *)
THEOREM FewThreadsNeverOverrun ==
  ASSUME Cardinality(Thread) <= MaxSendWr,
         AllocMayFail = FALSE, MapMayFail = FALSE, PostMayFail = FALSE
  PROVE  Spec => []SendQueueHasRoom
<1>1. QInv => SendQueueHasRoom
  BY RoomToPost DEF QInv, Posting, PostSafe, SendQueueHasRoom
<1> QED BY <1>1, Invariance, PTL
-----------------------------------------------------------------------------
(* The queue implements PageTransfer.  Beyond QInv this needs to know that  *)
(* a request the adapter has belongs to a call in good order, that a page   *)
(* moves once, and that a call that fails has given the adapter nothing.    *)
Moves ==
  \A t \in Thread :
    /\ req[t] \in {"sent", "done", "unmapped"} => draining[t] /\ ret[t]
    /\ ~ret[t] => draining[t]
    /\ t \in moved => draining[t] /\ ret[t] /\ req[t] \in {"done", "unmapped", "none"}
    /\ Op = "read" /\ t \in moved /\ req[t] \in {"unmapped", "none"} => t \in unlocked

(* Every step preserves it, as long as no request completes in error. *)
LEMMA StepMoves ==
  ASSUME QInv, Moves, WcMayFail = FALSE, NEW t \in Thread, Step(t)
  PROVE  Moves'
<1> USE QueueAssumption DEF QInv, Types, Label, CountedStates, Stages, Moves
<1>1. CASE Call(t)
  BY <1>1 DEF Call, Goto, locals
<1>2. CASE Admit(t)
  BY <1>2 DEF Admit, Goto, locals
<1>3. CASE BackPressure(t)
  BY <1>3 DEF BackPressure, Goto, locals
<1>4. CASE InflightBug(t)
  BY <1>4 DEF InflightBug, Goto, locals
<1>5. CASE GetReq(t)
  BY <1>5 DEF GetReq, SetReq, Goto, locals
<1>6. CASE AllocFails(t)
  BY <1>6 DEF AllocFails, Goto, locals
<1>7. CASE MapFails(t)
  BY <1>7 DEF MapFails, Fail, BadFree, Goto, locals
<1>8. CASE PostSend(t)
  BY <1>8 DEF PostSend, SetReq, Goto, locals
<1>9. CASE PostFails(t)
  BY <1>9 DEF PostFails, Fail, Goto, locals
<1>10. CASE KeepPolling(t)
  BY <1>10 DEF KeepPolling, Goto, locals
<1>11. CASE StopPolling(t)
  BY <1>11 DEF StopPolling, Goto, locals
<1>12. CASE LockCq(t)
  BY <1>12 DEF LockCq, Goto, locals
<1>13. CASE PollCq(t)
  BY <1>13 DEF PollCq, SetReq, Goto, locals
<1>14. CASE UnlockCq(t)
  BY <1>14 DEF UnlockCq, Goto, locals
<1>15. CASE DoneDec(t)
  BY <1>15 DEF DoneDec, SetReq, Goto, Polling, locals
<1>16. CASE DoneFree(t)
  BY <1>16 DEF DoneFree, Goto, locals
<1>17. CASE Return(t)
  BY <1>17 DEF Return, Goto, locals
<1>18. CASE Complete(t)
  BY <1>18 DEF Complete, SetReq, locals
<1> QED BY <1>1, <1>2, <1>3, <1>4, <1>5, <1>6, <1>7, <1>8, <1>9, <1>10, <1>11,
       <1>12, <1>13, <1>14, <1>15, <1>16, <1>17, <1>18 DEF Step, ThreadStep,
       CompleteInError

(* The steps between which nobody outside can tell: the checks, the polling *)
(* and the bookkeeping of the counters.                                     *)
Quiet(t) ==
  \/ Admit(t) \/ BackPressure(t) \/ InflightBug(t) \/ GetReq(t) \/ AllocFails(t) \/ PostSend(t)
  \/ KeepPolling(t) \/ StopPolling(t) \/ LockCq(t) \/ UnlockCq(t) \/ DoneDec(t) \/ DoneFree(t)

LEMMA QuietSteps ==
  ASSUME QInv, Moves, NEW t \in Thread, Quiet(t)
  PROVE  UNCHANGED phaseMapping
<1> USE DEF QInv, Types, CountedStates, Stages, Moves, phaseMapping, Released
<1>1. CASE Admit(t)
  BY <1>1 DEF Admit, Goto, locals
<1>2. CASE BackPressure(t)
  BY <1>2 DEF BackPressure, Goto, locals
<1>3. CASE InflightBug(t)
  BY <1>3 DEF InflightBug, Goto, locals
<1>4. CASE GetReq(t)
  BY <1>4 DEF GetReq, SetReq, Goto, locals
<1>5. CASE AllocFails(t)
  BY <1>5 DEF AllocFails, Goto, locals
<1>6. CASE PostSend(t)
  BY <1>6 DEF PostSend, SetReq, Goto, locals
<1>7. CASE KeepPolling(t)
  BY <1>7 DEF KeepPolling, Goto, locals
<1>8. CASE StopPolling(t)
  BY <1>8 DEF StopPolling, Goto, locals
<1>9. CASE LockCq(t)
  BY <1>9 DEF LockCq, Goto, locals
<1>10. CASE UnlockCq(t)
  BY <1>10 DEF UnlockCq, Goto, locals
<1>11. CASE DoneDec(t)
  BY <1>11 DEF DoneDec, SetReq, Goto, Polling, locals
<1>12. CASE DoneFree(t)
  BY <1>12 DEF DoneFree, Goto, locals
<1> QED BY <1>1, <1>2, <1>3, <1>4, <1>5, <1>6, <1>7, <1>8, <1>9, <1>10, <1>11, <1>12 DEF Quiet

(* A step that only changes the phase of one call is a step of PageTransfer *)
(* if that change is one.                                                   *)
LEMMA PassIs ==
  ASSUME NEW t \in Thread, NEW from, NEW to,
         phaseMapping[t] = from, phaseMapping'[t] = to,
         \A r \in Thread \ {t} : phaseMapping'[r] = phaseMapping[r]
  PROVE  Promise!Pass(t, from, to)
<1>1. phaseMapping = [r \in Thread |-> phaseMapping[r]]
  BY DEF phaseMapping
<1>2. phaseMapping' = [r \in Thread |-> phaseMapping'[r]]
  BY DEF phaseMapping
<1>3. phaseMapping' = [phaseMapping EXCEPT ![t] = to]
  BY <1>1, <1>2
<1> QED BY <1>3 DEF Promise!Pass

(* Every step of a thread and of the adapter is a step of PageTransfer, or  *)
(* a stutter.                                                               *)
LEMMA StepTransfers ==
  ASSUME QInv, Moves, WcMayFail = FALSE, NEW t \in Thread, Step(t)
  PROVE  Promise!Next \/ UNCHANGED phaseMapping
<1> USE DEF QInv, Types, CountedStates, Stages, Moves
<1>1. CASE Call(t)
  <2>1. phaseMapping[t] = "idle" /\ phaseMapping'[t] = "called"
    BY <1>1 DEF Call, Goto, locals, phaseMapping
  <2>2. \A r \in Thread \ {t} : phaseMapping'[r] = phaseMapping[r]
    BY <1>1 DEF Call, Goto, locals, phaseMapping, Released
  <2>3. Promise!Begin(t)
    BY <2>1, <2>2, PassIs DEF Promise!Begin
  <2> QED BY <2>3 DEF Promise!Next
<1>2. CASE (MapFails(t) /\ Fail(t)) \/ PostFails(t)
  <2>1. phaseMapping[t] = "called" /\ phaseMapping'[t] = "refused"
    BY <1>2 DEF MapFails, PostFails, Fail, Goto, phaseMapping
  <2>2. \A r \in Thread \ {t} : phaseMapping'[r] = phaseMapping[r]
    BY <1>2 DEF MapFails, PostFails, Fail, Goto, phaseMapping, Released
  <2>3. Promise!Refuse(t)
    BY <2>1, <2>2, PassIs DEF Promise!Refuse
  <2> QED BY <2>3 DEF Promise!Next
<1>3. CASE Complete(t)
  <2>1. phaseMapping[t] = "called" /\ phaseMapping'[t] = "moved"
    BY <1>3 DEF Complete, SetReq, locals, phaseMapping, Released
  <2>2. \A r \in Thread \ {t} : phaseMapping'[r] = phaseMapping[r]
    BY <1>3 DEF Complete, SetReq, locals, phaseMapping, Released
  <2>3. Promise!Move(t)
    BY <2>1, <2>2, PassIs DEF Promise!Move
  <2> QED BY <2>3 DEF Promise!Next
<1>4. CASE PollCq(t)
  <2>1. PICK r \in Thread :
          /\ req[r] = "done" /\ req' = [req EXCEPT ![r] = "unmapped"]
          /\ unlocked' = IF Op = "read" THEN unlocked \cup {r} ELSE unlocked
    BY <1>4 DEF PollCq, SetReq
  <2>2. pc[t] = "poll" /\ pc' = [pc EXCEPT ![t] = "dec"] /\ UNCHANGED <<moved, ret>>
    BY <1>4 DEF PollCq, Goto
  <2>3. phaseMapping[r] = "moved" /\ phaseMapping'[r] = "released"
    BY <2>1, <2>2 DEF Arrived, phaseMapping, Released
  <2>4. \A x \in Thread \ {r} : phaseMapping'[x] = phaseMapping[x]
    BY <2>1, <2>2 DEF phaseMapping, Released
  <2>5. Promise!LetGo(r)
    BY <2>3, <2>4, PassIs DEF Promise!LetGo
  <2> QED BY <2>5 DEF Promise!Next
<1>5. CASE Return(t)
  <2>1. req[t] = "none" /\ draining[t]
    BY <1>5 DEF Return
  <2>2. phaseMapping'[t] = "idle"
    BY <1>5 DEF Return, Goto, phaseMapping
  <2>3. \A r \in Thread \ {t} : phaseMapping'[r] = phaseMapping[r]
    BY <1>5 DEF Return, Goto, phaseMapping, Released
  <2>4. CASE ret[t]
    <3>1. phaseMapping[t] = "released"
      BY <2>1, <2>4 DEF Arrived, phaseMapping, Released
    <3>2. Promise!Succeed(t)
      BY <3>1, <2>2, <2>3, PassIs DEF Promise!Succeed
    <3> QED BY <3>2 DEF Promise!Next
  <2>5. CASE ~ret[t]
    <3>1. phaseMapping[t] = "refused"
      BY <1>5, <2>5 DEF Return, phaseMapping
    <3>2. Promise!Report(t)
      BY <3>1, <2>2, <2>3, PassIs DEF Promise!Report
    <3> QED BY <3>2 DEF Promise!Next
  <2> QED BY <2>4, <2>5
<1>6. CASE MapFails(t) /\ BadFree(t)
  BY <1>6 DEF MapFails, BadFree, Goto, locals, phaseMapping, Released
<1>7. CASE Quiet(t)
  BY <1>7, QuietSteps
<1>8. MapFails(t) => Fail(t) \/ BadFree(t)
  BY DEF MapFails
<1> QED BY <1>1, <1>2, <1>3, <1>4, <1>5, <1>6, <1>7, <1>8
        DEF Step, ThreadStep, Quiet, CompleteInError

(* A queue in use by any number of threads, which poll each other's         *)
(* completions and share one counter, gives each call what the handlers     *)
(* take a transfer to be (multiswap_rdma.c:790-872, multiswap.c:95, 139).   *)
THEOREM Refinement ==
  ASSUME WcMayFail = FALSE
  PROVE  Spec => TransfersPages
<1>1. Init => QInv /\ Moves
  <2>1. Init => Moves
    BY DEF Init, Moves
  <2> QED BY <2>1, InitQInv
<1>2. QInv /\ Moves /\ [Next]_vars => QInv' /\ Moves'
  <2> SUFFICES ASSUME QInv, Moves, [Next]_vars PROVE Moves'
    BY NextQInv
  <2>1. CASE Next
    BY <2>1, StepMoves DEF Next, Step
  <2>2. CASE UNCHANGED vars
    BY <2>2 DEF vars, locals, Moves
  <2> QED BY <2>1, <2>2
<1>3. Init => Promise!Init
  BY DEF Init, Promise!Init, phaseMapping
<1>4. QInv /\ Moves /\ [Next]_vars => [Promise!Next]_phaseMapping
  <2> SUFFICES ASSUME QInv, Moves, [Next]_vars PROVE Promise!Next \/ UNCHANGED phaseMapping
    OBVIOUS
  <2>1. CASE Next
    BY <2>1, StepTransfers DEF Next, Step
  <2>2. CASE UNCHANGED vars
    BY <2>2 DEF vars, locals, phaseMapping, Released
  <2> QED BY <2>1, <2>2
<1> QED BY <1>1, <1>2, <1>3, <1>4, PTL DEF Spec, TransfersPages, Promise!Spec
=============================================================================
