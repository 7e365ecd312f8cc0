----------------------------- MODULE RelayProofs -----------------------------
(* Theorems about Relay, for every number of streams, topics and payloads and  *)
(* with Redis faults, expiry and process crashes: types, the safety of the     *)
(* topic index, and that of the history.                                      *)
EXTENDS Relay, SequenceTheorems, TLAPS

USE DEF local, loop, index, queue, redis, ghost, shared, client, env

\* What a handler in the middle of a request works on: its topic is a topic, its
\* payload was received, the recipient it aims at is a session; a stream that has
\* not opened has no handler.
InFlight ==
    \A s \in Sessions :
        /\ pc[s] \in PublishPcs \cup SubscribePcs => req[s].topic \in Topics
        /\ pc[s] \in PublishPcs => req[s].msg # 0
        /\ pc[s] = "aim" => aim[s] \in Sessions
        /\ req[s].msg <= Len(frames)
        /\ stream[s] = "new" => pc[s] = "off"

TypeInv == TypeOK /\ InFlight

\* tryEnqueue keeps the queue a sequence of responses within its capacity.
LEMMA TryEnqueueType ==
    ASSUME QueueType, NEW s \in Sessions, NEW m \in 0 .. MaxMsgs, TryEnqueue(s, m)
    PROVE  QueueType'
<1>1. /\ sendQ \in [Sessions -> Seq(0 .. MaxMsgs)]
      /\ sendQ[s] \in Seq(0 .. MaxMsgs)
      /\ Len(sendQ[s]) <= QueueCap
  BY DEF QueueType
<1>2. /\ Append(sendQ[s], m) \in Seq(0 .. MaxMsgs)
      /\ Len(Append(sendQ[s], m)) = Len(sendQ[s]) + 1
  BY <1>1
<1>3. /\ sendQ' = [sendQ EXCEPT ![s] = sendQ'[s]]
      /\ sendQ'[s] \in {sendQ[s], Append(sendQ[s], m)}
  BY <1>1 DEF TryEnqueue
<1>4. sendQ' \in [Sessions -> Seq(0 .. MaxMsgs)]
  BY <1>1, <1>2, <1>3
<1>5. ASSUME NEW x \in Sessions PROVE Len(sendQ'[x]) <= QueueCap
  <2>1. CASE x = s /\ CanEnqueue(s)
    BY <1>1, <1>2, <2>1, CapAssumption DEF TryEnqueue, CanEnqueue
  <2>2. CASE ~(x = s /\ CanEnqueue(s))
    BY <1>1, <2>2 DEF TryEnqueue, QueueType
  <2> QED BY <2>1, <2>2
<1>6. dropped' \in [Sessions -> SUBSET FrameIds] /\ qClosed' \in [Sessions -> BOOLEAN]
  BY BoundsAssumption DEF QueueType, TryEnqueue, FrameIds
<1> QED
  BY <1>4, <1>5, <1>6 DEF QueueType

\* Taking the head of a queue keeps it one.
LEMMA DequeueType ==
    ASSUME QueueType, NEW s \in Sessions, sendQ[s] # <<>>,
           sendQ' = [sendQ EXCEPT ![s] = Tail(@)]
    PROVE  /\ Head(sendQ[s]) \in 0 .. MaxMsgs
           /\ sendQ' \in [Sessions -> Seq(0 .. MaxMsgs)]
           /\ \A x \in Sessions : Len(sendQ'[x]) <= QueueCap
<1>1. sendQ \in [Sessions -> Seq(0 .. MaxMsgs)] /\ sendQ[s] \in Seq(0 .. MaxMsgs)
  BY DEF QueueType
<1>2. /\ Head(sendQ[s]) \in 0 .. MaxMsgs
      /\ Tail(sendQ[s]) \in Seq(0 .. MaxMsgs)
      /\ Len(Tail(sendQ[s])) = Len(sendQ[s]) - 1
  BY <1>1, HeadTailProperties
<1>3. sendQ' \in [Sessions -> Seq(0 .. MaxMsgs)]
  BY <1>1, <1>2
<1>4. ASSUME NEW x \in Sessions PROVE Len(sendQ'[x]) <= QueueCap
  <2>1. Len(sendQ[x]) <= QueueCap /\ Len(sendQ[s]) \in Nat
    BY <1>1 DEF QueueType
  <2> QED
    BY <1>1, <1>2, <2>1, CapAssumption
<1> QED
  BY <1>2, <1>3, <1>4

\* A payload is received: one more entry, the bound kept.
LEMMA NewFrameType ==
    ASSUME ClientType, NEW s \in Sessions, NEW t \in Topics, NEW term \in Terminal,
           Len(frames) < MaxMsgs, NewFrame(s, t, term)
    PROVE  frames' \in Seq(Frames) /\ Len(frames') = Len(frames) + 1 /\ Len(frames') <= MaxMsgs
<1>1. [from |-> s, topic |-> t, terminal |-> term] \in Frames
  BY SwitchAssumption DEF Frames
<1> QED
  BY <1>1, BoundsAssumption DEF ClientType, NewFrame

LEMMA ElemsType ==
    ASSUME NEW S, NEW q \in Seq(S)
    PROVE  Elems(q) \subseteq S
BY DEF Elems

LEMMA NoReqType == NoReq \in Requests
BY BoundsAssumption DEF NoReq, Requests, Ops

LEMMA CatchUpTailType ==
    ASSUME NEW S, NEW h1 \in Seq(S), NEW h2 \in Seq(S)
    PROVE  CatchUpTail(h1, h2) \in Seq(S)
BY DEF CatchUpTail

LEMMA NewestKeptType ==
    ASSUME NEW S, NEW q \in Seq(S), Len(q) > HistoryCap
    PROVE  NewestKept(q) \in Seq(S)
BY CapAssumption DEF NewestKept

\* The request of a busy handler.
LEMMA BusyRequest ==
    ASSUME TypeInv, NEW s \in Sessions
    PROVE  /\ req[s].msg \in 0 .. MaxMsgs
           /\ pc[s] \in PublishPcs => req[s].msg \in FrameIds
           /\ pc[s] \in PublishPcs \cup SubscribePcs =>
                 /\ req[s].topic \in Topics
                 /\ log[req[s].topic] \in Seq(FrameIds)
                 /\ Elems(log[req[s].topic]) \subseteq FrameIds
<1>1. req[s] \in Requests
  BY DEF TypeInv, TypeOK, HandlerType
<1>2. req[s].msg \in 0 .. MaxMsgs
  BY <1>1 DEF Requests
<1>3. pc[s] \in PublishPcs => req[s].msg \in FrameIds
  BY <1>2, BoundsAssumption DEF TypeInv, InFlight, FrameIds
<1>4. ASSUME pc[s] \in PublishPcs \cup SubscribePcs
      PROVE  req[s].topic \in Topics /\ log[req[s].topic] \in Seq(FrameIds)
  BY <1>4 DEF TypeInv, InFlight, TypeOK, RedisType
<1> QED
  BY <1>2, <1>3, <1>4, ElemsType

\* Leaving a topic keeps the index an index.
LEMMA LeaveTopicType ==
    ASSUME IndexType, NEW s \in Sessions, LeaveTopic(s)
    PROVE  IndexType'
BY DEF IndexType, LeaveTopic, BucketsWithout

LEMMA InitType == Init => TypeInv
BY BoundsAssumption, CapAssumption
   DEF Init, TypeInv, TypeOK, StreamType, HandlerType, IndexType, QueueType, RedisType,
       ClientType, GhostType, InFlight, Streams, Pcs, PublishPcs, SubscribePcs, BeforeJoin,
       Requests, Ops, NoReq, FrameIds, Writers, Frames
-----------------------------------------------------------------------------
\* Every action keeps the types; what a handler works on is part of the
\* induction, because addToTopic and tryEnqueue are typed through it.
LEMMA StepType == TypeInv /\ [Next]_vars => TypeInv'
<1> SUFFICES ASSUME TypeInv, [Next]_vars PROVE TypeInv'
  OBVIOUS
<1> USE BoundsAssumption DEF TypeInv, TypeOK, Pcs, PublishPcs, SubscribePcs, BeforeJoin, FrameIds, Goto
<1>1. ASSUME NEW s \in Sessions, Open(s)
      PROVE  TypeInv'
  <2>1. StreamType'
    BY <1>1 DEF StreamType, Open, Streams, Writers
  <2>2. HandlerType'
    BY <1>1 DEF HandlerType, Open
  <2>3. IndexType' /\ QueueType' /\ RedisType' /\ ClientType' /\ GhostType'
    BY <1>1 DEF Open, IndexType, QueueType, RedisType, ClientType, GhostType
  <2>4. InFlight'
    BY <1>1 DEF InFlight, HandlerType, StreamType, Open
  <2> QED
    BY <2>1, <2>2, <2>3, <2>4
<1>2. ASSUME NEW s \in Sessions, RecvFails(s)
      PROVE  TypeInv'
  <2>1. StreamType'
    BY <1>2 DEF StreamType, RecvFails, Streams
  <2>2. HandlerType'
    BY <1>2 DEF HandlerType, RecvFails
  <2>3. IndexType'
    BY <1>2, LeaveTopicType DEF IndexType, RecvFails, Detach
  <2>4. QueueType'
    BY <1>2 DEF QueueType, RecvFails, Detach
  <2>5. RedisType' /\ ClientType' /\ GhostType'
    BY <1>2 DEF RecvFails, RedisType, ClientType, GhostType
  <2>6. InFlight'
    BY <1>2 DEF InFlight, HandlerType, StreamType, RecvFails
  <2> QED
    BY <2>1, <2>2, <2>3, <2>4, <2>5, <2>6
<1>3. ASSUME NEW s \in Sessions, RejectRequest(s)
      PROVE  TypeInv'
  <2>1. QueueType'
    BY <1>3, TryEnqueueType DEF QueueType, RejectRequest
  <2>2. ClientType'
    BY <1>3 DEF ClientType, RejectRequest
  <2>3. StreamType' /\ HandlerType' /\ IndexType' /\ RedisType' /\ GhostType'
    BY <1>3 DEF RejectRequest, StreamType, HandlerType, IndexType, RedisType, GhostType
  <2>4. InFlight'
    BY <1>3 DEF InFlight, HandlerType, StreamType, RejectRequest
  <2> QED
    BY <2>1, <2>2, <2>3, <2>4
<1>4. ASSUME NEW s \in Sessions, SubLookup(s)
      PROVE  TypeInv'
  <2>1. HandlerType'
    BY <1>4 DEF HandlerType, SubLookup
  <2>2. StreamType' /\ IndexType' /\ QueueType' /\ RedisType' /\ ClientType' /\ GhostType'
    BY <1>4 DEF SubLookup, StreamType, IndexType, QueueType, RedisType, ClientType, GhostType
  <2>3. InFlight'
    BY <1>4 DEF InFlight, HandlerType, StreamType, SubLookup
  <2> QED
    BY <2>1, <2>2, <2>3
<1>5. ASSUME NEW s \in Sessions, SubRedis(s)
      PROVE  TypeInv'
  <2>1. HandlerType'
    BY <1>5 DEF HandlerType, SubRedis
  <2>2. StreamType' /\ IndexType' /\ QueueType' /\ RedisType' /\ ClientType' /\ GhostType'
    BY <1>5 DEF SubRedis, StreamType, IndexType, QueueType, RedisType, ClientType, GhostType
  <2>3. InFlight'
    BY <1>5 DEF InFlight, HandlerType, StreamType, SubRedis
  <2> QED
    BY <2>1, <2>2, <2>3
<1>6. ASSUME NEW s \in Sessions, EnsureBucket(s)
      PROVE  TypeInv'
  <2>1. HandlerType'
    BY <1>6 DEF HandlerType, EnsureBucket
  <2>2. IndexType'
    BY <1>6 DEF IndexType, EnsureBucket, InFlight, HandlerType
  <2>3. StreamType' /\ QueueType' /\ RedisType' /\ ClientType' /\ GhostType'
    BY <1>6 DEF EnsureBucket, StreamType, QueueType, RedisType, ClientType, GhostType
  <2>4. InFlight'
    BY <1>6 DEF InFlight, HandlerType, StreamType, EnsureBucket
  <2> QED
    BY <2>1, <2>2, <2>3, <2>4
<1>7. ASSUME NEW s \in Sessions, CreateTopic(s)
      PROVE  TypeInv'
  <2>1. HandlerType'
    BY <1>7 DEF HandlerType, CreateTopic
  <2>2. RedisType'
    BY <1>7 DEF RedisType, CreateTopic, InFlight, HandlerType
  <2>3. StreamType' /\ IndexType' /\ QueueType' /\ ClientType' /\ GhostType'
    BY <1>7 DEF CreateTopic, StreamType, IndexType, QueueType, ClientType, GhostType
  <2>4. InFlight'
    BY <1>7 DEF InFlight, HandlerType, StreamType, CreateTopic
  <2> QED
    BY <2>1, <2>2, <2>3, <2>4
<1>8. ASSUME NEW s \in Sessions, Leave(s)
      PROVE  TypeInv'
  <2>1. StreamType'
    BY <1>8 DEF StreamType, Leave
  <2>2. HandlerType'
    BY <1>8 DEF HandlerType, Leave
  <2>3. IndexType'
    BY <1>8, LeaveTopicType DEF IndexType, Leave, LeaveOldTopic
  <2>4. GhostType'
    BY <1>8 DEF GhostType, Leave
  <2>5. QueueType' /\ RedisType' /\ ClientType'
    BY <1>8 DEF Leave, QueueType, RedisType, ClientType
  <2>6. InFlight'
    BY <1>8 DEF InFlight, HandlerType, StreamType, Leave
  <2> QED
    BY <2>1, <2>2, <2>3, <2>4, <2>5, <2>6
<1>9. ASSUME NEW s \in Sessions, FetchHistory(s)
      PROVE  TypeInv'
  <2>1. HandlerType'
    <3>1. log[req[s].topic] \in Seq(FrameIds) /\ <<>> \in Seq(FrameIds)
      BY <1>9, BusyRequest DEF FetchHistory
    <3>2. hist' \in [Sessions -> Seq(FrameIds)]
      BY <1>9, <3>1 DEF FetchHistory, HandlerType
    <3> QED
      BY <1>9, <3>2 DEF FetchHistory, HandlerType
  <2>2. GhostType'
    BY <1>9, BusyRequest DEF GhostType, FetchHistory
  <2>3. StreamType' /\ IndexType' /\ QueueType' /\ RedisType' /\ ClientType'
    BY <1>9 DEF FetchHistory, StreamType, IndexType, QueueType, RedisType, ClientType
  <2>4. InFlight'
    BY <1>9 DEF InFlight, HandlerType, StreamType, FetchHistory
  <2> QED
    BY <2>1, <2>2, <2>3, <2>4
<1>10. ASSUME NEW s \in Sessions, Join(s)
      PROVE  TypeInv'
  <2>1. HandlerType'
    BY <1>10 DEF HandlerType, Join
  <2>2. IndexType'
    BY <1>10 DEF IndexType, Join, InFlight, HandlerType, BucketsWithout
  <2>3. StreamType' /\ QueueType' /\ RedisType' /\ ClientType' /\ GhostType'
    BY <1>10 DEF Join, StreamType, QueueType, RedisType, ClientType, GhostType
  <2>4. InFlight'
    BY <1>10 DEF InFlight, HandlerType, StreamType, Join
  <2> QED
    BY <2>1, <2>2, <2>3, <2>4
<1>11. ASSUME NEW s \in Sessions, ReplayNext(s)
      PROVE  TypeInv'
  <2>1. HandlerType'
    BY <1>11 DEF HandlerType, ReplayNext
  <2>2. QueueType'
    BY SMTT(30), <1>11, TryEnqueueType DEF QueueType, ReplayNext, HandlerType
  <2>3. StreamType' /\ IndexType' /\ RedisType' /\ ClientType' /\ GhostType'
    BY <1>11 DEF ReplayNext, StreamType, IndexType, RedisType, ClientType, GhostType
  <2>4. InFlight'
    BY <1>11 DEF InFlight, HandlerType, StreamType, ReplayNext
  <2> QED
    BY <2>1, <2>2, <2>3, <2>4
<1>12. ASSUME NEW s \in Sessions, FetchCatchUp(s)
      PROVE  TypeInv'
  <2>1. HandlerType'
    <3>1. log[req[s].topic] \in Seq(FrameIds) /\ hist[s] \in Seq(FrameIds)
      BY <1>12, BusyRequest DEF FetchCatchUp, HandlerType
    <3>2. CatchUpTail(hist[s], log[req[s].topic]) \in Seq(FrameIds) /\ <<>> \in Seq(FrameIds)
      BY <3>1, CatchUpTailType
    <3>3. todo' \in [Sessions -> Seq(FrameIds)]
      BY <1>12, <3>2 DEF FetchCatchUp, HandlerType
    <3>4. hist' \in [Sessions -> Seq(FrameIds)]
      BY <1>12, <3>2 DEF FetchCatchUp, HandlerType
    <3> QED
      BY <1>12, <3>3, <3>4 DEF FetchCatchUp, HandlerType
  <2>2. GhostType'
    BY <1>12 DEF GhostType, FetchCatchUp
  <2>3. StreamType' /\ IndexType' /\ QueueType' /\ RedisType' /\ ClientType'
    BY <1>12 DEF FetchCatchUp, StreamType, IndexType, QueueType, RedisType, ClientType
  <2>4. InFlight'
    BY <1>12 DEF InFlight, HandlerType, StreamType, FetchCatchUp
  <2> QED
    BY <2>1, <2>2, <2>3, <2>4
<1>13. ASSUME NEW s \in Sessions, Unmark(s)
      PROVE  TypeInv'
  <2>1. StreamType'
    BY <1>13 DEF StreamType, Unmark
  <2>2. HandlerType'
    <3>1. req' \in [Sessions -> Requests]
      BY <1>13, NoReqType DEF Unmark, HandlerType
    <3>2. pc' \in [Sessions -> Pcs]
      BY <1>13 DEF Unmark, HandlerType
    <3> QED
      BY <1>13, <3>1, <3>2 DEF Unmark, HandlerType
  <2>3. IndexType' /\ QueueType' /\ RedisType' /\ ClientType' /\ GhostType'
    BY <1>13 DEF Unmark, IndexType, QueueType, RedisType, ClientType, GhostType
  <2>4. InFlight'
    BY <1>13 DEF InFlight, HandlerType, StreamType, Unmark, NoReq
  <2> QED
    BY <2>1, <2>2, <2>3, <2>4
<1>14. ASSUME NEW s \in Sessions, PubLookup(s)
      PROVE  TypeInv'
  <2>1. HandlerType'
    BY <1>14 DEF HandlerType, PubLookup
  <2>2. StreamType' /\ IndexType' /\ QueueType' /\ RedisType' /\ ClientType' /\ GhostType'
    BY <1>14 DEF PubLookup, StreamType, IndexType, QueueType, RedisType, ClientType, GhostType
  <2>3. InFlight'
    BY <1>14 DEF InFlight, HandlerType, StreamType, PubLookup
  <2> QED
    BY <2>1, <2>2, <2>3
<1>15. ASSUME NEW s \in Sessions, PubRedis(s)
      PROVE  TypeInv'
  <2>1. HandlerType'
    <3>1. req' \in [Sessions -> Requests]
      BY <1>15, NoReqType DEF PubRedis, HandlerType
    <3>2. pc' \in [Sessions -> Pcs]
      BY <1>15 DEF PubRedis, HandlerType
    <3> QED
      BY <1>15, <3>1, <3>2 DEF PubRedis, HandlerType
  <2>2. QueueType'
    BY <1>15, TryEnqueueType DEF QueueType, PubRedis
  <2>3. StreamType' /\ IndexType' /\ RedisType' /\ ClientType' /\ GhostType'
    BY <1>15 DEF PubRedis, StreamType, IndexType, RedisType, ClientType, GhostType
  <2>4. InFlight'
    BY <1>15 DEF InFlight, HandlerType, StreamType, PubRedis, NoReq
  <2> QED
    BY <2>1, <2>2, <2>3, <2>4
<1>16. ASSUME NEW s \in Sessions, Snapshot(s)
      PROVE  TypeInv'
  <2>1. HandlerType'
    BY <1>16 DEF HandlerType, Snapshot, InFlight, IndexType, Recipients
  <2>2. StreamType' /\ IndexType' /\ QueueType' /\ RedisType' /\ ClientType' /\ GhostType'
    BY <1>16 DEF Snapshot, StreamType, IndexType, QueueType, RedisType, ClientType, GhostType
  <2>3. InFlight'
    BY <1>16 DEF InFlight, HandlerType, StreamType, Snapshot
  <2> QED
    BY <2>1, <2>2, <2>3
<1>17. ASSUME NEW s \in Sessions, Store(s)
      PROVE  TypeInv'
  <2>1. HandlerType'
    BY <1>17 DEF HandlerType, Store
  <2>2. RedisType'
    <3>1. /\ req[s].topic \in Topics
          /\ Append(log[req[s].topic], req[s].msg) \in Seq(FrameIds)
      BY <1>17, BusyRequest DEF Store
    <3>2. [log EXCEPT ![req[s].topic] = Append(@, req[s].msg)] \in [Topics -> Seq(FrameIds)]
      BY <3>1 DEF RedisType
    <3> QED
      BY <1>17, <3>2 DEF RedisType, Store
  <2>3. StreamType' /\ IndexType' /\ QueueType' /\ ClientType' /\ GhostType'
    BY <1>17 DEF Store, StreamType, IndexType, QueueType, ClientType, GhostType
  <2>4. InFlight'
    BY <1>17 DEF InFlight, HandlerType, StreamType, Store
  <2> QED
    BY <2>1, <2>2, <2>3, <2>4
<1>18. ASSUME NEW s \in Sessions, Trim(s)
      PROVE  TypeInv'
  <2>1. HandlerType'
    BY <1>18 DEF HandlerType, Trim
  <2>2. RedisType'
    <3>1. log[req[s].topic] \in Seq(FrameIds)
      BY <1>18, BusyRequest DEF Trim
    <3>2. Len(log[req[s].topic]) > HistoryCap => NewestKept(log[req[s].topic]) \in Seq(FrameIds)
      BY <3>1, NewestKeptType
    <3>3. log' \in [Topics -> Seq(FrameIds)]
      BY <1>18, <3>1, <3>2 DEF RedisType, Trim
    <3> QED
      BY <1>18, <3>3 DEF RedisType, Trim
  <2>3. GhostType'
    BY <1>18 DEF GhostType, Trim, Disturb, StreamType
  <2>4. StreamType' /\ IndexType' /\ QueueType' /\ ClientType'
    BY <1>18 DEF Trim, StreamType, IndexType, QueueType, ClientType
  <2>5. InFlight'
    BY <1>18 DEF InFlight, HandlerType, StreamType, Trim
  <2> QED
    BY <2>1, <2>2, <2>3, <2>4, <2>5
<1>19. ASSUME NEW s \in Sessions, FanOut(s)
      PROVE  TypeInv'
  <2>1. HandlerType'
    <3>1. fan' \in [Sessions -> SUBSET Sessions]
      BY <1>19 DEF FanOut, HandlerType
    <3>2. aim' \in [Sessions -> Sessions \cup {NoSession}]
      BY SMTT(30), <1>19 DEF FanOut, HandlerType
    <3>3. pc' \in [Sessions -> Pcs]
      BY <1>19 DEF FanOut, HandlerType
    <3> QED
      BY <1>19, <3>1, <3>2, <3>3 DEF FanOut, HandlerType
  <2>2. GhostType'
    <3>1. req[s].msg \in FrameIds
      BY <1>19, BusyRequest DEF FanOut
    <3>2. owed' \in [Sessions -> SUBSET FrameIds]
      BY <1>19, <3>1 DEF FanOut, GhostType
    <3>3. late' \in [Sessions -> SUBSET FrameIds]
      BY <1>19, <3>1 DEF FanOut, GhostType
    <3> QED
      BY <1>19, <3>2, <3>3 DEF FanOut, GhostType
  <2>3. StreamType' /\ IndexType' /\ QueueType' /\ RedisType' /\ ClientType'
    BY <1>19 DEF FanOut, StreamType, IndexType, QueueType, RedisType, ClientType
  <2>4. InFlight'
    BY <1>19 DEF InFlight, HandlerType, StreamType, FanOut
  <2> QED
    BY <2>1, <2>2, <2>3, <2>4
<1>20. ASSUME NEW s \in Sessions, FanEnqueue(s)
      PROVE  TypeInv'
  <2>1. HandlerType'
    BY <1>20 DEF HandlerType, FanEnqueue
  <2>2. QueueType'
    BY <1>20, TryEnqueueType DEF QueueType, FanEnqueue, InFlight, HandlerType, Requests
  <2>3. StreamType' /\ IndexType' /\ RedisType' /\ ClientType' /\ GhostType'
    BY <1>20 DEF FanEnqueue, StreamType, IndexType, RedisType, ClientType, GhostType
  <2>4. InFlight'
    BY <1>20 DEF InFlight, HandlerType, StreamType, FanEnqueue
  <2> QED
    BY <2>1, <2>2, <2>3, <2>4
<1>21. ASSUME NEW s \in Sessions, FinishPublish(s)
      PROVE  TypeInv'
  <2>1. HandlerType'
    BY <1>21, NoReqType DEF HandlerType, FinishPublish
  <2>2. RedisType'
    <3>1. req[s].topic \in Topics /\ <<>> \in Seq(FrameIds)
      BY <1>21, BusyRequest DEF FinishPublish
    <3> QED
      BY ZenonT(40), <1>21, <3>1 DEF FinishPublish, DeleteTopic, RedisType
  <2>3. GhostType'
    BY <1>21, BusyRequest DEF GhostType, FinishPublish, Disturb
  <2>4. StreamType' /\ IndexType' /\ QueueType' /\ ClientType'
    BY <1>21 DEF FinishPublish, StreamType, IndexType, QueueType, ClientType
  <2>5. InFlight'
    BY <1>21 DEF InFlight, HandlerType, StreamType, FinishPublish, NoReq
  <2> QED
    BY <2>1, <2>2, <2>3, <2>4, <2>5
<1>22. ASSUME NEW s \in Sessions, Deliver(s)
      PROVE  TypeInv'
  <2>1. QueueType'
    BY <1>22, DequeueType DEF QueueType, Deliver
  <2>2. ClientType'
    <3>1. Head(sendQ[s]) \in 0 .. MaxMsgs
      BY <1>22, DequeueType DEF Deliver
    <3>2. Head(sendQ[s]) # 0 => Append(received[s], Head(sendQ[s])) \in Seq(FrameIds)
      BY <3>1 DEF ClientType
    <3>3. /\ received' = [received EXCEPT ![s] = received'[s]]
          /\ received'[s] \in Seq(FrameIds)
      BY <1>22, <3>2 DEF ClientType, Deliver
    <3>4. received' \in [Sessions -> Seq(FrameIds)]
      BY <3>3 DEF ClientType
    <3> QED
      BY <1>22, <3>4 DEF ClientType, Deliver
  <2>3. StreamType' /\ HandlerType' /\ IndexType' /\ RedisType' /\ GhostType'
    BY <1>22 DEF Deliver, StreamType, HandlerType, IndexType, RedisType, GhostType
  <2>4. InFlight'
    BY <1>22 DEF InFlight, HandlerType, StreamType, Deliver
  <2> QED
    BY <2>1, <2>2, <2>3, <2>4
<1>23. ASSUME NEW s \in Sessions, SendFails(s)
      PROVE  TypeInv'
  <2>1. StreamType'
    BY <1>23 DEF StreamType, SendFails, Writers
  <2>2. IndexType'
    BY <1>23, LeaveTopicType DEF IndexType, SendFails, Detach
  <2>3. QueueType'
    <3>1. /\ Head(sendQ[s]) \in 0 .. MaxMsgs
          /\ sendQ' \in [Sessions -> Seq(0 .. MaxMsgs)]
          /\ \A x \in Sessions : Len(sendQ'[x]) <= QueueCap
      BY <1>23, DequeueType DEF SendFails
    <3>2. {Head(sendQ[s])} \ {0} \subseteq FrameIds
      BY <3>1
    <3>3. qClosed' \in [Sessions -> BOOLEAN] /\ dropped' \in [Sessions -> SUBSET FrameIds]
      BY <1>23, <3>2 DEF SendFails, Detach, QueueType
    <3> QED
      BY <3>1, <3>3 DEF QueueType
  <2>4. HandlerType' /\ RedisType' /\ ClientType' /\ GhostType'
    BY <1>23 DEF SendFails, HandlerType, RedisType, ClientType, GhostType
  <2>5. InFlight'
    BY <1>23 DEF InFlight, HandlerType, StreamType, SendFails
  <2> QED
    BY <2>1, <2>2, <2>3, <2>4, <2>5
<1>24. ASSUME NEW s \in Sessions, WriterExits(s)
      PROVE  TypeInv'
  <2>1. StreamType'
    BY <1>24 DEF StreamType, WriterExits, Writers
  <2>2. HandlerType' /\ IndexType' /\ QueueType' /\ RedisType' /\ ClientType' /\ GhostType'
    BY <1>24 DEF WriterExits, HandlerType, IndexType, QueueType, RedisType, ClientType, GhostType
  <2>3. InFlight'
    BY <1>24 DEF InFlight, HandlerType, StreamType, WriterExits
  <2> QED
    BY <2>1, <2>2, <2>3
<1>25. ASSUME NEW s \in Sessions, Break(s)
      PROVE  TypeInv'
  <2>1. StreamType'
    BY <1>25 DEF StreamType, Break, Streams
  <2>2. HandlerType' /\ IndexType' /\ QueueType' /\ RedisType' /\ ClientType' /\ GhostType'
    BY <1>25 DEF Break, HandlerType, IndexType, QueueType, RedisType, ClientType, GhostType
  <2>3. InFlight'
    BY <1>25 DEF InFlight, HandlerType, StreamType, Break
  <2> QED
    BY <2>1, <2>2, <2>3
<1>26. ASSUME NEW s \in Sessions, NEW t \in Topics, RecvSubscribe(s, t)
      PROVE  TypeInv'
  <2>1. HandlerType'
    <3>1. [op |-> "subscribe", topic |-> t, msg |-> 0] \in Requests
      BY DEF Requests, Ops
    <3>2. Len(frames) < MaxMsgs =>
            [op |-> "subscribe", topic |-> t, msg |-> Len(frames) + 1] \in Requests
      BY DEF Requests, Ops, ClientType
    <3>3. req' \in [Sessions -> Requests]
      BY <1>26, <3>1, <3>2 DEF HandlerType, RecvSubscribe
    <3>4. pc' \in [Sessions -> Pcs]
      BY <1>26 DEF HandlerType, RecvSubscribe
    <3> QED
      BY <1>26, <3>3, <3>4 DEF HandlerType, RecvSubscribe
  <2>2. ClientType'
    <3>1. \/ frames' = frames
          \/ \E term \in Terminal : Len(frames) < MaxMsgs /\ NewFrame(s, t, term)
      BY <1>26 DEF RecvSubscribe
    <3>2. frames' \in Seq(Frames) /\ Len(frames') <= MaxMsgs
      BY <3>1, NewFrameType DEF ClientType
    <3>3. nsub' \in [Sessions -> Nat]
      BY <1>26 DEF ClientType, RecvSubscribe
    <3> QED
      BY <1>26, <3>2, <3>3 DEF ClientType, RecvSubscribe
  <2>3. StreamType' /\ IndexType' /\ QueueType' /\ RedisType' /\ GhostType'
    BY <1>26 DEF RecvSubscribe, StreamType, IndexType, QueueType, RedisType, GhostType
  <2>4. InFlight'
    <3>1. \/ frames' = frames /\ req'[s].msg = 0
          \/ \E term \in Terminal : /\ Len(frames) < MaxMsgs
                                    /\ NewFrame(s, t, term)
                                    /\ req'[s].msg = Len(frames) + 1
      BY <1>26 DEF RecvSubscribe, HandlerType
    <3>2. Len(frames) \in Nat /\ Len(frames') \in Nat
      BY <3>1, NewFrameType DEF ClientType
    <3>3. Len(frames') >= Len(frames) /\ req'[s].msg <= Len(frames')
      BY <3>1, <3>2, NewFrameType
    <3>4. pc'[s] = "subLookup" /\ req'[s].topic = t
      BY <1>26 DEF RecvSubscribe, HandlerType
    <3>5. ASSUME NEW x \in Sessions, x # s
          PROVE  /\ req'[x] = req[x] /\ pc'[x] = pc[x] /\ aim'[x] = aim[x]
                 /\ req[x].msg \in Int
      BY <1>26, <3>5 DEF RecvSubscribe, HandlerType, Requests
    <3>6. stream' = stream /\ pc[s] = "recv"
      BY <1>26 DEF RecvSubscribe, CanRecv
    <3> QED
      BY <3>2, <3>3, <3>4, <3>5, <3>6 DEF InFlight
  <2> QED
    BY <2>1, <2>2, <2>3, <2>4
<1>27. ASSUME NEW s \in Sessions, NEW t \in Topics, NEW term \in Terminal, RecvPublish(s, t, term)
      PROVE  TypeInv'
  <2>1. HandlerType'
    BY <1>27 DEF HandlerType, RecvPublish, Requests, Ops, ClientType
  <2>2. ClientType'
    BY <1>27, NewFrameType DEF ClientType, RecvPublish
  <2>3. StreamType' /\ IndexType' /\ QueueType' /\ RedisType' /\ GhostType'
    BY <1>27 DEF RecvPublish, StreamType, IndexType, QueueType, RedisType, GhostType
  <2>4. InFlight'
    BY <1>27 DEF InFlight, HandlerType, StreamType, RecvPublish, NewFrame, CanRecv, ClientType, Requests
  <2> QED
    BY <2>1, <2>2, <2>3, <2>4
<1>28. CASE Crash
  <2>1. StreamType'
    BY <1>28 DEF StreamType, Crash, Streams, Writers
  <2>2. HandlerType'
    BY <1>28 DEF HandlerType, Crash, NoReq, Requests, Ops
  <2>3. IndexType'
    BY <1>28 DEF IndexType, Crash
  <2>4. QueueType'
    BY <1>28, CapAssumption DEF QueueType, Crash
  <2>5. ClientType'
    BY <1>28 DEF ClientType, Crash
  <2>6. GhostType'
    BY <1>28 DEF GhostType, Crash
  <2>7. RedisType'
    BY <1>28 DEF Crash, RedisType
  <2>8. InFlight'
    BY <1>28 DEF InFlight, HandlerType, StreamType, Crash, NoReq, ClientType
  <2> QED
    BY <2>1, <2>2, <2>3, <2>4, <2>5, <2>6, <2>7, <2>8
<1>29. ASSUME NEW t \in Topics, ExpireLog(t)
      PROVE  TypeInv'
  <2>1. RedisType'
    BY <1>29 DEF RedisType, ExpireLog
  <2>2. GhostType'
    BY <1>29 DEF GhostType, ExpireLog, Disturb
  <2>3. StreamType' /\ HandlerType' /\ IndexType' /\ QueueType' /\ ClientType'
    BY <1>29 DEF ExpireLog, StreamType, HandlerType, IndexType, QueueType, ClientType
  <2>4. InFlight'
    BY <1>29 DEF InFlight, HandlerType, StreamType, ExpireLog
  <2> QED
    BY <2>1, <2>2, <2>3, <2>4
<1>30. ASSUME NEW t \in Topics, ExpireTracking(t)
      PROVE  TypeInv'
  <2>1. RedisType'
    BY <1>30 DEF RedisType, ExpireTracking
  <2>2. StreamType' /\ HandlerType' /\ IndexType' /\ QueueType' /\ ClientType' /\ GhostType'
    BY <1>30 DEF ExpireTracking, StreamType, HandlerType, IndexType, QueueType, ClientType, GhostType
  <2>3. InFlight'
    BY <1>30 DEF InFlight, HandlerType, StreamType, ExpireTracking
  <2> QED
    BY <2>1, <2>2, <2>3
<1>31. CASE UNCHANGED vars
  BY <1>31 DEF vars, InFlight, StreamType, HandlerType, IndexType, QueueType, RedisType, ClientType, GhostType
<1> QED
  BY <1>1, <1>2, <1>3, <1>4, <1>5, <1>6, <1>7, <1>8, <1>9, <1>10, <1>11, <1>12, <1>13, <1>14, <1>15, <1>16, <1>17, <1>18, <1>19, <1>20, <1>21, <1>22, <1>23, <1>24, <1>25, <1>26, <1>27, <1>28, <1>29, <1>30, <1>31
  DEF Next, Receive, Handler, Subscribing, Publishing, Writer, Environment

\* The relay's structures keep their types: session and index structures, queues
\* within capacity, history lists (grpc.go, redis_store.go).
THEOREM TypeCorrect == Spec => []TypeOK
<1>1. TypeInv => TypeOK
  BY DEF TypeInv
<1> QED
  BY InitType, StepType, <1>1, PTL DEF Spec
-----------------------------------------------------------------------------
(* The topic index. *)

\* Where a handler has made sure of the bucket and not joined yet.
Preparing == {"create", "leave", "fetch", "join"}

\* What every step but the six that change the index or end a handler leaves alone.
IndexFrame ==
    /\ UNCHANGED index
    /\ \A x \in Sessions :
         /\ pc[x] \in Preparing => pc'[x] \in Preparing /\ req'[x].topic = req[x].topic
         /\ pc'[x] = "returned" => pc[x] = "returned"
         /\ qClosed[x] => qClosed'[x]

LEMMA IndexSteps ==
    ASSUME TypeInv, [Next]_vars
    PROVE  \/ \E s \in Sessions : \/ RecvFails(s) \/ EnsureBucket(s) \/ Leave(s)
                                  \/ Join(s) \/ SendFails(s)
           \/ Crash
           \/ IndexFrame
<1> USE DEF TypeInv, TypeOK, HandlerType, QueueType, IndexFrame, Preparing, Goto
<1>1. ASSUME NEW s \in Sessions, Open(s) PROVE IndexFrame
  BY <1>1 DEF Open, InFlight
<1>2. ASSUME NEW s \in Sessions, RejectRequest(s) PROVE IndexFrame
  BY <1>2 DEF RejectRequest, TryEnqueue, CanRecv
<1>3. ASSUME NEW s \in Sessions, SubLookup(s) PROVE IndexFrame
  BY <1>3 DEF SubLookup
<1>4. ASSUME NEW s \in Sessions, SubRedis(s) PROVE IndexFrame
  BY <1>4 DEF SubRedis
<1>5. ASSUME NEW s \in Sessions, CreateTopic(s) PROVE IndexFrame
  BY <1>5 DEF CreateTopic
<1>6. ASSUME NEW s \in Sessions, FetchHistory(s) PROVE IndexFrame
  BY <1>6 DEF FetchHistory
<1>7. ASSUME NEW s \in Sessions, ReplayNext(s) PROVE IndexFrame
  BY <1>7 DEF ReplayNext, TryEnqueue
<1>8. ASSUME NEW s \in Sessions, FetchCatchUp(s) PROVE IndexFrame
  BY <1>8 DEF FetchCatchUp
<1>9. ASSUME NEW s \in Sessions, Unmark(s) PROVE IndexFrame
  BY <1>9 DEF Unmark
<1>10. ASSUME NEW s \in Sessions, PubLookup(s) PROVE IndexFrame
  BY <1>10 DEF PubLookup
<1>11. ASSUME NEW s \in Sessions, PubRedis(s) PROVE IndexFrame
  BY <1>11 DEF PubRedis, TryEnqueue
<1>12. ASSUME NEW s \in Sessions, Snapshot(s) PROVE IndexFrame
  BY <1>12 DEF Snapshot
<1>13. ASSUME NEW s \in Sessions, Store(s) PROVE IndexFrame
  BY <1>13 DEF Store
<1>14. ASSUME NEW s \in Sessions, Trim(s) PROVE IndexFrame
  BY <1>14 DEF Trim
<1>15. ASSUME NEW s \in Sessions, FanOut(s) PROVE IndexFrame
  BY <1>15 DEF FanOut
<1>16. ASSUME NEW s \in Sessions, FanEnqueue(s) PROVE IndexFrame
  BY <1>16 DEF FanEnqueue, TryEnqueue
<1>17. ASSUME NEW s \in Sessions, FinishPublish(s) PROVE IndexFrame
  BY <1>17 DEF FinishPublish
<1>18. ASSUME NEW s \in Sessions, Deliver(s) PROVE IndexFrame
  BY <1>18 DEF Deliver
<1>19. ASSUME NEW s \in Sessions, WriterExits(s) PROVE IndexFrame
  BY <1>19 DEF WriterExits
<1>20. ASSUME NEW s \in Sessions, Break(s) PROVE IndexFrame
  BY <1>20 DEF Break
<1>21. ASSUME NEW s \in Sessions, NEW t \in Topics, RecvSubscribe(s, t)
      PROVE  IndexFrame
  BY <1>21 DEF RecvSubscribe, CanRecv
<1>22. ASSUME NEW s \in Sessions, NEW t \in Topics, NEW term \in Terminal, RecvPublish(s, t, term)
      PROVE  IndexFrame
  BY <1>22 DEF RecvPublish, CanRecv
<1>23. ASSUME NEW t \in Topics, ExpireLog(t) PROVE IndexFrame
  BY <1>23 DEF ExpireLog
<1>24. ASSUME NEW t \in Topics, ExpireTracking(t) PROVE IndexFrame
  BY <1>24 DEF ExpireTracking
<1>25. CASE UNCHANGED vars
  BY <1>25 DEF vars
<1> QED
  BY <1>1, <1>2, <1>3, <1>4, <1>5, <1>6, <1>7, <1>8, <1>9, <1>10, <1>11, <1>12, <1>13, <1>14, <1>15, <1>16, <1>17, <1>18, <1>19, <1>20, <1>21, <1>22, <1>23, <1>24, <1>25
  DEF Next, Receive, Handler, Subscribing, Publishing, Writer, Environment

IndexInv == TypeInv /\ IndexConsistent /\ NoBucketLeak /\ ReturnedDetached

\* Leaving the topic takes the session out of every set and keeps the index
\* exact; the only bucket that can go is the one it emptied.
LEMMA LeaveTopicIndex ==
    ASSUME TypeInv, IndexConsistent, NEW s \in Sessions, LeaveTopic(s)
    PROVE  /\ IndexConsistent'
           /\ \A t \in Topics : s \notin subs'[t]
           /\ buckets' \subseteq buckets
           /\ \A t \in buckets' : subs[t] # {} => subs'[t] # {}
           /\ \A x \in Sessions, t \in Topics : x \in subs'[t] => x \in subs[t]
<1> USE DEF TypeInv, TypeOK, IndexType
<1>1. \A t \in Topics : subs'[t] = IF t = activeTopic[s] THEN subs[t] \ {s} ELSE subs[t]
  BY DEF LeaveTopic
<1>2. \A x \in Sessions : activeTopic'[x] = IF x = s THEN NoTopic ELSE activeTopic[x]
  BY DEF LeaveTopic
<1>3. ASSUME NEW x \in Sessions, NEW t \in Topics
      PROVE  x \in subs'[t] <=> x \in subs[t] /\ x # s
  <2>1. CASE t = activeTopic[s]
    BY <1>1, <2>1
  <2>2. CASE t # activeTopic[s]
    <3>1. s \notin subs[t]
      BY <2>2 DEF IndexConsistent
    <3> QED
      BY <1>1, <2>2, <3>1
  <2> QED
    BY <2>1, <2>2
<1>4. ASSUME NEW t \in buckets', subs[t] # {} PROVE subs'[t] # {}
  <2>1. t \in Topics
    BY DEF LeaveTopic, BucketsWithout
  <2>2. CASE t = activeTopic[s]
    <3>1. ~(subs[t] \subseteq {s})
      BY <2>1, <2>2, NoneAssumption DEF LeaveTopic, BucketsWithout
    <3> QED
      BY <1>1, <2>1, <2>2, <3>1
  <2>3. CASE t # activeTopic[s]
    BY <1>1, <1>4, <2>1, <2>3
  <2> QED
    BY <2>2, <2>3
<1>5. buckets' \subseteq buckets
  BY DEF LeaveTopic, BucketsWithout
<1>6. \A t \in Topics : subs'[t] # {} => t \in buckets'
  BY <1>1 DEF LeaveTopic, BucketsWithout, IndexConsistent
<1>7. \A x \in Sessions, t \in Topics : x \in subs'[t] <=> activeTopic'[x] = t
  BY <1>2, <1>3, NoneAssumption DEF IndexConsistent
<1> QED
  BY <1>3, <1>4, <1>5, <1>6, <1>7 DEF IndexConsistent

LEMMA StepIndex == IndexInv /\ [Next]_vars => IndexInv'
<1> SUFFICES ASSUME IndexInv, [Next]_vars
             PROVE  IndexConsistent' /\ NoBucketLeak' /\ ReturnedDetached'
  BY StepType DEF IndexInv
<1> USE DEF IndexInv
<1>1. CASE IndexFrame
  <2>1. IndexConsistent' /\ ReturnedDetached'
    BY <1>1 DEF IndexFrame, IndexConsistent, ReturnedDetached
  <2>2. NoBucketLeak'
    BY <1>1 DEF IndexFrame, NoBucketLeak, Preparing
  <2> QED
    BY <2>1, <2>2
<1>2. ASSUME NEW s \in Sessions, RecvFails(s)
      PROVE  IndexConsistent' /\ NoBucketLeak' /\ ReturnedDetached'
  <2>1. /\ LeaveTopic(s)
        /\ qClosed' = [qClosed EXCEPT ![s] = TRUE]
        /\ pc[s] = "recv" /\ pc' = [pc EXCEPT ![s] = "returned"]
        /\ req' = req
    BY <1>2 DEF RecvFails, Detach, Goto
  <2>2. NoBucketLeak'
    BY <2>1, LeaveTopicIndex DEF NoBucketLeak, TypeInv, TypeOK, HandlerType
  <2>3. ReturnedDetached'
    BY <2>1, LeaveTopicIndex DEF ReturnedDetached, TypeInv, TypeOK, HandlerType, QueueType
  <2> QED
    BY <2>1, <2>2, <2>3, LeaveTopicIndex
<1>3. ASSUME NEW s \in Sessions, SendFails(s)
      PROVE  IndexConsistent' /\ NoBucketLeak' /\ ReturnedDetached'
  <2>1. /\ LeaveTopic(s)
        /\ qClosed' = [qClosed EXCEPT ![s] = TRUE]
        /\ UNCHANGED <<pc, req>>
    BY <1>3 DEF SendFails, Detach
  <2>2. NoBucketLeak'
    BY <2>1, LeaveTopicIndex DEF NoBucketLeak
  <2>3. ReturnedDetached'
    BY <2>1, LeaveTopicIndex DEF ReturnedDetached, TypeInv, TypeOK, QueueType
  <2> QED
    BY <2>1, <2>2, <2>3, LeaveTopicIndex
<1>4. ASSUME NEW s \in Sessions, EnsureBucket(s)
      PROVE  IndexConsistent' /\ NoBucketLeak' /\ ReturnedDetached'
  <2>1. /\ buckets' = buckets \cup {req[s].topic}
        /\ UNCHANGED <<subs, activeTopic, req, qClosed>>
        /\ pc[s] \notin Preparing /\ pc'[s] \in {"create", "leave"}
        /\ \A x \in Sessions \ {s} : pc'[x] = pc[x]
    BY <1>4 DEF EnsureBucket, Goto, Preparing, TypeInv, TypeOK, HandlerType
  <2>2. IndexConsistent' /\ ReturnedDetached'
    BY <2>1 DEF IndexConsistent, ReturnedDetached
  <2>3. NoBucketLeak'
    BY <2>1 DEF NoBucketLeak, Preparing
  <2> QED
    BY <2>2, <2>3
<1>5. ASSUME NEW s \in Sessions, Leave(s)
      PROVE  IndexConsistent' /\ NoBucketLeak' /\ ReturnedDetached'
  <2>1. /\ LeaveTopic(s) \/ UNCHANGED index
        /\ UNCHANGED <<req, qClosed>>
        /\ pc[s] = "leave" /\ pc' = [pc EXCEPT ![s] = "fetch"]
    BY <1>5 DEF Leave, LeaveOldTopic, Goto
  <2>2. \A x \in Sessions : /\ pc[x] \in Preparing <=> pc'[x] \in Preparing
                            /\ pc'[x] = "returned" <=> pc[x] = "returned"
    BY <2>1 DEF Preparing, TypeInv, TypeOK, HandlerType
  <2>3. CASE LeaveTopic(s)
    <3>1. NoBucketLeak'
      BY <2>1, <2>2, <2>3, LeaveTopicIndex DEF NoBucketLeak, Preparing
    <3>2. ReturnedDetached'
      BY <2>1, <2>2, <2>3, LeaveTopicIndex DEF ReturnedDetached
    <3> QED
      BY <2>3, <3>1, <3>2, LeaveTopicIndex
  <2>4. CASE UNCHANGED index
    BY <2>1, <2>2, <2>4 DEF IndexConsistent, NoBucketLeak, ReturnedDetached, Preparing
  <2> QED
    BY <2>1, <2>3, <2>4
<1>6. ASSUME NEW s \in Sessions, Join(s)
      PROVE  IndexConsistent' /\ NoBucketLeak' /\ ReturnedDetached'
  <2> DEFINE t == req[s].topic
  <2>1. t \in Topics
    BY <1>6, BusyRequest DEF Join, SubscribePcs, BeforeJoin
  <2>2. /\ UNCHANGED <<req, qClosed>>
        /\ pc[s] = "join" /\ pc' = [pc EXCEPT ![s] = "replay"]
        /\ buckets' = BucketsWithout(s) \cup {t}
        /\ \A u \in Topics : subs'[u] = IF u = t THEN subs[u] \cup {s} ELSE subs[u] \ {s}
        /\ \A x \in Sessions : activeTopic'[x] = IF x = s THEN t ELSE activeTopic[x]
    BY <1>6 DEF Join, Goto, TypeInv, TypeOK, IndexType
  <2> HIDE DEF t
  <2>3. \A x \in Sessions : pc'[x] = IF x = s THEN "replay" ELSE pc[x]
    BY <2>2 DEF TypeInv, TypeOK, HandlerType
  <2>4. ASSUME NEW x \in Sessions, NEW u \in Topics
        PROVE  x \in subs'[u] <=> activeTopic'[x] = u
    <3>1. x \in subs[u] <=> activeTopic[x] = u
      BY DEF IndexConsistent
    <3>2. subs'[u] = IF u = t THEN subs[u] \cup {s} ELSE subs[u] \ {s}
      BY <2>2
    <3>3. activeTopic'[x] = IF x = s THEN t ELSE activeTopic[x]
      BY <2>2
    <3> QED
      BY <3>1, <3>2, <3>3
  <2>5. \A u \in Topics : subs'[u] # {} => u \in buckets'
    BY <2>2 DEF IndexConsistent, BucketsWithout, TypeInv, TypeOK, IndexType
  <2>6. NoBucketLeak'
    <3>0. subs'[t] # {}
      BY <2>1, <2>2
    <3> SUFFICES ASSUME NEW u \in buckets', u # t, subs'[u] = {}
                 PROVE  \E x \in Sessions : req'[x].topic = u /\ pc'[x] \in Preparing
      BY <3>0 DEF NoBucketLeak, Preparing
    <3>1. u \in buckets /\ u \in Topics
      BY <2>2 DEF BucketsWithout, TypeInv, TypeOK, IndexType
    <3>2. subs[u] = {}
      <4>1. subs[u] \ {s} = {}
        BY <2>2, <3>1
      <4>2. CASE activeTopic[s] = u
        BY <2>2, <3>1, <4>1, <4>2, NoneAssumption DEF BucketsWithout
      <4>3. CASE activeTopic[s] # u
        BY <3>1, <4>1, <4>3 DEF IndexConsistent
      <4> QED
        BY <4>2, <4>3
    <3>3. PICK x \in Sessions : req[x].topic = u /\ pc[x] \in Preparing
      BY <3>1, <3>2 DEF NoBucketLeak, Preparing
    <3>4. x # s
      BY <3>3 DEF t
    <3> QED
      BY <2>2, <2>3, <3>3, <3>4
  <2>7. ReturnedDetached'
    <3> SUFFICES ASSUME NEW x \in Sessions, pc'[x] = "returned"
                 PROVE  qClosed'[x] /\ \A u \in Topics : x \notin subs'[u]
      BY DEF ReturnedDetached
    <3>1. x # s /\ pc[x] = "returned"
      BY <2>3
    <3>2. qClosed[x] /\ \A u \in Topics : x \notin subs[u]
      BY <3>1 DEF ReturnedDetached
    <3> QED
      BY <2>2, <3>1, <3>2
  <2> QED
    BY <2>4, <2>5, <2>6, <2>7 DEF IndexConsistent
<1>7. CASE Crash
  <2>1. IndexConsistent'
    BY <1>7, NoneAssumption DEF Crash, IndexConsistent
  <2>2. NoBucketLeak'
    BY <1>7 DEF Crash, NoBucketLeak
  <2>3. ReturnedDetached'
    BY <1>7 DEF Crash, ReturnedDetached
  <2> QED
    BY <2>1, <2>2, <2>3
<1> QED
  BY <1>1, <1>2, <1>3, <1>4, <1>5, <1>6, <1>7, IndexSteps

LEMMA InitIndex == Init => IndexInv
BY InitType, NoneAssumption DEF Init, IndexInv, IndexConsistent, NoBucketLeak, ReturnedDetached

\* addToTopic, removeFromActive and detach, run by a handler and a writer that
\* race, keep Server.clients and session.activeTopic in agreement.
THEOREM IndexAlwaysConsistent == Spec => []IndexConsistent
<1>1. IndexInv => IndexConsistent
  BY DEF IndexInv
<1> QED
  BY InitIndex, StepIndex, <1>1, PTL DEF Spec

\* An empty bucket of Server.clients never outlives the SUBSCRIBE that made it.
THEOREM BucketsNeverLeak == Spec => []NoBucketLeak
<1>1. IndexInv => NoBucketLeak
  BY DEF IndexInv
<1> QED
  BY InitIndex, StepIndex, <1>1, PTL DEF Spec

\* When Tunnel has returned, detach has taken the session out of every topic and
\* closed its queue, whatever the writer did before.
THEOREM ReturnedAlwaysDetached == Spec => []ReturnedDetached
<1>1. IndexInv => ReturnedDetached
  BY DEF IndexInv
<1> QED
  BY InitIndex, StepIndex, <1>1, PTL DEF Spec
-----------------------------------------------------------------------------
(* The history. *)

\* A handler's payload is one its stream sent, later than every terminal payload
\* of the stream that has cleared the topic; stored payloads were received.
HistoryInv ==
    /\ TypeInv
    /\ \A s \in Sessions : req[s].msg # 0 =>
          /\ frames[req[s].msg].from = s
          /\ frames[req[s].msg].topic = req[s].topic
          /\ \A k \in cleared : frames[k].from = s => k < req[s].msg
    /\ \A t \in Topics : \A m \in Elems(log[t]) : m <= Len(frames)
    /\ \A k \in cleared : k <= Len(frames)
    /\ OwnHistoryCleared

\* What every step but the receipt of a payload, Store and FinishPublish leaves
\* alone: the history may shrink, a request may end.
HistoryFrame ==
    /\ UNCHANGED <<frames, cleared>>
    /\ \A t \in Topics : Elems(log'[t]) \subseteq Elems(log[t])
    /\ \A s \in Sessions : req'[s] = req[s] \/ req'[s].msg = 0

LEMMA ElemsAppend ==
    ASSUME NEW S, NEW q \in Seq(S), NEW e \in S
    PROVE  Elems(Append(q, e)) = Elems(q) \cup {e}
BY DEF Elems

LEMMA ElemsNewest ==
    ASSUME NEW S, NEW q \in Seq(S), Len(q) > HistoryCap
    PROVE  Elems(NewestKept(q)) \subseteq Elems(q)
BY CapAssumption DEF Elems, NewestKept

LEMMA ElemsEmpty == Elems(<<>>) = {}
BY DEF Elems

LEMMA HistorySteps ==
    ASSUME TypeInv, [Next]_vars
    PROVE  \/ \E s \in Sessions : Store(s) \/ FinishPublish(s)
           \/ \E s \in Sessions, t \in Topics :
                 RecvSubscribe(s, t) \/ \E term \in Terminal : RecvPublish(s, t, term)
           \/ HistoryFrame
<1> USE DEF TypeInv, TypeOK, HandlerType, HistoryFrame, Goto
<1>1. ASSUME NEW s \in Sessions, Open(s) PROVE HistoryFrame
  BY <1>1 DEF Open
<1>2. ASSUME NEW s \in Sessions, RecvFails(s) PROVE HistoryFrame
  BY <1>2 DEF RecvFails
<1>3. ASSUME NEW s \in Sessions, RejectRequest(s) PROVE HistoryFrame
  BY <1>3 DEF RejectRequest
<1>4. ASSUME NEW s \in Sessions, SubLookup(s) PROVE HistoryFrame
  BY <1>4 DEF SubLookup
<1>5. ASSUME NEW s \in Sessions, SubRedis(s) PROVE HistoryFrame
  BY <1>5 DEF SubRedis
<1>6. ASSUME NEW s \in Sessions, EnsureBucket(s) PROVE HistoryFrame
  BY <1>6 DEF EnsureBucket
<1>7. ASSUME NEW s \in Sessions, CreateTopic(s) PROVE HistoryFrame
  BY <1>7 DEF CreateTopic
<1>8. ASSUME NEW s \in Sessions, Leave(s) PROVE HistoryFrame
  BY <1>8 DEF Leave
<1>9. ASSUME NEW s \in Sessions, FetchHistory(s) PROVE HistoryFrame
  BY <1>9 DEF FetchHistory
<1>10. ASSUME NEW s \in Sessions, Join(s) PROVE HistoryFrame
  BY <1>10 DEF Join
<1>11. ASSUME NEW s \in Sessions, ReplayNext(s) PROVE HistoryFrame
  BY <1>11 DEF ReplayNext
<1>12. ASSUME NEW s \in Sessions, FetchCatchUp(s) PROVE HistoryFrame
  BY <1>12 DEF FetchCatchUp
<1>13. ASSUME NEW s \in Sessions, Unmark(s) PROVE HistoryFrame
  BY <1>13 DEF Unmark, NoReq
<1>14. ASSUME NEW s \in Sessions, PubLookup(s) PROVE HistoryFrame
  BY <1>14 DEF PubLookup
<1>15. ASSUME NEW s \in Sessions, PubRedis(s) PROVE HistoryFrame
  BY <1>15 DEF PubRedis, NoReq
<1>16. ASSUME NEW s \in Sessions, Snapshot(s) PROVE HistoryFrame
  BY <1>16 DEF Snapshot
<1>17. ASSUME NEW s \in Sessions, FanOut(s) PROVE HistoryFrame
  BY <1>17 DEF FanOut
<1>18. ASSUME NEW s \in Sessions, FanEnqueue(s) PROVE HistoryFrame
  BY <1>18 DEF FanEnqueue
<1>19. ASSUME NEW s \in Sessions, Deliver(s) PROVE HistoryFrame
  BY <1>19 DEF Deliver
<1>20. ASSUME NEW s \in Sessions, SendFails(s) PROVE HistoryFrame
  BY <1>20 DEF SendFails
<1>21. ASSUME NEW s \in Sessions, WriterExits(s) PROVE HistoryFrame
  BY <1>21 DEF WriterExits
<1>22. ASSUME NEW s \in Sessions, Break(s) PROVE HistoryFrame
  BY <1>22 DEF Break
<1>23. ASSUME NEW s \in Sessions, Trim(s) PROVE HistoryFrame
  <2>1. /\ log[req[s].topic] \in Seq(FrameIds)
        /\ UNCHANGED <<frames, cleared, req>>
        /\ \/ log' = log
           \/ /\ Len(log[req[s].topic]) > HistoryCap
              /\ log' = [log EXCEPT ![req[s].topic] = NewestKept(@)]
    BY <1>23, BusyRequest DEF Trim, PublishPcs
  <2>2. Len(log[req[s].topic]) > HistoryCap =>
          Elems(NewestKept(log[req[s].topic])) \subseteq Elems(log[req[s].topic])
    BY <2>1, ElemsNewest
  <2>3. log \in [Topics -> Seq(FrameIds)]
    BY DEF RedisType
  <2>4. ASSUME NEW t \in Topics PROVE Elems(log'[t]) \subseteq Elems(log[t])
    BY <2>1, <2>2, <2>3
  <2> QED
    BY <2>1, <2>4
<1>24. ASSUME NEW t \in Topics, ExpireLog(t) PROVE HistoryFrame
  BY <1>24, ElemsEmpty DEF ExpireLog, RedisType
<1>25. ASSUME NEW t \in Topics, ExpireTracking(t) PROVE HistoryFrame
  BY <1>25 DEF ExpireTracking
<1>26. CASE Crash
  BY <1>26 DEF Crash, NoReq
<1>27. CASE UNCHANGED vars
  BY <1>27 DEF vars
<1> QED
  BY <1>1, <1>2, <1>3, <1>4, <1>5, <1>6, <1>7, <1>8, <1>9, <1>10, <1>11, <1>12, <1>13, <1>14, <1>15, <1>16, <1>17, <1>18, <1>19, <1>20, <1>21, <1>22, <1>23, <1>24, <1>25, <1>26, <1>27
  DEF Next, Receive, Handler, Subscribing, Publishing, Writer, Environment

\* A terminal payload that cleared its topic was received.
LEMMA ClearedFrame ==
    ASSUME HistoryInv, NEW k \in cleared
    PROVE  k \in FrameIds /\ k <= Len(frames) /\ frames[k].topic \in Topics
<1>1. k \in FrameIds /\ k <= Len(frames) /\ frames \in Seq(Frames)
  BY DEF HistoryInv, TypeInv, TypeOK, GhostType, ClientType
<1>2. frames[k] \in Frames
  BY <1>1, BoundsAssumption DEF FrameIds
<1> QED
  BY <1>1, <1>2 DEF Frames

\* Receiving a payload (or a SUBSCRIBE without one).
LEMMA ReceiveHistory ==
    ASSUME HistoryInv, TypeInv', NEW s \in Sessions, NEW t \in Topics, NEW fr,
           frames' = frames \/ frames' = Append(frames, fr),
           UNCHANGED <<log, cleared>>,
           \A x \in Sessions \ {s} : req'[x] = req[x],
           \/ req'[s].msg = 0
           \/ /\ frames' = Append(frames, fr) /\ fr.from = s /\ fr.topic = t
              /\ req'[s].msg = Len(frames) + 1 /\ req'[s].topic = t
    PROVE  HistoryInv'
<1>1. /\ frames \in Seq(Frames)
      /\ \A x \in Sessions : req[x].msg \in Nat /\ req[x].msg <= Len(frames)
      /\ \A u \in Topics : Elems(log[u]) \subseteq FrameIds
      /\ cleared \subseteq FrameIds
  BY ElemsType, BusyRequest
     DEF HistoryInv, TypeInv, TypeOK, InFlight, ClientType, RedisType, GhostType
<1>2. /\ Len(frames') \in Nat /\ Len(frames') >= Len(frames)
      /\ \A k \in FrameIds : k <= Len(frames) => frames'[k] = frames[k]
  BY <1>1 DEF FrameIds
<1>3. ASSUME NEW x \in Sessions, req'[x].msg # 0
      PROVE  /\ frames'[req'[x].msg].from = x
             /\ frames'[req'[x].msg].topic = req'[x].topic
             /\ \A k \in cleared' : frames'[k].from = x => k < req'[x].msg
  <2>1. CASE x = s
    <3>1. req'[s].msg = Len(frames) + 1 /\ frames'[Len(frames) + 1] = fr
      BY <1>1, <1>3, <2>1
    <3> QED
      BY <1>1, <1>2, <1>3, <2>1, <3>1 DEF HistoryInv, FrameIds
  <2>2. CASE x # s
    <3>1. req'[x] = req[x] /\ req[x].msg \in FrameIds /\ req[x].msg <= Len(frames)
      BY <1>1, <1>3, <2>2, BusyRequest DEF HistoryInv, FrameIds
    <3> QED
      BY <1>1, <1>2, <1>3, <3>1 DEF HistoryInv
  <2> QED
    BY <2>1, <2>2
<1>4. \A u \in Topics : \A m \in Elems(log'[u]) : m <= Len(frames')
  BY <1>1, <1>2 DEF HistoryInv, FrameIds
<1>5. \A k \in cleared' : k <= Len(frames')
  BY <1>1, <1>2 DEF HistoryInv, FrameIds
<1>6. OwnHistoryCleared'
  <2> SUFFICES ASSUME NEW k \in cleared, NEW m \in Elems(log[frames'[k].topic]),
                      frames'[m].from = frames'[k].from
               PROVE  m > k
    BY DEF OwnHistoryCleared
  <2>1. k \in FrameIds /\ k <= Len(frames) /\ frames'[k] = frames[k]
    BY <1>1, <1>2 DEF HistoryInv
  <2>2. frames[k].topic \in Topics
    BY ClearedFrame
  <2>3. m \in FrameIds /\ m <= Len(frames) /\ frames'[m] = frames[m]
    BY <1>1, <1>2, <2>1, <2>2 DEF HistoryInv
  <2> QED
    BY <2>1, <2>3 DEF HistoryInv, OwnHistoryCleared
<1> QED
  BY <1>3, <1>4, <1>5, <1>6 DEF HistoryInv

LEMMA StepHistory == HistoryInv /\ [Next]_vars => HistoryInv'
<1> SUFFICES ASSUME HistoryInv, [Next]_vars PROVE HistoryInv'
  OBVIOUS
<1>0. TypeInv /\ TypeInv'
  BY StepType DEF HistoryInv
<1>1. CASE HistoryFrame
  <2>1. /\ frames' = frames /\ cleared' = cleared
        /\ \A t \in Topics : Elems(log'[t]) \subseteq Elems(log[t])
        /\ \A s \in Sessions : req'[s] = req[s] \/ req'[s].msg = 0
    BY <1>1 DEF HistoryFrame
  <2>2. OwnHistoryCleared'
    BY <2>1, ClearedFrame DEF HistoryInv, OwnHistoryCleared
  <2>3. \A s \in Sessions : req'[s].msg # 0 =>
          /\ frames[req'[s].msg].from = s
          /\ frames[req'[s].msg].topic = req'[s].topic
          /\ \A k \in cleared : frames[k].from = s => k < req'[s].msg
    BY <2>1 DEF HistoryInv
  <2>4. \A t \in Topics : \A m \in Elems(log'[t]) : m <= Len(frames)
    BY <2>1 DEF HistoryInv
  <2> QED
    BY <1>0, <2>1, <2>2, <2>3, <2>4 DEF HistoryInv
<1>2. ASSUME NEW s \in Sessions, NEW t \in Topics, RecvSubscribe(s, t) PROVE HistoryInv'
  <2>1. UNCHANGED <<log, cleared>> /\ \A x \in Sessions \ {s} : req'[x] = req[x]
    BY <1>0, <1>2 DEF RecvSubscribe, TypeInv, TypeOK, HandlerType
  <2>2. CASE frames' = frames /\ req'[s].msg = 0
    BY <1>0, <2>1, <2>2, ReceiveHistory
  <2>3. CASE \E term \in Terminal :
               /\ frames' = Append(frames, [from |-> s, topic |-> t, terminal |-> term])
               /\ req'[s].msg = Len(frames) + 1 /\ req'[s].topic = t
    BY <1>0, <2>1, <2>3, ReceiveHistory
  <2>4. req \in [Sessions -> Requests]
    BY <1>0 DEF TypeInv, TypeOK, HandlerType
  <2>5. \/ frames' = frames /\ req'[s].msg = 0
        \/ \E term \in Terminal :
              /\ frames' = Append(frames, [from |-> s, topic |-> t, terminal |-> term])
              /\ req'[s].msg = Len(frames) + 1 /\ req'[s].topic = t
    <3>1. \/ /\ req' = [req EXCEPT ![s] = [op |-> "subscribe", topic |-> t, msg |-> 0]]
             /\ frames' = frames
          \/ \E term \in Terminal :
                /\ frames' = Append(frames, [from |-> s, topic |-> t, terminal |-> term])
                /\ req' = [req EXCEPT ![s] =
                             [op |-> "subscribe", topic |-> t, msg |-> Len(frames) + 1]]
      BY <1>2 DEF RecvSubscribe, NewFrame
    <3>2. ASSUME NEW n, req' = [req EXCEPT ![s] = [op |-> "subscribe", topic |-> t, msg |-> n]]
          PROVE  req'[s].msg = n /\ req'[s].topic = t
      BY <2>4, <3>2
    <3>3. CASE /\ req' = [req EXCEPT ![s] = [op |-> "subscribe", topic |-> t, msg |-> 0]]
               /\ frames' = frames
      BY <3>2, <3>3
    <3>4. ASSUME NEW term \in Terminal,
                 frames' = Append(frames, [from |-> s, topic |-> t, terminal |-> term]),
                 req' = [req EXCEPT ![s] =
                           [op |-> "subscribe", topic |-> t, msg |-> Len(frames) + 1]]
          PROVE  req'[s].msg = Len(frames) + 1 /\ req'[s].topic = t
      BY <3>2, <3>4
    <3> QED
      BY <3>1, <3>3, <3>4
  <2> QED
    BY <2>2, <2>3, <2>5
<1>3. ASSUME NEW s \in Sessions, NEW t \in Topics, NEW term \in Terminal, RecvPublish(s, t, term)
      PROVE  HistoryInv'
  <2>1. /\ UNCHANGED <<log, cleared>> /\ \A x \in Sessions \ {s} : req'[x] = req[x]
        /\ frames' = Append(frames, [from |-> s, topic |-> t, terminal |-> term])
        /\ req'[s].msg = Len(frames) + 1 /\ req'[s].topic = t
    BY <1>0, <1>3 DEF RecvPublish, NewFrame, TypeInv, TypeOK, HandlerType
  <2> QED
    BY <1>0, <2>1, ReceiveHistory
<1>4. ASSUME NEW s \in Sessions, Store(s) PROVE HistoryInv'
  <2> DEFINE t == req[s].topic
             m == req[s].msg
  <2>1. t \in Topics /\ m \in FrameIds /\ m <= Len(frames) /\ m # 0 /\ log[t] \in Seq(FrameIds)
    BY <1>0, <1>4, BusyRequest DEF Store, PublishPcs, TypeInv, InFlight
  <2>2. /\ UNCHANGED <<frames, cleared, req>>
        /\ log' = log \/ log' = [log EXCEPT ![t] = Append(@, m)]
    BY <1>4 DEF Store
  <2>3. \A u \in Topics : Elems(log'[u]) \subseteq Elems(log[u]) \cup {m}
    <3>1. log \in [Topics -> Seq(FrameIds)]
      BY <1>0 DEF TypeInv, TypeOK, RedisType
    <3>2. Elems(Append(log[t], m)) = Elems(log[t]) \cup {m}
      BY <2>1, ElemsAppend
    <3> HIDE DEF t, m
    <3> QED
      BY <2>2, <3>1, <3>2
  <2>4. \A u \in Topics : u # t => log'[u] = log[u]
    BY <1>0, <2>2 DEF TypeInv, TypeOK, RedisType
  <2> HIDE DEF t, m
  <2>5. frames[m].from = s /\ frames[m].topic = t /\ \A k \in cleared : frames[k].from = s => k < m
    BY <2>1 DEF HistoryInv, t, m
  <2>6. OwnHistoryCleared'
    <3> SUFFICES ASSUME NEW k \in cleared, NEW e \in Elems(log'[frames[k].topic]),
                        frames[e].from = frames[k].from
                 PROVE  e > k
      BY <2>2 DEF OwnHistoryCleared
    <3>1. frames[k].topic \in Topics /\ k \in FrameIds
      BY ClearedFrame
    <3>2. CASE e = m
      BY <2>1, <2>5, <3>1, <3>2 DEF FrameIds
    <3>3. CASE e # m
      BY <2>3, <3>1, <3>3 DEF HistoryInv, OwnHistoryCleared
    <3> QED
      BY <3>2, <3>3
  <2>7. \A u \in Topics : \A e \in Elems(log'[u]) : e <= Len(frames')
    BY <2>1, <2>2, <2>3 DEF HistoryInv
  <2> QED
    BY <1>0, <2>2, <2>6, <2>7 DEF HistoryInv
<1>5. ASSUME NEW s \in Sessions, FinishPublish(s) PROVE HistoryInv'
  <2> DEFINE t == req[s].topic
             m == req[s].msg
  <2>1. t \in Topics /\ m \in FrameIds /\ m <= Len(frames) /\ m # 0
    BY <1>0, <1>5, BusyRequest DEF FinishPublish, PublishPcs, TypeInv, InFlight
  <2>2. /\ UNCHANGED frames
        /\ req'[s].msg = 0 /\ \A x \in Sessions \ {s} : req'[x] = req[x]
    BY <1>0, <1>5 DEF FinishPublish, NoReq, TypeInv, TypeOK, HandlerType
  <2>3. \/ log' = [log EXCEPT ![t] = <<>>] /\ cleared' = cleared \cup {m}
        \/ log' = log /\ cleared' = cleared
    BY <1>5 DEF FinishPublish, DeleteTopic
  <2>4. \A u \in Topics : Elems(log'[u]) \subseteq Elems(log[u])
    BY <1>0, <2>3, ElemsEmpty DEF TypeInv, TypeOK, RedisType
  <2>5. cleared' # cleared => Elems(log'[t]) = {}
    BY <1>0, <2>1, <2>3, ElemsEmpty DEF TypeInv, TypeOK, RedisType
  <2> HIDE DEF t, m
  <2>6. frames[m].from = s /\ frames[m].topic = t
    BY <2>1 DEF HistoryInv, t, m
  <2>7. OwnHistoryCleared'
    <3> SUFFICES ASSUME NEW k \in cleared', NEW e \in Elems(log'[frames[k].topic]),
                        frames[e].from = frames[k].from
                 PROVE  e > k
      BY <2>2 DEF OwnHistoryCleared
    <3>1. CASE k \in cleared
      <4>1. frames[k].topic \in Topics
        BY <3>1, ClearedFrame
      <4> QED
        BY <2>4, <3>1, <4>1 DEF HistoryInv, OwnHistoryCleared
    <3>2. CASE k \notin cleared
      BY <2>3, <2>5, <2>6, <3>2
    <3> QED
      BY <3>1, <3>2
  <2>8. ASSUME NEW x \in Sessions, req'[x].msg # 0
        PROVE  /\ frames[req'[x].msg].from = x
               /\ frames[req'[x].msg].topic = req'[x].topic
               /\ \A k \in cleared' : frames[k].from = x => k < req'[x].msg
    BY <2>2, <2>3, <2>6, <2>8 DEF HistoryInv
  <2>9. \A k \in cleared' : k <= Len(frames)
    BY <2>1, <2>3 DEF HistoryInv
  <2>10. \A u \in Topics : \A e \in Elems(log'[u]) : e <= Len(frames)
    BY <2>4 DEF HistoryInv
  <2> QED
    BY <1>0, <2>2, <2>7, <2>8, <2>9, <2>10 DEF HistoryInv
<1> QED
  BY <1>0, <1>1, <1>2, <1>3, <1>4, <1>5, HistorySteps

LEMMA InitHistory == Init => HistoryInv
BY InitType, ElemsEmpty DEF Init, HistoryInv, OwnHistoryCleared, NoReq

\* handlePublish of a terminal payload removes from Redis everything the same
\* stream published on the topic before it, for good.
THEOREM OwnHistoryStaysCleared == Spec => []OwnHistoryCleared
<1>1. HistoryInv => OwnHistoryCleared
  BY DEF HistoryInv
<1> QED
  BY InitHistory, StepHistory, <1>1, PTL DEF Spec
=============================================================================
