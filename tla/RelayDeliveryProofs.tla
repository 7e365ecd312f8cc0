------------------------- MODULE RelayDeliveryProofs -------------------------
(***************************************************************************)
(* What the relay hands to a stream, proved for every instance of Relay:    *)
(* nothing of its own, the payloads of each publisher in their order, what  *)
(* the replay owes once, and all of it when the history only grew.          *)
(***************************************************************************)
EXTENDS RelayProofs

USE DEF local, loop, index, queue, redis, ghost, shared, client, env

\* The payloads a stream was sent or has in its queue.
Fed(s) == (Elems(received[s]) \cup Elems(sendQ[s])) \ {0}
-----------------------------------------------------------------------------
(* The steps. *)

Early   == BeforeJoin \ {"fetch", "join"}
Stored  == {"trim", "fan", "aim"}
Outside == Pcs \ (SubscribePcs \cup Stored)

\* A queue that gained an ERROR, lost its head, or was lost.
Lesser(q, r) == \/ r = q \/ r = Append(q, 0) \/ r = <<>>
                \/ q # <<>> /\ r = Tail(q)

\* Steps on the way to a replay or to the store, and failures: nothing is read, stored, skipped
\* or handed over.
Calm ==
    /\ UNCHANGED <<frames, nsub, hist, todo, fan, aim, log, owed, clean, received, replaying>>
    /\ \A s \in Sessions :
          /\ Lesser(sendQ[s], sendQ'[s])
          /\ \A m \in Elems(sendQ[s]) \ {0} : m \in Elems(sendQ'[s]) \cup dropped'[s]
          /\ dropped[s] \subseteq dropped'[s]
          /\ req'[s] = req[s] \/ (pc[s] = "pubRedis" /\ req'[s] = NoReq)
          /\ \/ pc'[s] = pc[s]
             \/ {pc[s], pc'[s]} \subseteq Early
             \/ {pc[s], pc'[s]} \subseteq Outside
    /\ \A t \in Topics : subs'[t] \subseteq subs[t]

LEMMA ElemsSplit ==
    ASSUME NEW S, NEW q \in Seq(S), q # <<>>
    PROVE  Elems(q) = {Head(q)} \cup Elems(Tail(q)) /\ Tail(q) \in Seq(S) /\ Head(q) \in S
<1>1. /\ Tail(q) \in Seq(S) /\ Head(q) \in S /\ Len(Tail(q)) = Len(q) - 1 /\ Len(q) \in Nat \ {0}
      /\ \A i \in 1 .. Len(Tail(q)) : Tail(q)[i] = q[i + 1]
      /\ Head(q) = q[1]
  BY HeadTailProperties
<1>2. ASSUME NEW i \in 1 .. Len(q) PROVE q[i] \in {Head(q)} \cup Elems(Tail(q))
  <2>1. CASE i = 1
    BY <1>1, <2>1
  <2>2. CASE i # 1
    <3>1. i - 1 \in 1 .. Len(Tail(q)) /\ Tail(q)[i - 1] = q[(i - 1) + 1] /\ (i - 1) + 1 = i
      BY <1>1, <2>2
    <3> QED
      BY <3>1 DEF Elems
  <2> QED
    BY <2>1, <2>2
<1>3. ASSUME NEW i \in 1 .. Len(Tail(q)) PROVE Tail(q)[i] \in Elems(q)
  BY <1>1 DEF Elems
<1>4. Head(q) \in Elems(q)
  BY <1>1 DEF Elems
<1> QED
  BY <1>1, <1>2, <1>3, <1>4 DEF Elems

\* tryEnqueue of an ERROR: one more, or nothing.
LEMMA ErrorIsLesser ==
    ASSUME TypeInv, NEW x \in Sessions, TryEnqueue(x, 0)
    PROVE  /\ UNCHANGED dropped
           /\ \A s \in Sessions :
                /\ Lesser(sendQ[s], sendQ'[s])
                /\ \A m \in Elems(sendQ[s]) \ {0} : m \in Elems(sendQ'[s])
<1> DEFINE Responses == 0 .. MaxMsgs
<1>1. /\ sendQ \in [Sessions -> Seq(Responses)] /\ 0 \in Responses
      /\ dropped \in [Sessions -> SUBSET FrameIds]
  BY BoundsAssumption DEF TypeInv, TypeOK, QueueType
<1> HIDE DEF Responses
<1>2. Elems(Append(sendQ[x], 0)) = Elems(sendQ[x]) \cup {0}
  BY <1>1, ElemsAppend
<1>3. sendQ' = sendQ \/ sendQ' = [sendQ EXCEPT ![x] = Append(@, 0)]
  BY <1>1 DEF TryEnqueue
<1>4. UNCHANGED dropped
  BY <1>1 DEF TryEnqueue
<1> QED
  BY <1>1, <1>2, <1>3, <1>4 DEF Lesser

LEMMA CalmSteps ==
    ASSUME TypeInv, [Next]_vars
    PROVE  \/ Calm
           \/ \E s \in Sessions, t \in Topics :
                 RecvSubscribe(s, t) \/ \E term \in Terminal : RecvPublish(s, t, term)
           \/ \E s \in Sessions :
                 \/ Leave(s) \/ FetchHistory(s) \/ Join(s)
                 \/ ReplayNext(s) \/ FetchCatchUp(s) \/ Unmark(s)
                 \/ Snapshot(s) \/ Store(s) \/ Trim(s)
                 \/ FanOut(s) \/ FanEnqueue(s) \/ FinishPublish(s)
                 \/ Deliver(s)
           \/ Crash
           \/ \E t \in Topics : ExpireLog(t)
<1> USE DEF TypeInv, TypeOK, HandlerType, Goto
<1> DEFINE Rest == /\ UNCHANGED <<frames, nsub, hist, todo, fan, aim, log, owed, clean, received,
                                  replaying>>
                   /\ \A t \in Topics : subs'[t] \subseteq subs[t]
           Moves == \A s \in Sessions : \/ pc'[s] = pc[s]
                                        \/ {pc[s], pc'[s]} \subseteq Early
                                        \/ {pc[s], pc'[s]} \subseteq Outside
<1>0. /\ Early = {"subLookup", "subRedis", "bucketNew", "bucketOld", "create", "leave"}
      /\ Outside = {"off", "recv", "returned", "pubLookup", "pubRedis", "snapshot", "store"}
  BY DEF Early, Outside, BeforeJoin, SubscribePcs, PublishPcs, Pcs, Stored
<1>a. \A q : Lesser(q, q)
  BY DEF Lesser
<1>1. ASSUME NEW s \in Sessions, Open(s) PROVE Calm
  <2>1. pc[s] = "off"
    BY <1>1 DEF Open, InFlight
  <2> QED
    BY <1>0, <1>1, <1>a, <2>1 DEF Open, Calm
<1>2. ASSUME NEW s \in Sessions, RecvFails(s) PROVE Calm
  <2>1. \A t \in Topics : subs'[t] \subseteq subs[t]
    BY <1>2 DEF RecvFails, Detach, LeaveTopic, IndexType
  <2> QED
    BY <1>0, <1>2, <1>a, <2>1 DEF RecvFails, Calm
<1>3. ASSUME NEW s \in Sessions, RejectRequest(s) PROVE Calm
  BY <1>3, ErrorIsLesser DEF RejectRequest, Calm
<1>4. ASSUME NEW s \in Sessions, SubLookup(s) \/ SubRedis(s) \/ EnsureBucket(s) \/ CreateTopic(s)
      PROVE  Calm
  <2>1. Moves
    BY <1>0, <1>4 DEF SubLookup, SubRedis, EnsureBucket, CreateTopic
  <2>2. Rest /\ UNCHANGED <<sendQ, dropped, req>>
    BY <1>4 DEF SubLookup, SubRedis, EnsureBucket, CreateTopic
  <2> QED
    BY <1>a, <2>1, <2>2 DEF Calm
<1>5. ASSUME NEW s \in Sessions, PubLookup(s) PROVE Calm
  BY <1>0, <1>5, <1>a DEF PubLookup, Calm
<1>6. ASSUME NEW s \in Sessions, PubRedis(s) PROVE Calm
  <2>1. Moves /\ Rest /\ \A x \in Sessions : req'[x] = req[x] \/ (pc[x] = "pubRedis" /\ req'[x] = NoReq)
    BY <1>0, <1>6 DEF PubRedis
  <2>2. TryEnqueue(s, 0) \/ UNCHANGED <<sendQ, dropped>>
    BY <1>6 DEF PubRedis
  <2> QED
    BY <1>a, <2>1, <2>2, ErrorIsLesser DEF Calm
<1>7. ASSUME NEW s \in Sessions, SendFails(s) PROVE Calm
  <2>1. Moves /\ Rest /\ UNCHANGED req
    BY <1>7 DEF SendFails, Detach, LeaveTopic, IndexType
  <2>2. /\ sendQ \in [Sessions -> Seq(0 .. MaxMsgs)] /\ sendQ[s] # <<>>
        /\ sendQ' = [sendQ EXCEPT ![s] = Tail(@)]
        /\ dropped' = [dropped EXCEPT ![s] = @ \cup ({Head(sendQ[s])} \ {0})]
        /\ dropped \in [Sessions -> SUBSET FrameIds]
    BY <1>7 DEF SendFails, QueueType
  <2>3. Elems(sendQ[s]) = {Head(sendQ[s])} \cup Elems(Tail(sendQ[s]))
    BY <2>2, ElemsSplit
  <2>4. \A x \in Sessions :
          /\ Lesser(sendQ[x], sendQ'[x])
          /\ \A m \in Elems(sendQ[x]) \ {0} : m \in Elems(sendQ'[x]) \cup dropped'[x]
          /\ dropped[x] \subseteq dropped'[x]
    BY <1>a, <2>2, <2>3 DEF Lesser
  <2> QED
    BY <2>1, <2>4 DEF Calm
<1>8. ASSUME NEW s \in Sessions, WriterExits(s) \/ Break(s) PROVE Calm
  BY <1>8, <1>a DEF WriterExits, Break, Calm
<1>9. ASSUME NEW t \in Topics, ExpireTracking(t) PROVE Calm
  BY <1>9, <1>a DEF ExpireTracking, Calm
<1>10. CASE UNCHANGED vars
  BY <1>10, <1>a DEF vars, Calm
<1> QED
  BY <1>1, <1>2, <1>3, <1>4, <1>5, <1>6, <1>7, <1>8, <1>9, <1>10
  DEF Next, Receive, Handler, Subscribing, Publishing, Writer, Environment
-----------------------------------------------------------------------------
(* What is handed over. *)

LEMMA QueueElems ==
    ASSUME TypeInv, NEW s \in Sessions
    PROVE  /\ sendQ \in [Sessions -> Seq(0 .. MaxMsgs)] /\ sendQ[s] \in Seq(0 .. MaxMsgs)
           /\ received \in [Sessions -> Seq(FrameIds)] /\ received[s] \in Seq(FrameIds)
           /\ Elems(Append(sendQ[s], 0)) = Elems(sendQ[s]) \cup {0}
           /\ \A m \in 0 .. MaxMsgs : Elems(Append(sendQ[s], m)) = Elems(sendQ[s]) \cup {m}
           /\ \A m \in FrameIds : Elems(Append(received[s], m)) = Elems(received[s]) \cup {m}
           /\ sendQ[s] # <<>> => /\ Elems(sendQ[s]) = {Head(sendQ[s])} \cup Elems(Tail(sendQ[s]))
                                 /\ Head(sendQ[s]) \in 0 .. MaxMsgs
<1> DEFINE Responses == 0 .. MaxMsgs
<1>1. /\ sendQ \in [Sessions -> Seq(Responses)] /\ sendQ[s] \in Seq(Responses) /\ 0 \in Responses
      /\ received \in [Sessions -> Seq(FrameIds)] /\ received[s] \in Seq(FrameIds)
  BY BoundsAssumption DEF TypeInv, TypeOK, QueueType, ClientType
<1> HIDE DEF Responses
<1>2. \A m \in Responses : Elems(Append(sendQ[s], m)) = Elems(sendQ[s]) \cup {m}
  BY <1>1, ElemsAppend
<1>3. \A m \in FrameIds : Elems(Append(received[s], m)) = Elems(received[s]) \cup {m}
  BY <1>1, ElemsAppend
<1>4. sendQ[s] # <<>> => /\ Elems(sendQ[s]) = {Head(sendQ[s])} \cup Elems(Tail(sendQ[s]))
                         /\ Head(sendQ[s]) \in Responses
  BY <1>1, ElemsSplit
<1> QED
  BY <1>1, <1>2, <1>3, <1>4 DEF Responses

LEMMA DeliverFed ==
    ASSUME TypeInv, NEW x \in Sessions, Deliver(x), NEW s \in Sessions
    PROVE  Fed(s)' = Fed(s)
<1>1. CASE s # x
  BY <1>1, QueueElems DEF Fed, Deliver
<1>2. CASE s = x
  <2>1. /\ sendQ[s] # <<>> /\ sendQ'[s] = Tail(sendQ[s])
        /\ received'[s] = IF Head(sendQ[s]) = 0 THEN received[s]
                          ELSE Append(received[s], Head(sendQ[s]))
    BY <1>2, QueueElems DEF Deliver
  <2>2. Head(sendQ[s]) # 0 => Head(sendQ[s]) \in FrameIds
    BY <2>1, QueueElems, BoundsAssumption DEF FrameIds
  <2>3. Elems(received'[s]) = Elems(received[s]) \cup ({Head(sendQ[s])} \ {0})
    <3>1. CASE Head(sendQ[s]) = 0
      BY <2>1, <3>1
    <3>2. CASE Head(sendQ[s]) # 0
      <4>1. \A h \in FrameIds : Elems(Append(received[s], h)) = Elems(received[s]) \cup {h}
        BY QueueElems
      <4> QED
        BY <2>1, <2>2, <3>2, <4>1
    <3> QED
      BY <3>1, <3>2
  <2>4. Elems(sendQ[s]) = {Head(sendQ[s])} \cup Elems(sendQ'[s])
    BY <2>1, QueueElems
  <2> QED
    BY <2>3, <2>4 DEF Fed
<1> QED
  BY <1>1, <1>2

\* What the replay loop and the live delivery enqueue.
LEMMA ReplayNextFacts ==
    ASSUME TypeInv, NEW s \in Sessions, ReplayNext(s)
    PROVE  /\ todo[s] # <<>> /\ Head(todo[s]) \in FrameIds /\ Head(todo[s]) \in 0 .. MaxMsgs
           /\ Elems(todo[s]) = {Head(todo[s])} \cup Elems(Tail(todo[s]))
           /\ todo' = [todo EXCEPT ![s] = Tail(todo[s])]
           /\ todo \in [Sessions -> Seq(FrameIds)] /\ todo[s] \in Seq(FrameIds)
           /\ \/ OwnPayload(s, Head(todo[s])) /\ UNCHANGED <<sendQ, dropped>>
              \/ ~OwnPayload(s, Head(todo[s])) /\ TryEnqueue(s, Head(todo[s]))
<1>1. todo[s] # <<>> /\ todo \in [Sessions -> Seq(FrameIds)] /\ todo[s] \in Seq(FrameIds)
  BY DEF ReplayNext, TypeInv, TypeOK, HandlerType
<1>2. Head(todo[s]) \in FrameIds /\ Elems(todo[s]) = {Head(todo[s])} \cup Elems(Tail(todo[s]))
  BY <1>1, ElemsSplit
<1>3. Head(todo[s]) \in 0 .. MaxMsgs
  BY <1>2 DEF FrameIds
<1> QED
  BY <1>1, <1>2, <1>3 DEF ReplayNext

LEMMA FanEnqueueFacts ==
    ASSUME TypeInv, NEW p \in Sessions, FanEnqueue(p)
    PROVE  /\ aim[p] \in Sessions /\ req[p].msg \in FrameIds /\ req[p].msg \in 0 .. MaxMsgs
           /\ req[p].msg <= Len(frames) /\ TryEnqueue(aim[p], req[p].msg)
           /\ UNCHANGED received
BY BusyRequest DEF FanEnqueue, TypeInv, InFlight, PublishPcs

\* Only the replay loop and live delivery hand over a payload.
Handed(s, m) ==
    \/ ReplayNext(s) /\ m = Head(todo[s]) /\ ~OwnPayload(s, m)
    \/ \E p \in Sessions : FanEnqueue(p) /\ aim[p] = s /\ m = req[p].msg

LEMMA QueueSteps ==
    ASSUME TypeInv, [Next]_vars, NEW s \in Sessions
    PROVE  \/ received'[s] = received[s] /\ Lesser(sendQ[s], sendQ'[s])
           \/ Deliver(s)
           \/ \E m \in 0 .. MaxMsgs : /\ received'[s] = received[s]
                                      /\ sendQ'[s] = Append(sendQ[s], m) /\ Handed(s, m)
<1>0. \A q : Lesser(q, q)
  BY DEF Lesser
<1> DEFINE Same == received'[s] = received[s] /\ sendQ'[s] = sendQ[s]
           More(m) == received'[s] = received[s] /\ sendQ'[s] = Append(sendQ[s], m)
<1>1. CASE Calm
  BY <1>1 DEF Calm
<1>2. ASSUME NEW x \in Sessions, ReplayNext(x)
      PROVE  Same \/ (More(Head(todo[s])) /\ Handed(s, Head(todo[s])) /\ Head(todo[s]) \in 0 .. MaxMsgs)
  <2>1. CASE OwnPayload(x, Head(todo[x])) /\ UNCHANGED <<sendQ, dropped>>
    BY <1>2, <2>1 DEF ReplayNext
  <2>2. CASE ~OwnPayload(x, Head(todo[x])) /\ TryEnqueue(x, Head(todo[x]))
    <3>1. Same \/ (x = s /\ More(Head(todo[x])))
      BY <1>2, <2>2, QueueElems DEF ReplayNext, TryEnqueue
    <3> QED
      BY <1>2, <2>2, <3>1, ReplayNextFacts DEF Handed
  <2> QED
    BY <1>2, <2>1, <2>2, ReplayNextFacts
<1>3. ASSUME NEW p \in Sessions, FanEnqueue(p)
      PROVE  Same \/ (More(req[p].msg) /\ Handed(s, req[p].msg) /\ req[p].msg \in 0 .. MaxMsgs)
  <2>1. TryEnqueue(aim[p], req[p].msg) /\ req[p].msg \in 0 .. MaxMsgs /\ UNCHANGED received
    BY <1>3, FanEnqueueFacts
  <2>2. Same \/ (aim[p] = s /\ More(req[p].msg))
    BY <2>1, QueueElems DEF TryEnqueue
  <2> QED
    BY <1>3, <2>1, <2>2 DEF Handed
<1>4. ASSUME NEW x \in Sessions, Deliver(x) PROVE Same \/ x = s
  BY <1>4, QueueElems DEF Deliver
<1>5. CASE Crash
  BY <1>5 DEF Crash, Lesser
<1>6. ASSUME NEW x \in Sessions, NEW t \in Topics,
             RecvSubscribe(x, t) \/ \E term \in Terminal : RecvPublish(x, t, term)
      PROVE  Same
  BY <1>6 DEF RecvSubscribe, RecvPublish
<1>7. ASSUME NEW x \in Sessions,
             \/ Leave(x) \/ FetchHistory(x) \/ Join(x) \/ FetchCatchUp(x) \/ Unmark(x)
             \/ Snapshot(x) \/ Store(x) \/ Trim(x) \/ FanOut(x) \/ FinishPublish(x)
      PROVE  Same
  BY <1>7 DEF Leave, FetchHistory, Join, FetchCatchUp, Unmark, Snapshot, Store, Trim, FanOut, FinishPublish
<1>8. ASSUME NEW t \in Topics, ExpireLog(t) PROVE Same
  BY <1>8 DEF ExpireLog
<1> QED
  BY <1>0, <1>1, <1>2, <1>3, <1>4, <1>5, <1>6, <1>7, <1>8, CalmSteps

LEMMA FedSteps ==
    ASSUME TypeInv, [Next]_vars, NEW s \in Sessions, NEW m \in Fed(s)'
    PROVE  m \in Fed(s) \/ Handed(s, m)
<1>1. CASE received'[s] = received[s] /\ Lesser(sendQ[s], sendQ'[s])
  <2>1. Elems(sendQ'[s]) \subseteq Elems(sendQ[s]) \cup {0}
    BY <1>1, QueueElems, ElemsEmpty DEF Lesser
  <2> QED
    BY <1>1, <2>1 DEF Fed
<1>2. CASE Deliver(s)
  BY <1>2, DeliverFed
<1>3. ASSUME NEW n \in 0 .. MaxMsgs, received'[s] = received[s],
             sendQ'[s] = Append(sendQ[s], n), Handed(s, n)
      PROVE  m \in Fed(s) \/ Handed(s, m)
  <2>1. Elems(sendQ'[s]) = Elems(sendQ[s]) \cup {n}
    BY <1>3, QueueElems
  <2> QED
    BY <1>3, <2>1 DEF Fed
<1> QED
  BY <1>1, <1>2, <1>3, QueueSteps

\* The payloads named anywhere were received.
KnownInv ==
    \A s \in Sessions :
        Elems(hist[s]) \cup Elems(todo[s]) \cup Fed(s) \cup owed[s] \subseteq 1 .. Len(frames)

BaseInv == HistoryInv /\ KnownInv

\* Payloads are only added to those received.
LEMMA FramesGrow ==
    ASSUME TypeInv, [Next]_vars
    PROVE  /\ Len(frames) \in Nat /\ Len(frames') \in Nat /\ Len(frames) <= Len(frames')
           /\ 1 .. Len(frames) \subseteq 1 .. Len(frames')
           /\ 1 .. Len(frames) \subseteq FrameIds
           /\ \A m \in 1 .. Len(frames) : frames'[m] = frames[m]
<1>1. frames \in Seq(Frames) /\ Len(frames) <= MaxMsgs /\ Len(frames) \in Nat
  BY DEF TypeInv, TypeOK, ClientType
<1>2. frames' = frames \/ \E fr : frames' = Append(frames, fr)
  <2>1. ASSUME NEW s \in Sessions, NEW t \in Topics,
               RecvSubscribe(s, t) \/ \E term \in Terminal : RecvPublish(s, t, term)
        PROVE  frames' = frames \/ \E fr : frames' = Append(frames, fr)
    BY <2>1 DEF RecvSubscribe, RecvPublish, NewFrame
  <2>2. ASSUME NEW s \in Sessions,
               \/ Leave(s) \/ FetchHistory(s) \/ Join(s)
               \/ ReplayNext(s) \/ FetchCatchUp(s) \/ Unmark(s)
               \/ Snapshot(s) \/ Store(s) \/ Trim(s)
               \/ FanOut(s) \/ FanEnqueue(s) \/ FinishPublish(s)
               \/ Deliver(s)
        PROVE  frames' = frames
    BY <2>2 DEF Leave, FetchHistory, Join, ReplayNext, FetchCatchUp, Unmark, Snapshot, Store, Trim,
                FanOut, FanEnqueue, FinishPublish, Deliver
  <2>3. Calm \/ Crash \/ (\E t \in Topics : ExpireLog(t)) => frames' = frames
    BY DEF Calm, Crash, ExpireLog
  <2> QED
    BY <2>1, <2>2, <2>3, CalmSteps
<1> QED
  BY <1>1, <1>2, BoundsAssumption DEF FrameIds

LEMMA CatchUpElems ==
    ASSUME NEW S, NEW h1 \in Seq(S), NEW h2 \in Seq(S)
    PROVE  Elems(CatchUpTail(h1, h2)) \subseteq Elems(h2)
BY DEF CatchUpTail, Elems

\* The log of a busy handler's topic.
LEMMA BusyLog ==
    ASSUME HistoryInv, NEW s \in Sessions, pc[s] \in PublishPcs \cup SubscribePcs
    PROVE  /\ req[s].topic \in Topics
           /\ log[req[s].topic] \in Seq(FrameIds)
           /\ Elems(log[req[s].topic]) \subseteq 1 .. Len(frames)
<1>1. req[s].topic \in Topics /\ log[req[s].topic] \in Seq(FrameIds) /\ Len(frames) \in Nat
      /\ Elems(log[req[s].topic]) \subseteq FrameIds
  BY BusyRequest DEF HistoryInv, TypeInv, TypeOK, ClientType
<1> QED
  BY <1>1 DEF HistoryInv, FrameIds

\* A step names payloads that had been received before it, except in the request it receives.
LEMMA SeenSteps ==
    ASSUME BaseInv, [Next]_vars
    PROVE  \A s \in Sessions :
              /\ Fed(s)' \subseteq 1 .. Len(frames)
              /\ Elems(hist'[s]) \subseteq 1 .. Len(frames)
              /\ Elems(todo'[s]) \subseteq 1 .. Len(frames)
              /\ owed'[s] \subseteq 1 .. Len(frames)
<1>0. HistoryInv /\ TypeInv
  BY DEF BaseInv, HistoryInv
<1> DEFINE Seen == 1 .. Len(frames)
<1>2. /\ \A s \in Sessions : /\ Elems(hist[s]) \subseteq Seen /\ Elems(todo[s]) \subseteq Seen
                             /\ Fed(s) \subseteq Seen /\ owed[s] \subseteq Seen
                             /\ req[s].msg # 0 => req[s].msg \in Seen
                             /\ hist[s] \in Seq(FrameIds) /\ todo[s] \in Seq(FrameIds)
      /\ hist \in [Sessions -> Seq(FrameIds)] /\ todo \in [Sessions -> Seq(FrameIds)]
      /\ owed \in [Sessions -> SUBSET FrameIds]
  <2>1. \A s \in Sessions : req[s].msg # 0 => req[s].msg \in Seen
    BY <1>0, BusyRequest DEF TypeInv, InFlight
  <2> QED
    BY <1>0, <2>1 DEF BaseInv, KnownInv, TypeInv, TypeOK, HandlerType, GhostType
<1> HIDE DEF Seen
<1>3. ASSUME NEW s \in Sessions PROVE Fed(s)' \subseteq Seen
  <2> SUFFICES ASSUME NEW m \in Fed(s)' PROVE m \in Seen
    OBVIOUS
  <2>1. ASSUME ReplayNext(s), m = Head(todo[s]) PROVE m \in Seen
    BY <1>0, <1>2, <2>1, ReplayNextFacts
  <2>2. ASSUME NEW p \in Sessions, FanEnqueue(p), m = req[p].msg PROVE m \in Seen
    BY <1>0, <1>2, <2>2, FanEnqueueFacts DEF FrameIds
  <2> QED
    BY <1>0, <1>2, <2>1, <2>2, FedSteps DEF Handed
<1> DEFINE NewLocal(s) == /\ Elems(hist'[s]) \subseteq Seen /\ Elems(todo'[s]) \subseteq Seen
                          /\ owed'[s] \subseteq Seen
<1>4. ASSUME NEW s \in Sessions PROVE NewLocal(s)
  <2>1. CASE UNCHANGED <<hist, todo, owed>>
    BY <1>2, <2>1
  <2>2. CASE Calm
    BY <2>1, <2>2 DEF Calm
  <2>3. ASSUME NEW x \in Sessions, NEW t \in Topics,
               RecvSubscribe(x, t) \/ \E term \in Terminal : RecvPublish(x, t, term)
        PROVE  UNCHANGED <<hist, todo, owed>>
    BY <2>3 DEF RecvSubscribe, RecvPublish
  <2>4. ASSUME NEW x \in Sessions,
               \/ Unmark(x) \/ Snapshot(x) \/ Store(x) \/ Trim(x) \/ FanEnqueue(x)
               \/ FinishPublish(x) \/ Deliver(x)
        PROVE  UNCHANGED <<hist, todo, owed>>
    BY <2>4 DEF Unmark, Snapshot, Store, Trim, FanEnqueue, FinishPublish, Deliver
  <2>5. ASSUME NEW t \in Topics, ExpireLog(t) PROVE UNCHANGED <<hist, todo, owed>>
    BY <2>5 DEF ExpireLog
  <2>6. CASE Crash
    BY <1>2, <2>6, ElemsEmpty DEF Crash
  <2>7. ASSUME NEW x \in Sessions, Leave(x) PROVE NewLocal(s)
    BY <1>2, <2>7 DEF Leave
  <2>8. ASSUME NEW x \in Sessions, FetchHistory(x) PROVE NewLocal(s)
    <3>1. Elems(log[req[x].topic]) \subseteq Seen
      BY <1>0, <2>8, BusyLog DEF FetchHistory, SubscribePcs, BeforeJoin, Seen
    <3>2. todo' = todo
      BY <2>8 DEF FetchHistory
    <3>3. Elems(hist'[s]) \subseteq Seen
      BY <1>2, <2>8, <3>1, ElemsEmpty DEF FetchHistory
    <3>4. owed'[s] \subseteq Seen
      BY ZenonT(40), <1>2, <2>8, <3>1 DEF FetchHistory
    <3> QED
      BY <1>2, <3>2, <3>3, <3>4
  <2>9. ASSUME NEW x \in Sessions, Join(x) PROVE NewLocal(s)
    BY <1>2, <2>9 DEF Join
  <2>10. ASSUME NEW x \in Sessions, ReplayNext(x) PROVE NewLocal(s)
    BY <1>0, <1>2, <2>10, ReplayNextFacts DEF ReplayNext
  <2>11. ASSUME NEW x \in Sessions, FetchCatchUp(x) PROVE NewLocal(s)
    <3>1. Elems(CatchUpTail(hist[x], log[req[x].topic])) \subseteq Seen
      BY <1>0, <1>2, <2>11, BusyLog, CatchUpElems DEF FetchCatchUp, SubscribePcs, Seen
    <3> QED
      BY <1>2, <2>11, <3>1, ElemsEmpty DEF FetchCatchUp
  <2>12. ASSUME NEW x \in Sessions, FanOut(x) PROVE NewLocal(s)
    <3>1. req[x].msg \in Seen /\ UNCHANGED <<hist, todo>>
      BY <1>0, <1>2, <2>12 DEF FanOut, TypeInv, InFlight, PublishPcs
    <3>2. owed'[s] \subseteq owed[s] \cup {req[x].msg}
      BY <1>2, <2>12 DEF FanOut
    <3> QED
      BY <1>2, <3>1, <3>2
  <2> QED
    BY <1>0, <2>1, <2>2, <2>3, <2>4, <2>5, <2>6, <2>7, <2>8, <2>9, <2>10, <2>11, <2>12, CalmSteps
<1> QED
  BY <1>3, <1>4 DEF Seen

LEMMA StepKnown == BaseInv /\ [Next]_vars => BaseInv'
<1> SUFFICES ASSUME BaseInv, [Next]_vars PROVE BaseInv'
  OBVIOUS
<1>1. 1 .. Len(frames) \subseteq 1 .. Len(frames')
  BY FramesGrow DEF BaseInv, HistoryInv
<1>2. KnownInv'
  BY <1>1, SeenSteps DEF KnownInv
<1> QED
  BY <1>2, StepHistory DEF BaseInv

LEMMA InitKnown == Init => BaseInv
BY InitHistory, ElemsEmpty DEF Init, BaseInv, KnownInv, Fed
-----------------------------------------------------------------------------
(* Nothing of its own. *)

\* The recipients of a publication exclude its stream.
OwnInv ==
    /\ \A s \in Sessions : s \notin fan[s] /\ aim[s] # s
    /\ NoOwnPayload

\* Recipients are added by the snapshot, and aimed at one by one when their flag is down.
LEMMA FanSteps ==
    ASSUME TypeInv, [Next]_vars, NEW p \in Sessions
    PROVE  /\ fan'[p] \subseteq fan[p] \/ (Snapshot(p) /\ fan'[p] = Recipients(p))
           /\ \/ aim'[p] = aim[p] \/ aim'[p] = NoSession
              \/ FanOut(p) /\ aim'[p] \in fan[p] /\ ~Skips(aim'[p])
<1>1. fan \in [Sessions -> SUBSET Sessions] /\ aim \in [Sessions -> Sessions \cup {NoSession}]
  BY DEF TypeInv, TypeOK, HandlerType
<1>2. CASE UNCHANGED <<fan, aim>>
  BY <1>2
<1>3. CASE Calm
  BY <1>2, <1>3 DEF Calm
<1>4. ASSUME NEW x \in Sessions, NEW t \in Topics,
             RecvSubscribe(x, t) \/ \E term \in Terminal : RecvPublish(x, t, term)
      PROVE  UNCHANGED <<fan, aim>>
  BY <1>4 DEF RecvSubscribe, RecvPublish
<1>5. ASSUME NEW x \in Sessions,
             \/ Leave(x) \/ FetchHistory(x) \/ Join(x) \/ ReplayNext(x) \/ FetchCatchUp(x)
             \/ Unmark(x) \/ Store(x) \/ Trim(x) \/ FinishPublish(x) \/ Deliver(x)
      PROVE  UNCHANGED <<fan, aim>>
  BY <1>5 DEF Leave, FetchHistory, Join, ReplayNext, FetchCatchUp, Unmark, Store, Trim, FinishPublish,
              Deliver
<1>6. ASSUME NEW t \in Topics, ExpireLog(t) PROVE UNCHANGED <<fan, aim>>
  BY <1>6 DEF ExpireLog
<1>7. CASE Crash
  BY <1>7 DEF Crash
<1>8. ASSUME NEW x \in Sessions, Snapshot(x)
      PROVE  /\ fan'[p] \subseteq fan[p] \/ (x = p /\ fan'[p] = Recipients(p))
             /\ aim' = aim
  BY <1>1, <1>8 DEF Snapshot
<1>9. ASSUME NEW x \in Sessions, FanOut(x)
      PROVE  /\ fan'[p] \subseteq fan[p]
             /\ aim'[p] = aim[p] \/ (x = p /\ aim'[p] \in fan[p] /\ ~Skips(aim'[p]))
  BY <1>1, <1>9 DEF FanOut
<1>10. ASSUME NEW x \in Sessions, FanEnqueue(x)
       PROVE  fan' = fan /\ (aim'[p] = aim[p] \/ aim'[p] = NoSession)
  BY <1>1, <1>10 DEF FanEnqueue
<1> QED
  BY <1>2, <1>3, <1>4, <1>5, <1>6, <1>7, <1>8, <1>9, <1>10, CalmSteps

LEMMA StepOwn == BaseInv /\ OwnInv /\ [Next]_vars => OwnInv'
<1> SUFFICES ASSUME BaseInv, OwnInv, [Next]_vars PROVE OwnInv'
  OBVIOUS
<1>0. TypeInv /\ HistoryInv
  BY DEF BaseInv, HistoryInv
<1>1. ASSUME NEW s \in Sessions PROVE s \notin fan'[s] /\ aim'[s] # s
  BY <1>0, FanSteps, NoneAssumption DEF OwnInv, Recipients
<1>2. ASSUME NEW s \in Sessions, SenderOf[s] # Anonymous, NEW m \in Fed(s)'
      PROVE  frames'[m].from # s
  <2>1. CASE m \in Fed(s)
    <3>1. m \in 1 .. Len(frames) /\ frames[m].from # s
      BY <1>2, <2>1 DEF BaseInv, KnownInv, OwnInv, NoOwnPayload, Fed
    <3> QED
      BY <1>0, <3>1, FramesGrow
  <2>2. CASE ReplayNext(s) /\ m = Head(todo[s]) /\ ~OwnPayload(s, m)
    <3>1. m \in 1 .. Len(frames)
      BY <1>0, <2>2, ReplayNextFacts DEF BaseInv, KnownInv
    <3>2. frames[m].from # s
      BY <1>2, <2>2 DEF OwnPayload
    <3> QED
      BY <1>0, <3>1, <3>2, FramesGrow
  <2>3. ASSUME NEW p \in Sessions, FanEnqueue(p), aim[p] = s, m = req[p].msg
        PROVE  frames'[m].from # s
    <3>1. m \in 1 .. Len(frames) /\ m # 0
      BY <1>0, <2>3, FanEnqueueFacts DEF FrameIds
    <3>2. frames[m].from = p /\ p # s
      BY <1>0, <2>3, <3>1 DEF HistoryInv, OwnInv
    <3> QED
      BY <1>0, <3>1, <3>2, FramesGrow
  <2> QED
    BY <1>0, <2>1, <2>2, <2>3, FedSteps DEF Handed
<1>3. NoOwnPayload'
  <2> SUFFICES ASSUME NEW s \in Sessions, SenderOf[s] # Anonymous,
                      NEW m \in ((Elems(sendQ[s]) \ {0}) \cup Elems(received[s]))'
               PROVE  frames'[m].from # s
    BY DEF NoOwnPayload
  <2>1. m # 0
    <3>1. received'[s] \in Seq(FrameIds)
      BY <1>0, StepType DEF TypeInv, TypeOK, ClientType
    <3>2. Elems(received'[s]) \subseteq FrameIds
      BY <3>1, ElemsType
    <3> QED
      BY <3>2 DEF FrameIds
  <2> QED
    BY <1>2, <2>1 DEF Fed
<1> QED
  BY <1>1, <1>3 DEF OwnInv

LEMMA InitOwn == Init => OwnInv
BY ElemsEmpty, NoneAssumption DEF Init, OwnInv, NoOwnPayload

\* handlePublish leaves its own stream out of the fan-out, and the replay and catch-up loops of
\* handleSubscribe skip payloads with the sender_id of their stream.
THEOREM NothingOfItsOwn == Spec => []NoOwnPayload
<1>1. OwnInv => NoOwnPayload
  BY DEF OwnInv
<1> QED
  BY InitKnown, StepKnown, InitOwn, StepOwn, <1>1, PTL DEF Spec
-----------------------------------------------------------------------------
(* The history: in the order of each stream, each payload once. *)

\* m may come before n: another payload, and no later one of the same stream.
Apart(m, n) == m # n /\ (frames[m].from = frames[n].from => m <= n)

Series(q) == \A i, j \in DOMAIN q : i < j => Apart(q[i], q[j])

\* A payload in the history, or in a copy of it, has been stored by its handler; it was the
\* latest of its stream when it was received.
LogInv ==
    /\ \A s \in Sessions, k \in 1 .. Len(frames) :
          req[s].msg # 0 /\ frames[k].from = s => k <= req[s].msg
    /\ \A t \in Topics : Series(log[t])
    /\ \A p \in Sessions, t \in Topics : req[p].msg \in Elems(log[t]) => pc[p] \in Stored
    /\ \A p, s \in Sessions : req[p].msg \in Elems(hist[s]) => pc[p] \in Stored

\* x has just received a payload.
Fresh(x) == /\ Len(frames') = Len(frames) + 1
            /\ frames'[Len(frames) + 1].from = x
            /\ req'[x].msg = Len(frames) + 1

\* x goes on with its request, and does not go back to before it stored the payload.
GoesOn(x) == req'[x] = req[x] /\ (pc[x] \in Stored => pc'[x] \in Stored)

LEMMA NewFrameFacts ==
    ASSUME TypeInv, NEW s, NEW t, NEW term, NewFrame(s, t, term)
    PROVE  Len(frames') = Len(frames) + 1 /\ frames'[Len(frames) + 1].from = s
<1>1. frames \in Seq(Frames) /\ [from |-> s, topic |-> t, terminal |-> term].from = s
  BY DEF TypeInv, TypeOK, ClientType
<1> DEFINE fr == [from |-> s, topic |-> t, terminal |-> term]
<1>2. frames' = Append(frames, fr)
  BY DEF NewFrame
<1> HIDE DEF fr
<1>3. Len(frames') = Len(frames) + 1 /\ frames'[Len(frames) + 1] = fr
  BY <1>1, <1>2
<1> QED
  BY <1>1, <1>3 DEF fr

\* A request is received by its stream, ends, or goes on.
LEMMA RequestSteps ==
    ASSUME TypeInv, [Next]_vars
    PROVE  /\ frames' = frames \/ \E x \in Sessions : Fresh(x)
           /\ \A x \in Sessions : req'[x].msg = 0 \/ Fresh(x) \/ GoesOn(x)
<1> USE DEF Goto
<1>0. pc \in [Sessions -> Pcs] /\ req \in [Sessions -> Requests] /\ NoReq.msg = 0
  BY DEF NoReq, TypeInv, TypeOK, HandlerType
<1>1. Stored = {"trim", "fan", "aim"}
  BY DEF Stored
<1>2. ASSUME NEW s \in Sessions, NEW t \in Topics, NEW term \in Terminal, RecvPublish(s, t, term)
      PROVE  /\ Fresh(s) /\ \A x \in Sessions : x = s \/ GoesOn(x)
  <2>1. /\ NewFrame(s, t, term)
        /\ req' = [req EXCEPT ![s] = [op |-> "publish", topic |-> t, msg |-> Len(frames) + 1]]
        /\ pc' = [pc EXCEPT ![s] = "pubLookup"]
    BY <1>2 DEF RecvPublish
  <2> QED
    BY <1>0, <2>1, NewFrameFacts DEF Fresh, GoesOn
<1>3. ASSUME NEW s \in Sessions, NEW t \in Topics, RecvSubscribe(s, t)
      PROVE  /\ (frames' = frames /\ req'[s].msg = 0) \/ Fresh(s)
             /\ \A x \in Sessions : x = s \/ GoesOn(x)
  <2>1. /\ \/ /\ req' = [req EXCEPT ![s] = [op |-> "subscribe", topic |-> t, msg |-> 0]]
              /\ frames' = frames
           \/ /\ \E term \in Terminal : NewFrame(s, t, term)
              /\ req' = [req EXCEPT ![s] = [op |-> "subscribe", topic |-> t, msg |-> Len(frames) + 1]]
        /\ pc' = [pc EXCEPT ![s] = "subLookup"]
    BY <1>3 DEF RecvSubscribe
  <2>2. CASE /\ req' = [req EXCEPT ![s] = [op |-> "subscribe", topic |-> t, msg |-> 0]]
             /\ frames' = frames
    BY <1>0, <2>1, <2>2 DEF GoesOn
  <2>3. CASE /\ \E term \in Terminal : NewFrame(s, t, term)
             /\ req' = [req EXCEPT ![s] = [op |-> "subscribe", topic |-> t, msg |-> Len(frames) + 1]]
    BY <1>0, <2>1, <2>3, NewFrameFacts DEF Fresh, GoesOn
  <2> QED
    BY <2>1, <2>2, <2>3
<1> DEFINE Quiet == frames' = frames /\ \A x \in Sessions : req'[x].msg = 0 \/ GoesOn(x)
<1>4. CASE Calm
  <2>1. ASSUME NEW x \in Sessions PROVE req'[x].msg = 0 \/ GoesOn(x)
    BY <1>0, <1>1, <1>4 DEF Calm, GoesOn, Early, Outside, BeforeJoin
  <2> QED
    BY <1>4, <2>1 DEF Calm
<1>5. ASSUME NEW s \in Sessions, Leave(s) \/ FetchHistory(s) \/ Join(s) \/ ReplayNext(s)
      PROVE  Quiet
  BY <1>0, <1>1, <1>5 DEF Leave, FetchHistory, Join, ReplayNext, GoesOn
<1>6. ASSUME NEW s \in Sessions, FetchCatchUp(s) \/ Unmark(s) \/ Snapshot(s) \/ Store(s)
      PROVE  Quiet
  BY <1>0, <1>1, <1>6 DEF FetchCatchUp, Unmark, Snapshot, Store, GoesOn
<1>7. ASSUME NEW s \in Sessions, Trim(s) \/ FanOut(s) \/ FanEnqueue(s) \/ FinishPublish(s) \/ Deliver(s)
      PROVE  Quiet
  BY <1>0, <1>1, <1>7 DEF Trim, FanOut, FanEnqueue, FinishPublish, Deliver, GoesOn
<1>8. CASE Crash
  BY <1>0, <1>8 DEF Crash
<1>9. ASSUME NEW t \in Topics, ExpireLog(t) PROVE Quiet
  BY <1>9 DEF ExpireLog, GoesOn
<1> QED
  BY <1>2, <1>3, <1>4, <1>5, <1>6, <1>7, <1>8, <1>9, CalmSteps

\* The history grows by the store of a handler's payload; otherwise entries leave at its front.
Shortened(q, r) == r = q \/ r = <<>> \/ (Len(q) > HistoryCap /\ r = NewestKept(q))

LEMMA LogSteps ==
    ASSUME TypeInv, [Next]_vars, NEW t \in Topics
    PROVE  \/ Shortened(log[t], log'[t])
           \/ \E s \in Sessions : /\ Store(s) /\ req[s].topic = t
                                  /\ log'[t] = Append(log[t], req[s].msg)
<1>0. log \in [Topics -> Seq(FrameIds)] /\ \A q : Shortened(q, q)
  BY DEF TypeInv, TypeOK, RedisType, Shortened
<1>1. CASE Calm
  BY <1>0, <1>1 DEF Calm
<1>2. ASSUME NEW s \in Sessions, NEW u \in Topics,
             RecvSubscribe(s, u) \/ \E term \in Terminal : RecvPublish(s, u, term)
      PROVE  log' = log
  BY <1>2 DEF RecvSubscribe, RecvPublish
<1>3. ASSUME NEW s \in Sessions,
             \/ Leave(s) \/ FetchHistory(s) \/ Join(s) \/ ReplayNext(s) \/ FetchCatchUp(s)
             \/ Unmark(s) \/ Snapshot(s) \/ FanOut(s) \/ FanEnqueue(s) \/ Deliver(s)
      PROVE  log' = log
  BY <1>3 DEF Leave, FetchHistory, Join, ReplayNext, FetchCatchUp, Unmark, Snapshot, FanOut, FanEnqueue,
              Deliver
<1>4. ASSUME NEW s \in Sessions, Store(s)
      PROVE  log'[t] = log[t] \/ (req[s].topic = t /\ log'[t] = Append(log[t], req[s].msg))
  BY <1>0, <1>4 DEF Store
<1>5. ASSUME NEW s \in Sessions, Trim(s) PROVE Shortened(log[t], log'[t])
  BY <1>0, <1>5 DEF Trim, Shortened
<1>6. ASSUME NEW s \in Sessions, FinishPublish(s) PROVE Shortened(log[t], log'[t])
  BY <1>0, <1>6 DEF FinishPublish, DeleteTopic, Shortened
<1>7. ASSUME NEW u \in Topics, ExpireLog(u) PROVE Shortened(log[t], log'[t])
  BY <1>0, <1>7 DEF ExpireLog, Shortened
<1>8. CASE Crash
  BY <1>0, <1>8 DEF Crash
<1> QED
  BY <1>0, <1>1, <1>2, <1>3, <1>4, <1>5, <1>6, <1>7, <1>8, CalmSteps

LEMMA SeriesShortened ==
    ASSUME NEW S, NEW q \in Seq(S), NEW r, Series(q), Shortened(q, r)
    PROVE  Series(r)
<1>1. CASE r = <<>>
  BY <1>1 DEF Series
<1>2. CASE Len(q) > HistoryCap /\ r = NewestKept(q)
  <2> DEFINE d == Len(q) - HistoryCap
  <2>1. d \in Nat /\ d + HistoryCap = Len(q) /\ HistoryCap \in Nat
    BY <1>2, CapAssumption
  <2>2. DOMAIN r = 1 .. HistoryCap /\ \A i \in 1 .. HistoryCap : r[i] = q[d + i] /\ d + i \in DOMAIN q
    BY <1>2, CapAssumption DEF NewestKept
  <2> HIDE DEF d
  <2>3. \A i, j \in 1 .. HistoryCap : i < j => d + i < d + j
    BY <2>1
  <2> QED
    BY <2>2, <2>3 DEF Series
<1> QED
  BY <1>1, <1>2 DEF Shortened

LEMMA SeriesAppend ==
    ASSUME NEW S, NEW q \in Seq(S), NEW m \in S, Series(q), \A e \in Elems(q) : Apart(e, m)
    PROVE  Series(Append(q, m))
<1> DEFINE r == Append(q, m)
<1>1. /\ Len(q) \in Nat /\ DOMAIN q = 1 .. Len(q) /\ DOMAIN r = 1 .. (Len(q) + 1)
      /\ \A i \in DOMAIN q : r[i] = q[i]
      /\ r[Len(q) + 1] = m
  OBVIOUS
<1> HIDE DEF r
<1>2. ASSUME NEW i \in DOMAIN r, NEW j \in DOMAIN r, i < j PROVE Apart(r[i], r[j])
  <2>1. i \in DOMAIN q
    BY <1>1, <1>2
  <2>2. CASE j = Len(q) + 1
    BY <1>1, <2>1, <2>2 DEF Elems
  <2>3. CASE j # Len(q) + 1
    <3>1. j \in DOMAIN q
      BY <1>1, <2>3
    <3> QED
      BY <1>1, <1>2, <2>1, <3>1 DEF Series
  <2> QED
    BY <2>2, <2>3
<1> QED
  BY <1>2 DEF Series, r

LEMMA ShortenedElems ==
    ASSUME NEW S, NEW q \in Seq(S), NEW r, Shortened(q, r)
    PROVE  Elems(r) \subseteq Elems(q)
BY ElemsNewest, ElemsEmpty DEF Shortened

\* The order of payloads does not depend on what is received after them.
LEMMA ApartStays ==
    ASSUME TypeInv, [Next]_vars, NEW m \in 1 .. Len(frames), NEW n \in 1 .. Len(frames), Apart(m, n)
    PROVE  Apart(m, n)'
BY FramesGrow DEF Apart

LEMMA SeriesStays ==
    ASSUME TypeInv, [Next]_vars, NEW q, Elems(q) \subseteq 1 .. Len(frames), DOMAIN q = 1 .. Len(q),
           Series(q)
    PROVE  \A i, j \in DOMAIN q : i < j => Apart(q[i], q[j])'
<1> SUFFICES ASSUME NEW i \in DOMAIN q, NEW j \in DOMAIN q, i < j PROVE Apart(q[i], q[j])'
  OBVIOUS
<1>1. q[i] \in 1 .. Len(frames) /\ q[j] \in 1 .. Len(frames)
  BY DEF Elems
<1> QED
  BY <1>1, FramesGrow DEF Apart, Series

\* A handler's copy of the history is read once, and dropped by the second read; what it has
\* still to replay is the copy, then the tail, entry by entry.
LEMMA LocalSteps ==
    ASSUME TypeInv, [Next]_vars, NEW s \in Sessions
    PROVE  /\ \/ hist'[s] = hist[s] \/ FetchCatchUp(s)
              \/ FetchHistory(s)
              \/ hist'[s] = <<>> /\ pc'[s] \in {"off", "returned"}
           /\ \/ todo'[s] = todo[s] \/ Join(s) \/ ReplayNext(s) \/ FetchCatchUp(s)
              \/ todo'[s] = <<>> /\ pc'[s] \in {"off", "returned"}
<1>0. hist \in [Sessions -> Seq(FrameIds)] /\ todo \in [Sessions -> Seq(FrameIds)]
  BY DEF TypeInv, TypeOK, HandlerType
<1>1. CASE Calm
  BY <1>1 DEF Calm
<1>2. ASSUME NEW x \in Sessions, NEW u \in Topics,
             RecvSubscribe(x, u) \/ \E term \in Terminal : RecvPublish(x, u, term)
      PROVE  UNCHANGED <<hist, todo>>
  BY <1>2 DEF RecvSubscribe, RecvPublish
<1>3. ASSUME NEW x \in Sessions,
             \/ Leave(x) \/ Unmark(x) \/ Snapshot(x) \/ Store(x) \/ Trim(x)
             \/ FanOut(x) \/ FanEnqueue(x) \/ FinishPublish(x) \/ Deliver(x)
      PROVE  UNCHANGED <<hist, todo>>
  BY <1>3 DEF Leave, Unmark, Snapshot, Store, Trim, FanOut, FanEnqueue, FinishPublish, Deliver
<1>4. ASSUME NEW x \in Sessions, FetchHistory(x)
      PROVE  todo' = todo /\ (hist'[s] = hist[s] \/ x = s)
  BY <1>0, <1>4 DEF FetchHistory
<1>5. ASSUME NEW x \in Sessions, Join(x) \/ ReplayNext(x)
      PROVE  hist' = hist /\ (todo'[s] = todo[s] \/ x = s)
  BY <1>0, <1>5 DEF Join, ReplayNext
<1>6. ASSUME NEW x \in Sessions, FetchCatchUp(x)
      PROVE  (hist'[s] = hist[s] /\ todo'[s] = todo[s]) \/ x = s
  BY <1>0, <1>6 DEF FetchCatchUp
<1>7. ASSUME NEW u \in Topics, ExpireLog(u) PROVE UNCHANGED <<hist, todo>>
  BY <1>7 DEF ExpireLog
<1>8. CASE Crash
  BY <1>8 DEF Crash
<1> QED
  BY <1>1, <1>2, <1>3, <1>4, <1>5, <1>6, <1>7, <1>8, CalmSteps

\* Its first read finds the history of its topic, or fails.
LEMMA FetchFacts ==
    ASSUME HistoryInv, NEW s \in Sessions, FetchHistory(s)
    PROVE  /\ req[s].topic \in Topics /\ pc[s] = "fetch" /\ pc'[s] = "join" /\ nsub' = nsub
           /\ UNCHANGED <<todo, log, frames, req, received, sendQ, fan, aim, dropped>>
           /\ \/ /\ hist'[s] = log[req[s].topic] /\ clean' = clean
                 /\ owed' = [owed EXCEPT ![s] = @ \cup Elems(log[req[s].topic])]
              \/ hist'[s] = <<>> /\ owed' = owed /\ clean'[s] = FALSE
<1>1. /\ hist \in [Sessions -> Seq(FrameIds)] /\ pc \in [Sessions -> Pcs]
      /\ clean \in [Sessions -> BOOLEAN]
  BY DEF HistoryInv, TypeInv, TypeOK, HandlerType, GhostType
<1>2. req[s].topic \in Topics
  BY BusyLog DEF FetchHistory, SubscribePcs, BeforeJoin
<1> QED
  BY <1>1, <1>2 DEF FetchHistory, Goto

LEMMA LogFacts ==
    ASSUME HistoryInv, NEW t \in Topics
    PROVE  log[t] \in Seq(FrameIds) /\ Elems(log[t]) \subseteq 1 .. Len(frames)
<1>1. log[t] \in Seq(FrameIds) /\ Len(frames) \in Nat /\ Elems(log[t]) \subseteq FrameIds
  BY ElemsType DEF HistoryInv, TypeInv, TypeOK, RedisType, ClientType
<1> QED
  BY <1>1 DEF HistoryInv, FrameIds

\* The payload of a handler, and whose it is.
LEMMA OwnMessage ==
    ASSUME HistoryInv, NEW p \in Sessions, req[p].msg # 0
    PROVE  /\ req[p].msg \in FrameIds /\ req[p].msg \in 1 .. Len(frames)
           /\ frames[req[p].msg].from = p
BY BusyRequest, BoundsAssumption DEF HistoryInv, TypeInv, InFlight, FrameIds

LEMMA StoreFacts ==
    ASSUME HistoryInv, [Next]_vars, NEW s \in Sessions, Store(s)
    PROVE  /\ req[s].msg \in FrameIds /\ req[s].msg \in 1 .. Len(frames) /\ pc[s] \notin Stored
           /\ req[s].topic \in Topics
           /\ pc'[s] \in Stored /\ req' = req /\ frames[req[s].msg].from = s
<1>1. req[s].msg # 0 /\ req[s].topic \in Topics
  BY DEF Store, HistoryInv, TypeInv, InFlight, PublishPcs
<1>2. pc[s] = "store" /\ pc'[s] \in {"trim", "fan"} /\ req' = req
  BY DEF Store, Goto, HistoryInv, TypeInv, TypeOK, HandlerType
<1> QED
  BY <1>1, <1>2, OwnMessage DEF Stored

\* A step stores nothing but a payload received before it.
LEMMA LogSeen ==
    ASSUME HistoryInv, [Next]_vars, NEW t \in Topics
    PROVE  Elems(log'[t]) \subseteq 1 .. Len(frames)
<1>0. TypeInv /\ log[t] \in Seq(FrameIds) /\ Elems(log[t]) \subseteq 1 .. Len(frames)
  BY LogFacts DEF HistoryInv
<1>1. CASE Shortened(log[t], log'[t])
  BY <1>0, <1>1, ShortenedElems
<1>2. ASSUME NEW s \in Sessions, Store(s), log'[t] = Append(log[t], req[s].msg)
      PROVE  Elems(log'[t]) \subseteq 1 .. Len(frames)
  BY <1>0, <1>2, StoreFacts, ElemsAppend
<1> QED
  BY <1>0, <1>1, <1>2, LogSteps

LEMMA StepLog == BaseInv /\ LogInv /\ [Next]_vars => LogInv'
<1> SUFFICES ASSUME BaseInv, LogInv, [Next]_vars PROVE LogInv'
  OBVIOUS
<1>0. TypeInv /\ HistoryInv /\ HistoryInv' /\ TypeInv' /\ Len(frames) \in Nat
  BY StepHistory, StepType DEF BaseInv, HistoryInv, TypeInv, TypeOK, ClientType
<1>1. ASSUME NEW s \in Sessions, NEW k \in 1 .. Len(frames'), req'[s].msg # 0, frames'[k].from = s
      PROVE  k <= req'[s].msg
  <2>1. CASE Fresh(s)
    BY <1>0, <1>1, <2>1 DEF Fresh
  <2>2. CASE ~Fresh(s)
    <3>1. GoesOn(s) /\ (frames' = frames \/ \E x \in Sessions : x # s /\ Fresh(x))
      BY <1>0, <1>1, <2>2, RequestSteps
    <3>2. k \in 1 .. Len(frames)
      BY <1>0, <1>1, <3>1 DEF Fresh
    <3> QED
      BY <1>0, <1>1, <3>1, <3>2, FramesGrow DEF LogInv, GoesOn
  <2> QED
    BY <2>1, <2>2
\* A payload received before the step belongs to a request that goes on.
<1>2. ASSUME NEW p \in Sessions, req'[p].msg \in 1 .. Len(frames)
      PROVE  req'[p] = req[p] /\ (pc[p] \in Stored => pc'[p] \in Stored)
  BY <1>0, <1>2, RequestSteps DEF Fresh, GoesOn
<1>3. ASSUME NEW s \in Sessions, Store(s)
      PROVE  /\ req[s].msg \in FrameIds /\ req[s].msg \in 1 .. Len(frames) /\ pc[s] \notin Stored
             /\ req[s].topic \in Topics
             /\ pc'[s] \in Stored /\ req' = req /\ frames[req[s].msg].from = s
  BY <1>0, <1>3, StoreFacts
<1>4. ASSUME NEW t \in Topics PROVE Series(log[t])' /\ Elems(log'[t]) \subseteq 1 .. Len(frames)
  <2>1. CASE Shortened(log[t], log'[t])
    <3>1. Series(log'[t]) /\ Elems(log'[t]) \subseteq 1 .. Len(frames)
      BY <1>0, <2>1, LogFacts, SeriesShortened, ShortenedElems DEF LogInv
    <3> QED
      BY <1>0, <3>1, SeriesStays, LogFacts DEF Series
  <2>2. ASSUME NEW s \in Sessions, Store(s), req[s].topic = t, log'[t] = Append(log[t], req[s].msg)
        PROVE  Series(log[t])' /\ Elems(log'[t]) \subseteq 1 .. Len(frames)
    <3> DEFINE m == req[s].msg
    <3>1. m \in FrameIds /\ m \in 1 .. Len(frames) /\ frames[m].from = s /\ m \notin Elems(log[t])
      BY <1>3, <2>2 DEF LogInv
    <3>2. ASSUME NEW e \in Elems(log[t]) PROVE Apart(e, m)
      <4>1. e \in 1 .. Len(frames)
        BY <1>0, LogFacts
      <4> QED
        BY <1>0, <3>1, <4>1 DEF LogInv, Apart
    <3> HIDE DEF m
    <3>3. Series(log'[t]) /\ Elems(log'[t]) \subseteq 1 .. Len(frames)
      <4>1. log'[t] = Append(log[t], m) /\ log[t] \in Seq(FrameIds)
        BY <1>0, <2>2, LogFacts DEF m
      <4> QED
        BY <1>0, <3>1, <3>2, <4>1, LogFacts, SeriesAppend, ElemsAppend DEF LogInv
    <3> QED
      BY <1>0, <3>3, SeriesStays, LogFacts DEF Series
  <2> QED
    BY <1>0, <2>1, <2>2, LogSteps
<1>5. ASSUME NEW p \in Sessions, NEW t \in Topics, req'[p].msg \in Elems(log'[t])
      PROVE  pc'[p] \in Stored
  <2>1. req'[p] = req[p] /\ (pc[p] \in Stored => pc'[p] \in Stored)
    BY <1>2, <1>4, <1>5
  <2>2. CASE req[p].msg \in Elems(log[t])
    BY <2>1, <2>2 DEF LogInv
  <2>3. CASE req[p].msg \notin Elems(log[t])
    <3>1. PICK s \in Sessions : Store(s) /\ log'[t] = Append(log[t], req[s].msg)
      BY <1>0, <1>5, <2>1, <2>3, LogSteps, LogFacts, ShortenedElems
    <3>2. req[p].msg = req[s].msg /\ req[s].msg \in FrameIds
      BY <1>0, <1>3, <1>5, <2>1, <2>3, <3>1, LogFacts, ElemsAppend
    <3>3. p = s
      BY <1>0, <1>3, <3>1, <3>2, OwnMessage DEF FrameIds
    <3> QED
      BY <1>3, <3>1, <3>3
  <2> QED
    BY <2>2, <2>3
<1>6. ASSUME NEW p \in Sessions, NEW s \in Sessions, req'[p].msg \in Elems(hist'[s])
      PROVE  pc'[p] \in Stored
  <2>1. CASE hist'[s] = hist[s]
    <3>1. req'[p].msg \in 1 .. Len(frames)
      BY <1>6, <2>1 DEF BaseInv, KnownInv
    <3> QED
      BY <1>2, <1>6, <2>1, <3>1 DEF LogInv
  <2>2. CASE hist'[s] = <<>>
    BY <1>6, <2>2, ElemsEmpty
  <2>3. CASE FetchHistory(s) /\ hist'[s] # <<>>
    <3>1. hist'[s] = log[req[s].topic] /\ req[s].topic \in Topics
      BY <1>0, <2>3, FetchFacts
    <3>2. req'[p].msg \in 1 .. Len(frames)
      BY <1>0, <1>6, <3>1, LogFacts
    <3> QED
      BY <1>2, <1>6, <3>1, <3>2 DEF LogInv
  <2>4. ASSUME FetchCatchUp(s) PROVE hist'[s] = <<>>
    BY <1>0, <2>4 DEF FetchCatchUp, TypeInv, TypeOK, HandlerType
  <2> QED
    BY <1>0, <2>1, <2>2, <2>3, <2>4, LocalSteps
<1> QED
  BY <1>1, <1>4, <1>5, <1>6 DEF LogInv

LEMMA InitLog == Init => LogInv
BY ElemsEmpty DEF Init, LogInv, NoReq, Series
-----------------------------------------------------------------------------
(* Who reaches a stream: the recipients are those of a joined session, the *)
(* live delivery passes a replaying one by.                                *)

ReplayPcs == {"fetch", "join", "replay", "catchup"}

\* Before its first join a stream is nobody's recipient; before the end of its first replay
\* nobody has found it listening.
Unjoined(s) == nsub[s] = 0 \/ pc[s] \in BeforeJoin
Waiting(s)  == nsub[s] = 0 \/ pc[s] \in SubscribePcs

ReachInv ==
    \A s \in Sessions :
        /\ pc[s] \in SubscribePcs => nsub[s] >= 1
        /\ pc[s] \in ReplayPcs => replaying[s] = TRUE
        /\ nsub[s] <= 1 /\ Unjoined(s) =>
              /\ \A t \in Topics : s \notin subs[t]
              /\ \A p \in Sessions : s \notin fan[p]
        /\ nsub[s] <= 1 /\ Waiting(s) => \A p \in Sessions : aim[p] # s

\* A SUBSCRIBE arrives, or the handler of s is no further back than it was.
Subscribed(s) == /\ nsub'[s] = nsub[s] + 1 /\ pc[s] = "recv" /\ pc'[s] = "subLookup"
                 /\ UNCHANGED <<subs, hist, todo, owed, sendQ, received, log, clean>>
Onward(s) == /\ nsub'[s] = nsub[s]
             /\ pc'[s] \in SubscribePcs => pc[s] \in SubscribePcs /\ req'[s] = req[s]
             /\ pc'[s] \in BeforeJoin => pc[s] \in BeforeJoin
             /\ pc'[s] = "catchup" => pc[s] = "catchup" \/ FetchCatchUp(s)
             /\ pc'[s] = "replay" => pc[s] = "replay" \/ Join(s)
             /\ pc'[s] = "join" => pc[s] = "join" \/ FetchHistory(s)
             /\ pc'[s] = "fetch" => pc[s] = "fetch" \/ Leave(s)
             /\ pc'[s] \in ReplayPcs => (pc[s] \in ReplayPcs /\ replaying'[s] = replaying[s])
                                         \/ replaying'[s] = TRUE

LEMMA SubscribeSteps ==
    ASSUME TypeInv, [Next]_vars, NEW s \in Sessions
    PROVE  /\ Subscribed(s) \/ Onward(s)
           /\ \A t \in Topics : s \in subs'[t] => s \in subs[t] \/ Join(s)
<1> USE DEF Goto
<1>0. /\ pc \in [Sessions -> Pcs] /\ nsub \in [Sessions -> Nat] /\ replaying \in [Sessions -> BOOLEAN]
      /\ subs \in [Topics -> SUBSET Sessions] /\ req \in [Sessions -> Requests]
  BY DEF TypeInv, TypeOK, HandlerType, ClientType, StreamType, IndexType
<1>1. /\ SubscribePcs = BeforeJoin \cup {"replay", "catchup"}
      /\ BeforeJoin = {"subLookup", "subRedis", "bucketNew", "bucketOld", "create", "leave", "fetch", "join"}
      /\ ReplayPcs = {"fetch", "join", "replay", "catchup"}
  BY DEF SubscribePcs, BeforeJoin, ReplayPcs
<1> DEFINE SubsKept == \A t \in Topics : s \in subs'[t] => s \in subs[t]
<1> DEFINE Still == /\ nsub'[s] = nsub[s] /\ pc'[s] = pc[s] /\ replaying'[s] = replaying[s]
                    /\ pc'[s] \in SubscribePcs => req'[s] = req[s]
<1>s. Still => Onward(s)
  BY <1>1 DEF Onward
<1>2. CASE Calm
  <2>1. SubsKept
    BY <1>2 DEF Calm
  <2>2. /\ nsub'[s] = nsub[s] /\ replaying'[s] = replaying[s]
        /\ pc[s] \in SubscribePcs => req'[s] = req[s]
    BY <1>1, <1>2 DEF Calm
  <2>3. CASE {pc[s], pc'[s]} \subseteq Early
    <3>1. pc'[s] \in {"subLookup", "subRedis", "bucketNew", "bucketOld", "create", "leave"}
          /\ pc[s] \in BeforeJoin
      BY <1>1, <2>3 DEF Early
    <3> QED
      BY <1>1, <2>1, <2>2, <3>1 DEF Onward
  <2>4. CASE {pc[s], pc'[s]} \subseteq Outside
    <3>1. pc'[s] \notin SubscribePcs
      BY <2>4 DEF Outside
    <3> QED
      BY <1>1, <2>1, <2>2, <3>1 DEF Onward
  <2> QED
    BY <1>2, <1>s, <2>1, <2>2, <2>3, <2>4 DEF Calm
<1>3. ASSUME NEW x \in Sessions, NEW t \in Topics, RecvSubscribe(x, t)
      PROVE  (Subscribed(s) \/ Onward(s)) /\ SubsKept
  <2>1. CASE x = s
    BY <1>0, <1>3, <2>1 DEF RecvSubscribe, Subscribed, CanRecv
  <2>2. CASE x # s
    BY <1>0, <1>3, <1>s, <2>2 DEF RecvSubscribe
  <2> QED
    BY <2>1, <2>2
<1>4. ASSUME NEW x \in Sessions, NEW t \in Topics, NEW term \in Terminal, RecvPublish(x, t, term)
      PROVE  Onward(s) /\ SubsKept
  BY <1>0, <1>1, <1>4 DEF RecvPublish, Onward, CanRecv
<1>5. ASSUME NEW x \in Sessions, Leave(x) PROVE Onward(s) /\ SubsKept
  <2>1. SubsKept
    BY <1>0, <1>5 DEF Leave, LeaveOldTopic, LeaveTopic
  <2>2. CASE x = s
    <3>1. pc[s] = "leave" /\ pc'[s] = "fetch" /\ replaying'[s] = TRUE /\ nsub'[s] = nsub[s]
          /\ req' = req
      BY <1>0, <1>5, <2>2 DEF Leave
    <3> QED
      BY <1>1, <1>5, <2>1, <2>2, <3>1 DEF Onward
  <2>3. CASE x # s
    <3>1. pc'[s] = pc[s] /\ replaying'[s] = replaying[s] /\ nsub'[s] = nsub[s]
          /\ req' = req
      BY <1>0, <1>5, <2>3 DEF Leave
    <3> QED
      BY <1>s, <2>1, <3>1
  <2> QED
    BY <2>1, <2>2, <2>3
<1>6. ASSUME NEW x \in Sessions, FetchHistory(x) PROVE Onward(s) /\ SubsKept
  BY <1>0, <1>1, <1>6 DEF FetchHistory, Onward
<1>7. ASSUME NEW x \in Sessions, Join(x)
      PROVE  Onward(s) /\ \A t \in Topics : s \in subs'[t] => s \in subs[t] \/ x = s
  BY <1>0, <1>1, <1>7 DEF Join, Onward
<1>8. ASSUME NEW x \in Sessions, ReplayNext(x) \/ Deliver(x) PROVE Onward(s) /\ SubsKept
  BY <1>s, <1>8 DEF ReplayNext, Deliver
<1>9. ASSUME NEW x \in Sessions, FetchCatchUp(x) PROVE Onward(s) /\ SubsKept
  BY <1>0, <1>1, <1>9 DEF FetchCatchUp, Onward
<1>10. ASSUME NEW x \in Sessions, Unmark(x) PROVE Onward(s) /\ SubsKept
  BY <1>0, <1>1, <1>10 DEF Unmark, Onward
<1>11. ASSUME NEW x \in Sessions, Snapshot(x) \/ Store(x) \/ Trim(x) PROVE Onward(s) /\ SubsKept
  BY <1>0, <1>1, <1>11 DEF Snapshot, Store, Trim, Onward
<1>12. ASSUME NEW x \in Sessions, FanOut(x) \/ FanEnqueue(x) \/ FinishPublish(x)
       PROVE  Onward(s) /\ SubsKept
  BY <1>0, <1>1, <1>12 DEF FanOut, FanEnqueue, FinishPublish, Onward
<1>13. ASSUME NEW t \in Topics, ExpireLog(t) PROVE Onward(s) /\ SubsKept
  BY <1>s, <1>13 DEF ExpireLog
<1>14. CASE Crash
  BY <1>0, <1>1, <1>14 DEF Crash, Onward
<1> QED
  BY <1>2, <1>3, <1>4, <1>5, <1>6, <1>7, <1>8, <1>9, <1>10, <1>11, <1>12, <1>13, <1>14, CalmSteps

LEMMA StepReach == TypeInv /\ ReachInv /\ [Next]_vars => ReachInv'
<1> SUFFICES ASSUME TypeInv, ReachInv, [Next]_vars, NEW s \in Sessions
             PROVE  /\ pc'[s] \in SubscribePcs => nsub'[s] >= 1
                    /\ pc'[s] \in ReplayPcs => replaying'[s] = TRUE
                    /\ nsub'[s] <= 1 /\ Unjoined(s)' =>
                          /\ \A t \in Topics : s \notin subs'[t]
                          /\ \A p \in Sessions : s \notin fan'[p]
                    /\ nsub'[s] <= 1 /\ Waiting(s)' => \A p \in Sessions : aim'[p] # s
  BY DEF ReachInv
<1>0. /\ nsub[s] \in Nat /\ replaying \in [Sessions -> BOOLEAN]
      /\ BeforeJoin \subseteq SubscribePcs /\ "subLookup" \in BeforeJoin
      /\ "recv" \notin SubscribePcs /\ ReplayPcs \subseteq SubscribePcs /\ "subLookup" \notin ReplayPcs
      /\ \A p \in SubscribePcs : p \in BeforeJoin \/ p \in ReplayPcs
  BY DEF TypeInv, TypeOK, ClientType, StreamType, SubscribePcs, BeforeJoin, ReplayPcs
<1>1. Subscribed(s) \/ Onward(s)
  BY SubscribeSteps
<1>2. pc'[s] \in SubscribePcs => nsub'[s] >= 1
  BY <1>0, <1>1 DEF Subscribed, Onward, ReachInv
<1>3. pc'[s] \in ReplayPcs => replaying'[s] = TRUE
  BY <1>0, <1>1 DEF Subscribed, Onward, ReachInv
<1>4. ASSUME nsub'[s] <= 1, Unjoined(s)'
      PROVE  nsub[s] <= 1 /\ Unjoined(s) /\ ~Join(s)
  <2>1. nsub[s] <= 1 /\ Unjoined(s)
    BY <1>0, <1>1, <1>4 DEF Subscribed, Onward, Unjoined
  <2>2. ASSUME Join(s) PROVE FALSE
    <3>1. pc'[s] = "replay" /\ pc[s] = "join" /\ nsub'[s] = nsub[s] /\ nsub[s] >= 1
      BY <1>0, <2>2 DEF Join, Goto, ReachInv, TypeInv, TypeOK, HandlerType, ReplayPcs
    <3> QED
      BY <1>0, <1>4, <3>1 DEF Unjoined, BeforeJoin
  <2> QED
    BY <2>1, <2>2
<1>5. ASSUME nsub'[s] <= 1, Unjoined(s)'
      PROVE  /\ \A t \in Topics : s \notin subs'[t]
             /\ \A p \in Sessions : s \notin fan'[p]
  <2>1. \A t \in Topics : s \notin subs'[t]
    BY <1>4, <1>5, SubscribeSteps DEF ReachInv
  <2>2. ASSUME NEW p \in Sessions PROVE s \notin fan'[p]
    <3>1. CASE fan'[p] \subseteq fan[p]
      BY <1>4, <1>5, <3>1 DEF ReachInv
    <3>2. CASE Snapshot(p) /\ fan'[p] = Recipients(p)
      <4>1. req[p].topic \in Topics
        BY <3>2 DEF Snapshot, TypeInv, InFlight, PublishPcs
      <4> QED
        BY <1>4, <1>5, <3>2, <4>1 DEF ReachInv, Recipients
    <3> QED
      BY <3>1, <3>2, FanSteps
  <2> QED
    BY <2>1, <2>2
<1>6. ASSUME nsub'[s] <= 1, Waiting(s)', NEW p \in Sessions PROVE aim'[p] # s
  <2>1. nsub[s] <= 1 /\ Waiting(s)
    BY <1>0, <1>1, <1>6 DEF Subscribed, Onward, Waiting
  <2>2. ASSUME FanOut(p), aim'[p] \in fan[p], ~Skips(aim'[p]), aim'[p] = s PROVE FALSE
    <3>1. Unjoined(s) \/ pc[s] \in ReplayPcs
      BY <1>0, <2>1 DEF Waiting, Unjoined
    <3> QED
      BY <2>1, <2>2, <3>1 DEF ReachInv, Skips
  <2> QED
    BY <1>0, <2>1, <2>2, FanSteps, NoneAssumption DEF ReachInv
<1> QED
  BY <1>2, <1>3, <1>5, <1>6

LEMMA InitReach == Init => ReachInv
BY NoneAssumption DEF Init, ReachInv, SubscribePcs, BeforeJoin, ReplayPcs
-----------------------------------------------------------------------------
(* What a replay owes is not delivered live. *)

\* A payload the replay owes has been stored by its handler, which will not deliver it live.
OwedInv ==
    \A s, p \in Sessions : nsub[s] <= 1 /\ req[p].msg \in owed[s] =>
        pc[p] \in Stored /\ s \notin fan[p] /\ aim[p] # s

\* The debt grows by the first read, and by what live delivery leaves to the second one.
LEMMA OwedSteps ==
    ASSUME TypeInv, [Next]_vars, NEW s \in Sessions
    PROVE  \/ owed'[s] \subseteq owed[s]
           \/ FetchHistory(s)
           \/ \E x \in Sessions : /\ FanOut(x) /\ s \in fan[x] /\ pc[s] \in {"fetch", "join", "replay"}
                                  /\ fan'[x] = fan[x] \ {s} /\ aim' = aim /\ pc' = pc
                                  /\ owed'[s] \subseteq owed[s] \cup {req[x].msg}
                                  /\ req[x].topic = req[s].topic
                                  /\ req[x].msg \in Elems(log[req[s].topic]) /\ log' = log
<1>0. /\ owed \in [Sessions -> SUBSET FrameIds]
      /\ fan \in [Sessions -> SUBSET Sessions]
  BY DEF TypeInv, TypeOK, GhostType, HandlerType
<1>1. CASE Calm
  BY <1>1 DEF Calm
<1>2. ASSUME NEW x \in Sessions, NEW u \in Topics,
             RecvSubscribe(x, u) \/ \E term \in Terminal : RecvPublish(x, u, term)
      PROVE  owed' = owed
  BY <1>2 DEF RecvSubscribe, RecvPublish
<1>3. ASSUME NEW x \in Sessions,
             \/ Join(x) \/ ReplayNext(x) \/ FetchCatchUp(x) \/ Unmark(x) \/ Snapshot(x) \/ Store(x)
             \/ Trim(x) \/ FanEnqueue(x) \/ FinishPublish(x) \/ Deliver(x)
      PROVE  owed' = owed
  BY <1>3 DEF Join, ReplayNext, FetchCatchUp, Unmark, Snapshot, Store, Trim, FanEnqueue, FinishPublish,
              Deliver
<1>4. ASSUME NEW x \in Sessions, Leave(x) PROVE owed'[s] \subseteq owed[s]
  BY <1>0, <1>4 DEF Leave
<1>5. ASSUME NEW x \in Sessions, FetchHistory(x) PROVE owed'[s] \subseteq owed[s] \/ x = s
  BY <1>0, <1>5 DEF FetchHistory
<1>6. ASSUME NEW x \in Sessions, FanOut(x)
      PROVE  \/ owed'[s] \subseteq owed[s]
             \/ /\ s \in fan[x] /\ pc[s] \in {"fetch", "join", "replay"}
                /\ fan'[x] = fan[x] \ {s} /\ aim' = aim /\ pc' = pc
                /\ owed'[s] \subseteq owed[s] \cup {req[x].msg}
                /\ req[x].topic = req[s].topic
                /\ req[x].msg \in Elems(log[req[s].topic]) /\ log' = log
  <2> DEFINE Owes(b) == /\ req[b].topic = req[x].topic /\ pc[b] \in {"fetch", "join", "replay"}
                        /\ req[x].msg \in Elems(log[req[x].topic])
  <2>0. PICK b \in fan[x] :
          /\ fan' = [fan EXCEPT ![x] = @ \ {b}]
          /\ IF Skips(b) THEN /\ UNCHANGED <<pc, aim>>
                              /\ owed' = [owed EXCEPT ![b] = IF Owes(b) THEN @ \cup {req[x].msg} ELSE @]
                         ELSE UNCHANGED owed
    BY <1>6 DEF FanOut
  <2>1. \/ UNCHANGED owed
        \/ /\ UNCHANGED <<pc, aim>> /\ Owes(b)
           /\ owed' = [owed EXCEPT ![b] = @ \cup {req[x].msg}]
    <3>1. CASE Owes(b)
      BY <2>0, <3>1
    <3>2. CASE ~Owes(b)
      BY <1>0, <2>0, <3>2
    <3> QED
      BY <3>1, <3>2
  <2>2. log' = log
    BY <1>6 DEF FanOut
  <2>3. CASE b = s
    BY <1>0, <2>0, <2>1, <2>2, <2>3
  <2>4. CASE b # s
    BY <1>0, <2>1, <2>4
  <2> QED
    BY <2>3, <2>4
<1>7. ASSUME NEW u \in Topics, ExpireLog(u) PROVE owed' = owed
  BY <1>7 DEF ExpireLog
<1>8. CASE Crash
  BY <1>8 DEF Crash
<1> QED
  BY <1>1, <1>2, <1>3, <1>4, <1>5, <1>6, <1>7, <1>8, CalmSteps

LEMMA Subscriptions ==
    ASSUME TypeInv, [Next]_vars, NEW s \in Sessions, nsub'[s] <= 1
    PROVE  nsub[s] \in Nat /\ nsub[s] <= 1
<1>1. nsub[s] \in Nat
  BY DEF TypeInv, TypeOK, ClientType
<1>2. Subscribed(s) \/ Onward(s)
  BY SubscribeSteps
<1>3. nsub'[s] = nsub[s] + 1 \/ nsub'[s] = nsub[s]
  BY <1>2 DEF Subscribed, Onward
<1> QED
  BY <1>1, <1>3

LEMMA StepOwed ==
    BaseInv /\ LogInv /\ ReachInv /\ OwedInv /\ [Next]_vars => OwedInv'
<1> SUFFICES ASSUME BaseInv, LogInv, ReachInv, OwedInv, [Next]_vars, NEW s \in Sessions,
                    NEW p \in Sessions, nsub'[s] <= 1, req'[p].msg \in owed'[s]
             PROVE  pc'[p] \in Stored /\ s \notin fan'[p] /\ aim'[p] # s
  BY DEF OwedInv
<1>0. TypeInv /\ HistoryInv /\ nsub[s] <= 1
  BY Subscriptions DEF BaseInv, HistoryInv
<1>1. req'[p].msg \in 1 .. Len(frames)
  BY SeenSteps
<1>2. req'[p] = req[p] /\ (pc[p] \in Stored => pc'[p] \in Stored)
  BY <1>0, <1>1, RequestSteps DEF Fresh, GoesOn, TypeInv, TypeOK, ClientType
<1>3. CASE req[p].msg \in owed[s]
  <2>1. pc[p] \in Stored /\ s \notin fan[p] /\ aim[p] # s
    BY <1>0, <1>3 DEF OwedInv
  <2>2. ~Snapshot(p)
    BY <2>1 DEF Snapshot, Stored
  <2> QED
    BY <1>0, <1>2, <2>1, <2>2, FanSteps, NoneAssumption
<1>4. CASE FetchHistory(s) /\ req[p].msg \notin owed[s]
  <2>1. /\ req[p].msg \in Elems(log[req[s].topic]) /\ req[s].topic \in Topics
        /\ fan' = fan /\ aim' = aim /\ pc[s] = "fetch"
    <3>1. owed \in [Sessions -> SUBSET FrameIds]
      BY <1>0 DEF TypeInv, TypeOK, GhostType
    <3>2. req[p].msg \in owed'[s]
      BY <1>2
    <3>3. owed'[s] \subseteq owed[s] \cup Elems(log[req[s].topic])
      BY ZenonT(40), <1>0, <1>4, <3>1, FetchFacts
    <3> QED
      BY <1>0, <1>4, <3>2, <3>3, FetchFacts
  <2>2. pc[p] \in Stored
    BY <2>1 DEF LogInv
  <2>3. Unjoined(s) /\ Waiting(s)
    BY <2>1 DEF Unjoined, Waiting, SubscribePcs, BeforeJoin
  <2> QED
    BY <1>0, <1>2, <2>1, <2>2, <2>3 DEF ReachInv
<1>5. ASSUME NEW x \in Sessions, req[p].msg \notin owed[s],
             FanOut(x), s \in fan[x], pc[s] \in {"fetch", "join", "replay"},
             fan'[x] = fan[x] \ {s}, aim' = aim, pc' = pc,
             owed'[s] \subseteq owed[s] \cup {req[x].msg},
             req[x].msg \in Elems(log[req[s].topic])
      PROVE  pc'[p] \in Stored /\ s \notin fan'[p] /\ aim'[p] # s
  <2>1. req[x].msg # 0 /\ pc[x] = "fan"
    BY <1>0, <1>5 DEF FanOut, TypeInv, InFlight, PublishPcs
  <2>2. p = x
    BY <1>0, <1>2, <1>5, <2>1, OwnMessage
  <2>3. Waiting(s)
    BY <1>5 DEF Waiting, SubscribePcs, BeforeJoin
  <2> QED
    BY <1>0, <1>5, <2>1, <2>2, <2>3 DEF ReachInv, Stored
<1> QED
  BY <1>0, <1>2, <1>3, <1>4, <1>5, OwedSteps
-----------------------------------------------------------------------------
(* The first replay of a stream hands over the history it read, then the tail. *)

\* What the log has beyond the history that was read is apart from it.
Beyond(s) ==
    \A i \in DOMAIN hist[s], j \in DOMAIN log[req[s].topic] :
        j > Len(hist[s]) => Apart(hist[s][i], log[req[s].topic][j])

\* What was handed over comes before what is still to replay.
InTurn(s) == Series(todo[s]) /\ \A f \in Fed(s), m \in Elems(todo[s]) : Apart(f, m)

ReplayInv ==
    \A s \in Sessions : nsub[s] <= 1 =>
        /\ Unjoined(s) => Fed(s) = {}
        /\ pc[s] \in {"join", "replay"} => Series(hist[s]) /\ Beyond(s)
        /\ pc[s] = "replay" => Fed(s) \cup Elems(todo[s]) \subseteq Elems(hist[s])
        /\ pc[s] \in {"replay", "catchup"} => InTurn(s)

LEMMA SeriesTail ==
    ASSUME NEW S, NEW q \in Seq(S), q # <<>>, Series(q)
    PROVE  Series(Tail(q)) /\ \A e \in Elems(Tail(q)) : Apart(Head(q), e)
<1>1. /\ Tail(q) \in Seq(S) /\ Len(Tail(q)) = Len(q) - 1 /\ Len(q) \in Nat \ {0}
      /\ \A i \in 1 .. Len(Tail(q)) : Tail(q)[i] = q[i + 1]
      /\ Head(q) = q[1] /\ DOMAIN q = 1 .. Len(q) /\ DOMAIN Tail(q) = 1 .. Len(Tail(q))
  BY HeadTailProperties
<1>2. \A i \in 1 .. Len(Tail(q)) : i + 1 \in 1 .. Len(q) /\ 1 \in 1 .. Len(q) /\ 1 < i + 1
  BY <1>1
<1>3. \A i, j \in 1 .. Len(Tail(q)) : i < j => i + 1 < j + 1
  BY <1>1
<1>4. Series(Tail(q))
  BY <1>1, <1>2, <1>3 DEF Series
<1> QED
  BY <1>1, <1>2, <1>4 DEF Series, Elems

LEMMA SeriesCatchUp ==
    ASSUME NEW S, NEW h1 \in Seq(S), NEW h2 \in Seq(S), Series(h2)
    PROVE  /\ Series(CatchUpTail(h1, h2))
           /\ \A e \in Elems(CatchUpTail(h1, h2)) : \E j \in DOMAIN h2 : j > Len(h1) /\ e = h2[j]
<1>1. CASE Len(h2) <= Len(h1)
  BY <1>1 DEF CatchUpTail, Series, Elems
<1>2. CASE Len(h2) > Len(h1)
  <2> DEFINE q == CatchUpTail(h1, h2)
             n == Len(h1)
  <2>1. n \in Nat /\ Len(h2) \in Nat /\ n < Len(h2) /\ DOMAIN h2 = 1 .. Len(h2)
    BY <1>2
  <2>2. /\ DOMAIN q = 1 .. (Len(h2) - n) /\ Len(q) = Len(h2) - n
        /\ \A i \in 1 .. (Len(h2) - n) : q[i] = h2[n + i]
    BY <1>2 DEF CatchUpTail
  <2> HIDE DEF q, n
  <2>3. \A i, j \in 1 .. (Len(h2) - n) : n + i \in DOMAIN h2 /\ n + i > n /\ (i < j => n + i < n + j)
    BY <2>1
  <2>4. Series(q)
    BY <2>2, <2>3 DEF Series
  <2>5. ASSUME NEW e \in Elems(q) PROVE \E j \in DOMAIN h2 : j > n /\ e = h2[j]
    BY <2>2, <2>3, <2>5 DEF Elems
  <2> QED
    BY <2>4, <2>5 DEF q, n
<1> QED
  BY <1>1, <1>2

\* A stream that has not joined, or not ended its first replay, had not before the step.
LEMMA NotYet ==
    ASSUME TypeInv, ReachInv, [Next]_vars, NEW s \in Sessions, nsub'[s] <= 1
    PROVE  /\ Unjoined(s)' => Unjoined(s) /\ ~Join(s)
           /\ Waiting(s)' => Waiting(s)
           /\ pc'[s] \in SubscribePcs \ BeforeJoin =>
                 /\ nsub'[s] = nsub[s] /\ req'[s] = req[s] /\ pc[s] \in SubscribePcs
<1>0. /\ nsub[s] \in Nat /\ BeforeJoin \subseteq SubscribePcs /\ "subLookup" \in BeforeJoin
      /\ "recv" \notin SubscribePcs
  BY DEF TypeInv, TypeOK, ClientType, SubscribePcs, BeforeJoin
<1>1. Subscribed(s) \/ Onward(s)
  BY SubscribeSteps
<1>2. (Unjoined(s)' => Unjoined(s)) /\ (Waiting(s)' => Waiting(s))
  BY <1>0, <1>1 DEF Subscribed, Onward, Unjoined, Waiting
<1>3. ASSUME Join(s), Unjoined(s)' PROVE FALSE
  <2>1. pc'[s] = "replay" /\ pc[s] = "join" /\ nsub'[s] = nsub[s]
    BY <1>3 DEF Join, Goto, TypeInv, TypeOK, HandlerType
  <2>2. nsub[s] >= 1
    BY <2>1 DEF ReachInv, SubscribePcs, BeforeJoin
  <2> QED
    BY <1>0, <1>3, <2>1, <2>2 DEF Unjoined, BeforeJoin
<1> QED
  BY <1>0, <1>1, <1>2, <1>3 DEF Subscribed, Onward

\* While a stream waits for the end of its first replay, only the replay hands it payloads.
LEMMA WaitingFed ==
    ASSUME TypeInv, ReachInv, [Next]_vars, NEW s \in Sessions, nsub[s] <= 1, Waiting(s),
           NEW m \in Fed(s)', m \notin Fed(s)
    PROVE  ReplayNext(s) /\ m = Head(todo[s])
BY FedSteps DEF Handed, ReachInv

LEMMA CatchUpFacts ==
    ASSUME HistoryInv, NEW s \in Sessions, FetchCatchUp(s)
    PROVE  /\ pc[s] = "replay" /\ pc'[s] = "catchup" /\ todo[s] = <<>> /\ hist'[s] = <<>>
           /\ req[s].topic \in Topics /\ hist[s] \in Seq(FrameIds)
           /\ UNCHANGED <<log, frames, req, received, sendQ, owed, nsub, dropped>>
           /\ \/ todo'[s] = CatchUpTail(hist[s], log[req[s].topic]) /\ clean' = clean
              \/ todo'[s] = <<>> /\ clean'[s] = FALSE
<1>1. /\ hist \in [Sessions -> Seq(FrameIds)] /\ todo \in [Sessions -> Seq(FrameIds)]
      /\ pc \in [Sessions -> Pcs] /\ clean \in [Sessions -> BOOLEAN]
  BY DEF HistoryInv, TypeInv, TypeOK, HandlerType, GhostType
<1>2. req[s].topic \in Topics
  BY BusyLog DEF FetchCatchUp, SubscribePcs
<1> QED
  BY <1>1, <1>2 DEF FetchCatchUp, Goto

LEMMA JoinFacts ==
    ASSUME HistoryInv, NEW s \in Sessions, Join(s)
    PROVE  /\ pc[s] = "join" /\ pc'[s] = "replay" /\ todo'[s] = hist[s] /\ hist' = hist
           /\ req[s].topic \in Topics
           /\ UNCHANGED <<log, frames, req, received, sendQ, owed, nsub, clean, dropped>>
<1>1. todo \in [Sessions -> Seq(FrameIds)] /\ pc \in [Sessions -> Pcs]
  BY DEF HistoryInv, TypeInv, TypeOK, HandlerType
<1>2. req[s].topic \in Topics
  BY BusyLog DEF Join, SubscribePcs, BeforeJoin
<1> QED
  BY <1>1, <1>2 DEF Join, Goto

\* What the log gains after the first read is apart from what was read.
LEMMA BeyondStays ==
    ASSUME BaseInv, LogInv, [Next]_vars, NEW s \in Sessions, req[s].topic \in Topics, Beyond(s),
           req'[s] = req[s], hist'[s] = hist[s]
    PROVE  Beyond(s)'
<1>0. TypeInv /\ HistoryInv /\ Elems(hist[s]) \subseteq 1 .. Len(frames)
  BY DEF BaseInv, KnownInv, HistoryInv
<1> DEFINE t == req[s].topic
           h == hist[s]
           Later(m, n) == m # n /\ (frames'[m].from = frames'[n].from => m <= n)
<1>1. /\ log[t] \in Seq(FrameIds) /\ h \in Seq(FrameIds) /\ Len(h) \in Nat
      /\ DOMAIN h = 1 .. Len(h) /\ DOMAIN log[t] = 1 .. Len(log[t]) /\ Len(log[t]) \in Nat
  BY <1>0, LogFacts DEF TypeInv, TypeOK, HandlerType
<1> SUFFICES ASSUME NEW i \in DOMAIN h, NEW j \in DOMAIN log'[t], j > Len(h)
             PROVE  Later(h[i], log'[t][j])
  BY DEF Beyond, Apart
<1> USE DEF Beyond
<1>2. CASE Shortened(log[t], log'[t])
  <2>1. \E k \in DOMAIN log[t] : k > Len(h) /\ log'[t][j] = log[t][k]
    <3>1. CASE log'[t] = log[t]
      BY <3>1
    <3>2. CASE log'[t] = <<>>
      BY <3>2
    <3>3. CASE Len(log[t]) > HistoryCap /\ log'[t] = NewestKept(log[t])
      <4> HIDE DEF t, h
      <4> DEFINE d == Len(log[t]) - HistoryCap
      <4>1. d \in Nat /\ d + HistoryCap = Len(log[t]) /\ HistoryCap \in Nat
        BY <1>1, <3>3, CapAssumption
      <4>2. DOMAIN log'[t] = 1 .. HistoryCap /\ log'[t][j] = log[t][d + j]
        BY <1>1, <3>3, CapAssumption DEF NewestKept
      <4> HIDE DEF d
      <4>3. d + j \in DOMAIN log[t] /\ d + j > Len(h)
        BY <1>1, <4>1, <4>2
      <4> QED
        BY <4>2, <4>3
    <3> QED
      BY <1>2, <3>1, <3>2, <3>3 DEF Shortened
  <2>2. PICK k \in DOMAIN log[t] : k > Len(h) /\ log'[t][j] = log[t][k]
    BY <2>1
  <2>3. Apart(h[i], log[t][k])
    BY <2>2
  <2>4. h[i] \in 1 .. Len(frames) /\ log[t][k] \in 1 .. Len(frames)
    BY <1>0, <1>1, LogFacts DEF Elems
  <2> QED
    BY <1>0, <2>2, <2>3, <2>4, FramesGrow DEF Apart
<1>3. ASSUME NEW x \in Sessions, Store(x), log'[t] = Append(log[t], req[x].msg)
      PROVE  Later(h[i], log'[t][j])
  <2> DEFINE m == req[x].msg
  <2>1. /\ m \in FrameIds /\ m \in 1 .. Len(frames) /\ frames[m].from = x /\ pc[x] \notin Stored
        /\ m # 0
    BY <1>0, <1>3, StoreFacts DEF FrameIds
  <2>2. h[i] \in 1 .. Len(frames) /\ h[i] \in Elems(hist[s])
    BY <1>0, <1>1 DEF Elems
  <2>3. Apart(h[i], m)
    <3>1. m # h[i]
      BY <2>1, <2>2 DEF LogInv
    <3>2. frames[h[i]].from = x => h[i] <= m
      BY <2>1, <2>2 DEF LogInv
    <3> QED
      BY <2>1, <3>1, <3>2 DEF Apart
  <2>4. log'[t][j] = m \/ (j \in DOMAIN log[t] /\ log'[t][j] = log[t][j])
    <3>1. log'[t] = Append(log[t], m)
      BY <1>3
    <3> HIDE DEF t, h, m
    <3> QED
      BY <1>1, <2>1, <3>1
  <2>5. CASE log'[t][j] = m
    BY <1>0, <2>1, <2>2, <2>3, <2>5, FramesGrow DEF Apart
  <2>6. CASE j \in DOMAIN log[t] /\ log'[t][j] = log[t][j]
    <3>1. Apart(h[i], log[t][j])
      BY <2>6
    <3>2. log[t][j] \in 1 .. Len(frames)
      BY <1>0, <1>1, <2>6, LogFacts DEF Elems
    <3> QED
      BY <1>0, <2>2, <2>6, <3>1, <3>2, FramesGrow DEF Apart
  <2> QED
    BY <2>4, <2>5, <2>6
<1> QED
  BY <1>0, <1>2, <1>3, LogSteps

LEMMA StepReplay ==
    BaseInv /\ LogInv /\ ReachInv /\ ReplayInv /\ [Next]_vars => ReplayInv'
<1> SUFFICES ASSUME BaseInv, LogInv, ReachInv, ReplayInv, [Next]_vars, NEW s \in Sessions,
                    nsub'[s] <= 1
             PROVE  /\ Unjoined(s)' => Fed(s)' = {}
                    /\ pc'[s] \in {"join", "replay"} => Series(hist[s])' /\ Beyond(s)'
                    /\ pc'[s] = "replay" => Fed(s)' \cup Elems(todo'[s]) \subseteq Elems(hist'[s])
                    /\ pc'[s] \in {"replay", "catchup"} => InTurn(s)'
  BY DEF ReplayInv
<1>0. TypeInv /\ HistoryInv /\ nsub[s] <= 1
  BY Subscriptions DEF BaseInv, HistoryInv
<1>1. /\ Elems(hist[s]) \subseteq 1 .. Len(frames) /\ Elems(todo[s]) \subseteq 1 .. Len(frames)
      /\ hist[s] \in Seq(FrameIds) /\ todo[s] \in Seq(FrameIds)
      /\ todo'[s] \in Seq(FrameIds) /\ hist'[s] \in Seq(FrameIds)
  BY <1>0, StepType DEF BaseInv, KnownInv, TypeInv, TypeOK, HandlerType
<1>2. /\ {"join", "fetch"} \subseteq BeforeJoin /\ BeforeJoin \subseteq SubscribePcs
      /\ {"replay", "catchup"} \subseteq SubscribePcs /\ "replay" \notin BeforeJoin
      /\ "catchup" \notin BeforeJoin /\ "off" \notin SubscribePcs /\ "returned" \notin SubscribePcs
  BY DEF SubscribePcs, BeforeJoin
<1>3. ASSUME Unjoined(s)' PROVE Fed(s)' = {}
  <2>1. Unjoined(s) /\ Waiting(s) /\ Fed(s) = {}
    BY <1>0, <1>2, <1>3, NotYet DEF Unjoined, Waiting, ReplayInv
  <2>2. ~ReplayNext(s)
    <3>1. ASSUME ReplayNext(s) PROVE pc[s] \in {"replay", "catchup"}
      BY <3>1 DEF ReplayNext
    <3> QED
      BY <1>0, <1>2, <2>1, <3>1 DEF Unjoined, ReachInv
  <2> QED
    BY <1>0, <2>1, <2>2, WaitingFed
\* From here on the handler of s is subscribing before the step as well.
<1>4. ASSUME pc'[s] \in {"join", "replay", "catchup"}
      PROVE  /\ nsub'[s] = nsub[s] /\ req'[s] = req[s] /\ Waiting(s)
             /\ req[s].topic \in Topics /\ log[req[s].topic] \in Seq(FrameIds)
             /\ pc[s] \in SubscribePcs
             /\ pc'[s] = "join" => pc[s] = "join" \/ FetchHistory(s)
             /\ pc'[s] = "replay" => pc[s] = "replay" \/ Join(s)
             /\ pc'[s] = "catchup" => pc[s] = "catchup" \/ FetchCatchUp(s)
  <2>1. Subscribed(s) \/ Onward(s)
    BY <1>0, SubscribeSteps
  <2>2. Onward(s)
    BY <1>4, <2>1 DEF Subscribed
  <2>3. pc[s] \in SubscribePcs /\ nsub'[s] = nsub[s] /\ req'[s] = req[s]
    BY <1>2, <1>4, <2>2 DEF Onward
  <2> QED
    BY <1>0, <2>2, <2>3, BusyLog DEF Onward, Waiting
<1>5. ASSUME pc'[s] \in {"join", "replay"} PROVE Series(hist[s])' /\ Beyond(s)'
  <2>1. CASE FetchHistory(s)
    <3>1. /\ hist'[s] = log[req[s].topic] \/ hist'[s] = <<>>
          /\ log' = log /\ frames' = frames /\ req' = req
      BY <1>0, <2>1, FetchFacts
    <3>2. log[req[s].topic] \in Seq(FrameIds) /\ Series(log[req[s].topic])
      BY <1>4, <1>5 DEF LogInv
    <3>3. CASE hist'[s] = <<>>
      BY <3>3 DEF Series, Beyond
    <3>4. CASE hist'[s] = log[req[s].topic]
      <4>1. Series(hist[s])'
        BY <3>1, <3>2, <3>4 DEF Series, Apart
      <4>2. Beyond(s)'
        BY <3>1, <3>2, <3>4 DEF Beyond
      <4> QED
        BY <4>1, <4>2
    <3> QED
      BY <3>1, <3>3, <3>4
  <2>2. CASE ~FetchHistory(s)
    <3>1. pc[s] \in {"join", "replay"}
      BY <1>0, <1>4, <1>5, <2>2, JoinFacts
    <3>2. hist'[s] = hist[s]
      <4>1. FetchCatchUp(s) => pc'[s] = "catchup"
        BY <1>0, CatchUpFacts
      <4> QED
        BY <1>0, <1>5, <2>2, <4>1, LocalSteps
    <3>3. Series(hist[s]) /\ Beyond(s)
      BY <1>0, <3>1 DEF ReplayInv
    <3>4. Series(hist[s])'
      BY SMTT(30), <1>0, <1>1, <3>2, <3>3, SeriesStays DEF Series
    <3> QED
      BY <1>4, <1>5, <3>2, <3>3, <3>4, BeyondStays
  <2> QED
    BY <2>1, <2>2
\* What is handed over, and what is left, in the terms of the state before.
<1>6. ASSUME pc'[s] \in {"replay", "catchup"}
      PROVE  /\ Series(todo'[s]) /\ \A f \in Fed(s)', m \in Elems(todo'[s]) : Apart(f, m)
             /\ pc'[s] = "replay" => Fed(s)' \cup Elems(todo'[s]) \subseteq Elems(hist'[s])
  <2>1. CASE Join(s)
    <3>1. Fed(s)' = {}
      <4>1. pc[s] = "join" /\ UNCHANGED <<received, sendQ>>
        BY <1>0, <2>1, JoinFacts
      <4>2. Unjoined(s)
        BY <1>2, <4>1 DEF Unjoined
      <4> QED
        BY <1>0, <4>1, <4>2 DEF ReplayInv, Fed
    <3>2. todo'[s] = hist[s] /\ hist'[s] = hist[s] /\ Series(hist[s])
      BY <1>0, <2>1, JoinFacts DEF ReplayInv
    <3> QED
      BY <3>1, <3>2
  <2>2. CASE FetchCatchUp(s)
    <3>1. Fed(s)' = Fed(s) /\ Fed(s) \subseteq Elems(hist[s]) /\ Beyond(s) /\ pc'[s] = "catchup"
      BY <1>0, <2>2, CatchUpFacts DEF ReplayInv, Fed
    <3>2. CASE todo'[s] = <<>>
      BY <3>1, <3>2, ElemsEmpty DEF Series
    <3>3. CASE todo'[s] = CatchUpTail(hist[s], log[req[s].topic])
      <4>1. Series(log[req[s].topic]) /\ log[req[s].topic] \in Seq(FrameIds)
        BY <1>4, <1>6 DEF LogInv
      <4>2. /\ Series(todo'[s])
            /\ \A e \in Elems(todo'[s]) :
                  \E j \in DOMAIN log[req[s].topic] : j > Len(hist[s]) /\ e = log[req[s].topic][j]
        BY <1>1, <3>3, <4>1, SeriesCatchUp
      <4>3. ASSUME NEW f \in Fed(s)', NEW m \in Elems(todo'[s]) PROVE Apart(f, m)
        <5>1. \E i \in DOMAIN hist[s] : f = hist[s][i]
          BY <1>1, <3>1 DEF Elems
        <5> QED
          BY <3>1, <4>2, <5>1 DEF Beyond
      <4> QED
        BY <3>1, <4>2, <4>3
    <3> QED
      BY <1>0, <2>2, <3>2, <3>3, CatchUpFacts
  <2>3. CASE ReplayNext(s)
    <3>1. /\ pc[s] \in {"replay", "catchup"} /\ pc'[s] = pc[s] /\ hist'[s] = hist[s]
          /\ todo[s] # <<>> /\ todo'[s] = Tail(todo[s])
          /\ Elems(todo[s]) = {Head(todo[s])} \cup Elems(todo'[s])
      BY <1>0, <2>3, ReplayNextFacts DEF ReplayNext
    <3>2. InTurn(s)
      BY <1>0, <3>1 DEF ReplayInv
    <3>3. Series(todo'[s]) /\ \A e \in Elems(todo'[s]) : Apart(Head(todo[s]), e)
      BY <1>1, <3>1, <3>2, SeriesTail DEF InTurn
    <3>4. Fed(s)' \subseteq Fed(s) \cup {Head(todo[s])}
      BY <1>0, <1>4, <1>6, WaitingFed
    <3>5. \A f \in Fed(s)', m \in Elems(todo'[s]) : Apart(f, m)
      BY <3>1, <3>2, <3>3, <3>4 DEF InTurn
    <3>6. pc[s] = "replay" => Fed(s) \cup Elems(todo[s]) \subseteq Elems(hist[s])
      BY <1>0 DEF ReplayInv
    <3> QED
      BY <3>1, <3>3, <3>4, <3>5, <3>6
  <2>4. CASE ~Join(s) /\ ~FetchCatchUp(s) /\ ~ReplayNext(s)
    <3>1. pc[s] = pc'[s] /\ todo'[s] = todo[s] /\ Fed(s)' \subseteq Fed(s)
      BY <1>0, <1>4, <1>6, <2>4, LocalSteps, WaitingFed
    <3>2. pc'[s] = "replay" => hist'[s] = hist[s]
      <4>1. FetchHistory(s) => pc'[s] = "join"
        BY <1>0, FetchFacts
      <4> QED
        BY <1>0, <1>6, <2>4, <4>1, LocalSteps
    <3> QED
      BY <1>0, <1>6, <3>1, <3>2 DEF ReplayInv, InTurn
  <2> QED
    BY <2>1, <2>2, <2>3, <2>4
<1>7. ASSUME pc'[s] \in {"replay", "catchup"} PROVE InTurn(s)'
  <2>1. Elems(todo'[s]) \subseteq 1 .. Len(frames) /\ Fed(s)' \subseteq 1 .. Len(frames)
    BY SeenSteps
  <2>2. Series(todo[s])'
    <3>1. \A i, j \in DOMAIN todo'[s] : i < j => Apart(todo'[s][i], todo'[s][j])
      BY <1>6, <1>7 DEF Series
    <3>2. \A i \in DOMAIN todo'[s] : todo'[s][i] \in 1 .. Len(frames)
      BY <1>1, <2>1 DEF Elems
    <3> QED
      BY <1>0, <3>1, <3>2, FramesGrow DEF Series, Apart
  <2>3. ASSUME NEW f \in Fed(s)', NEW m \in Elems(todo'[s])
        PROVE  f # m /\ (frames'[f].from = frames'[m].from => f <= m)
    <3>1. Apart(f, m) /\ f \in 1 .. Len(frames) /\ m \in 1 .. Len(frames)
      BY <1>6, <1>7, <2>1
    <3> QED
      BY <1>0, <3>1, FramesGrow DEF Apart
  <2> QED
    BY <2>2, <2>3 DEF InTurn, Apart
<1> QED
  BY <1>3, <1>5, <1>6, <1>7

LEMMA InitReplay == Init => ReplayInv
BY ElemsEmpty DEF Init, ReplayInv, Fed
-----------------------------------------------------------------------------
(* Order, and once. *)

\* m may be handed to s before n: a payload of the same stream is not earlier than m, nor the
\* same while the replay lasts, nor one the replay owed.
Fits(s, m, n) ==
    m # 0 /\ n # 0 =>
        /\ frames[m].from = frames[n].from => m <= n
        /\ m = n => pc[s] \notin SubscribePcs /\ m \notin owed[s]

AllFit(s, q) == \A i, j \in DOMAIN q : i < j => Fits(s, q[i], q[j])

FeedFits(s) ==
    /\ AllFit(s, received[s]) /\ AllFit(s, sendQ[s])
    /\ \A m \in Elems(received[s]), n \in Elems(sendQ[s]) : Fits(s, m, n)

FeedInv == \A s \in Sessions : nsub[s] <= 1 => FeedFits(s)

LEMMA FitTail ==
    ASSUME NEW S, NEW q \in Seq(S), q # <<>>, NEW s, AllFit(s, q)
    PROVE  AllFit(s, Tail(q)) /\ \A e \in Elems(Tail(q)) : Fits(s, Head(q), e)
<1>1. /\ Tail(q) \in Seq(S) /\ Len(Tail(q)) = Len(q) - 1 /\ Len(q) \in Nat \ {0}
      /\ \A i \in 1 .. Len(Tail(q)) : Tail(q)[i] = q[i + 1]
      /\ Head(q) = q[1] /\ DOMAIN q = 1 .. Len(q) /\ DOMAIN Tail(q) = 1 .. Len(Tail(q))
  BY HeadTailProperties
<1>2. \A i \in 1 .. Len(Tail(q)) : i + 1 \in 1 .. Len(q) /\ 1 \in 1 .. Len(q) /\ 1 < i + 1
  BY <1>1
<1>3. \A i, j \in 1 .. Len(Tail(q)) : i < j => i + 1 < j + 1
  BY <1>1
<1>4. AllFit(s, Tail(q))
  BY <1>1, <1>2, <1>3 DEF AllFit
<1> QED
  BY <1>1, <1>2, <1>4 DEF AllFit, Elems

LEMMA FitAppend ==
    ASSUME NEW S, NEW q \in Seq(S), NEW m \in S, NEW s, AllFit(s, q),
           \A e \in Elems(q) : Fits(s, e, m)
    PROVE  AllFit(s, Append(q, m))
<1> DEFINE r == Append(q, m)
<1>1. /\ Len(q) \in Nat /\ DOMAIN q = 1 .. Len(q) /\ DOMAIN r = 1 .. (Len(q) + 1)
      /\ \A i \in DOMAIN q : r[i] = q[i]
      /\ r[Len(q) + 1] = m
  OBVIOUS
<1> HIDE DEF r
<1>2. ASSUME NEW i \in DOMAIN r, NEW j \in DOMAIN r, i < j PROVE Fits(s, r[i], r[j])
  <2>1. i \in DOMAIN q
    BY <1>1, <1>2
  <2>2. CASE j = Len(q) + 1
    BY <1>1, <2>1, <2>2 DEF Elems
  <2>3. CASE j # Len(q) + 1
    <3>1. j \in DOMAIN q
      BY <1>1, <2>3
    <3> QED
      BY <1>1, <1>2, <2>1, <3>1 DEF AllFit
  <2> QED
    BY <2>2, <2>3
<1> QED
  BY <1>2 DEF AllFit, r

\* A payload handed over comes after everything that was: the replay in the order of the
\* history, live delivery with the latest payload of its stream, which the replay did not owe.
LEMMA HandedFits ==
    ASSUME BaseInv, LogInv, ReachInv, ReplayInv, OwedInv, NEW s \in Sessions, nsub[s] <= 1,
           NEW m, Handed(s, m), NEW f \in Fed(s)
    PROVE  Fits(s, f, m)
<1>0. TypeInv /\ HistoryInv /\ f \in 1 .. Len(frames)
  BY DEF BaseInv, HistoryInv, KnownInv
<1>1. CASE ReplayNext(s) /\ m = Head(todo[s])
  <2>1. pc[s] \in {"replay", "catchup"} /\ m \in Elems(todo[s])
    BY <1>0, <1>1, ReplayNextFacts DEF ReplayNext
  <2>2. Apart(f, m)
    BY <2>1 DEF ReplayInv, InTurn
  <2> QED
    BY <2>2 DEF Apart, Fits
<1>2. ASSUME NEW p \in Sessions, FanEnqueue(p), aim[p] = s, m = req[p].msg PROVE Fits(s, f, m)
  <2>1. m # 0 /\ frames[m].from = p
    BY <1>0, <1>2, FanEnqueueFacts, OwnMessage DEF FrameIds
  <2>2. frames[f].from = p => f <= m
    BY <1>0, <1>2, <2>1 DEF LogInv
  <2>3. pc[s] \notin SubscribePcs
    BY <1>2 DEF ReachInv, Waiting
  <2>4. m \notin owed[s]
    BY <1>2 DEF OwedInv
  <2> QED
    BY <2>1, <2>2, <2>3, <2>4 DEF Fits
<1> QED
  BY <1>1, <1>2 DEF Handed

\* The new queue, in the terms of the state before.
LEMMA QueueFits ==
    ASSUME BaseInv, LogInv, ReachInv, ReplayInv, OwedInv, FeedInv, [Next]_vars,
           NEW s \in Sessions, nsub[s] <= 1
    PROVE  /\ AllFit(s, received'[s]) /\ AllFit(s, sendQ'[s])
           /\ \A m \in Elems(received'[s]), n \in Elems(sendQ'[s]) : Fits(s, m, n)
<1> DEFINE Responses == 0 .. MaxMsgs
           q == sendQ[s]
           r == received[s]
<1>0. /\ TypeInv /\ FeedFits(s) /\ q \in Seq(Responses) /\ r \in Seq(FrameIds) /\ 0 \in Responses
      /\ FrameIds \subseteq Responses /\ \A h \in Responses : h # 0 => h \in FrameIds
  BY QueueElems, BoundsAssumption DEF BaseInv, HistoryInv, FeedInv, FrameIds
<1>1. /\ AllFit(s, r) /\ AllFit(s, q) /\ \A m \in Elems(r), n \in Elems(q) : Fits(s, m, n)
      /\ Fed(s) = (Elems(r) \cup Elems(q)) \ {0}
  BY <1>0 DEF FeedFits, Fed
<1>2. \A m : Fits(s, m, 0) /\ Fits(s, 0, m)
  BY DEF Fits
<1> HIDE DEF Responses, q, r
<1>3. CASE received'[s] = r /\ Lesser(q, sendQ'[s])
  <2>1. CASE sendQ'[s] = q
    BY <1>1, <1>3, <2>1
  <2>2. CASE sendQ'[s] = Append(q, 0)
    <3>1. Elems(Append(q, 0)) = Elems(q) \cup {0}
      BY <1>0, ElemsAppend
    <3>2. AllFit(s, Append(q, 0))
      BY <1>0, <1>1, <1>2, FitAppend
    <3> QED
      BY <1>1, <1>2, <1>3, <2>2, <3>1, <3>2
  <2>3. CASE sendQ'[s] = <<>>
    BY <1>1, <1>3, <2>3, ElemsEmpty DEF AllFit
  <2>4. CASE q # <<>> /\ sendQ'[s] = Tail(q)
    <3>1. Elems(Tail(q)) \subseteq Elems(q) /\ AllFit(s, Tail(q))
      BY <1>0, <1>1, <2>4, ElemsSplit, FitTail
    <3> QED
      BY <1>1, <1>3, <2>4, <3>1
  <2> QED
    BY <1>3, <2>1, <2>2, <2>3, <2>4 DEF Lesser
<1>4. CASE Deliver(s)
  <2> DEFINE h == Head(q)
  <2>1. /\ q # <<>> /\ sendQ'[s] = Tail(q)
        /\ received'[s] = IF h = 0 THEN r ELSE Append(r, h)
    BY <1>0, <1>4, QueueElems DEF Deliver, q, r
  <2>2. /\ Elems(q) = {h} \cup Elems(Tail(q)) /\ h \in Responses
        /\ AllFit(s, Tail(q)) /\ \A e \in Elems(Tail(q)) : Fits(s, h, e)
    BY <1>0, <1>1, <2>1, ElemsSplit, FitTail
  <2> HIDE DEF h
  <2>3. CASE h = 0
    BY <1>1, <2>1, <2>2, <2>3
  <2>4. CASE h # 0
    <3>1. h \in FrameIds
      BY <1>0, <2>2, <2>4
    <3>2. Elems(Append(r, h)) = Elems(r) \cup {h} /\ AllFit(s, Append(r, h))
      BY <1>0, <1>1, <2>2, <3>1, ElemsAppend, FitAppend
    <3> QED
      BY <1>1, <2>1, <2>2, <2>4, <3>2
  <2> QED
    BY <2>3, <2>4
<1>5. ASSUME NEW m \in Responses, received'[s] = r, sendQ'[s] = Append(q, m), Handed(s, m)
      PROVE  /\ AllFit(s, received'[s]) /\ AllFit(s, sendQ'[s])
             /\ \A e \in Elems(received'[s]), n \in Elems(sendQ'[s]) : Fits(s, e, n)
  <2>1. \A f \in Elems(r) \cup Elems(q) : Fits(s, f, m)
    BY <1>1, <1>2, <1>5, HandedFits
  <2>2. Elems(Append(q, m)) = Elems(q) \cup {m} /\ AllFit(s, Append(q, m))
    BY <1>0, <1>1, <1>5, <2>1, ElemsAppend, FitAppend
  <2> QED
    BY <1>1, <1>5, <2>1, <2>2
<1> QED
  BY <1>0, <1>3, <1>4, <1>5, QueueSteps DEF q, r, Responses

LEMMA StepFeed ==
    BaseInv /\ LogInv /\ ReachInv /\ ReplayInv /\ OwedInv /\ FeedInv /\ [Next]_vars => FeedInv'
<1> SUFFICES ASSUME BaseInv, LogInv, ReachInv, ReplayInv, OwedInv, FeedInv, [Next]_vars,
                    NEW s \in Sessions, nsub'[s] <= 1
             PROVE  FeedFits(s)'
  BY DEF FeedInv
<1>0. TypeInv /\ TypeInv' /\ nsub[s] <= 1
  BY Subscriptions, StepType DEF BaseInv, HistoryInv
<1> DEFINE Later(m, n) == m # 0 /\ n # 0 =>
               /\ frames'[m].from = frames'[n].from => m <= n
               /\ m = n => pc'[s] \notin SubscribePcs /\ m \notin owed'[s]
\* What fits keeps fitting: a stream that begins to subscribe was handed nothing, and its debt
\* grows only while nothing was handed over twice.
<1>1. ASSUME NEW m \in Fed(s)' \cup {0}, NEW n \in Fed(s)' \cup {0}, Fits(s, m, n)
      PROVE  Later(m, n)
  <2> SUFFICES ASSUME m # 0, n # 0 PROVE Later(m, n)
    OBVIOUS
  <2>1. m \in 1 .. Len(frames) /\ n \in 1 .. Len(frames) /\ m \in Fed(s)'
    BY SeenSteps
  <2>2. frames'[m].from = frames'[n].from => m <= n
    BY <1>0, <1>1, <2>1, FramesGrow DEF Fits
  <2>3. CASE pc[s] \in SubscribePcs
    BY <1>1, <2>2, <2>3 DEF Fits
  <2>4. CASE pc[s] \notin SubscribePcs
    <3>1. ~Subscribed(s)
      <4> SUFFICES ASSUME Subscribed(s) PROVE FALSE
        OBVIOUS
      <4>1. nsub[s] \in Nat /\ nsub[s] = 0
        BY <1>0 DEF Subscribed, TypeInv, TypeOK, ClientType
      <4>2. Fed(s) = {} /\ Waiting(s)
        BY <1>0, <4>1 DEF ReplayInv, Unjoined, Waiting
      <4>3. ReplayNext(s)
        BY <1>0, <2>1, <4>2, WaitingFed
      <4> QED
        BY <2>4, <4>3 DEF ReplayNext, SubscribePcs
    <3>2. pc'[s] \notin SubscribePcs
      BY <1>0, <2>4, <3>1, SubscribeSteps DEF Onward
    <3>3. owed'[s] \subseteq owed[s]
      <4>1. pc[s] \notin {"fetch", "join", "replay"}
        BY <2>4 DEF SubscribePcs, BeforeJoin
      <4>2. ~FetchHistory(s)
        BY <4>1 DEF FetchHistory
      <4> QED
        BY <1>0, <4>1, <4>2, OwedSteps
    <3> QED
      BY <1>1, <2>2, <3>2, <3>3 DEF Fits
  <2> QED
    BY <2>3, <2>4
<1>2. /\ AllFit(s, received'[s]) /\ AllFit(s, sendQ'[s])
      /\ \A m \in Elems(received'[s]), n \in Elems(sendQ'[s]) : Fits(s, m, n)
  BY <1>0, QueueFits
<1>3. /\ \A i \in DOMAIN received'[s] : received'[s][i] \in Elems(received'[s])
      /\ \A i \in DOMAIN sendQ'[s] : sendQ'[s][i] \in Elems(sendQ'[s])
      /\ Elems(received'[s]) \cup Elems(sendQ'[s]) \subseteq Fed(s)' \cup {0}
  <2>1. DOMAIN received'[s] = 1 .. Len(received'[s]) /\ DOMAIN sendQ'[s] = 1 .. Len(sendQ'[s])
    BY <1>0 DEF TypeInv, TypeOK, ClientType, QueueType
  <2> QED
    BY <2>1 DEF Elems, Fed
<1>4. \A i, j \in DOMAIN received'[s] : i < j => Later(received'[s][i], received'[s][j])
  BY <1>1, <1>2, <1>3 DEF AllFit
<1>5. \A i, j \in DOMAIN sendQ'[s] : i < j => Later(sendQ'[s][i], sendQ'[s][j])
  BY <1>1, <1>2, <1>3 DEF AllFit
<1>6. \A m \in Elems(received'[s]), n \in Elems(sendQ'[s]) : Later(m, n)
  BY <1>1, <1>2, <1>3
<1> QED
  BY <1>4, <1>5, <1>6 DEF FeedFits, AllFit, Fits

DeliveryInv == BaseInv /\ LogInv /\ ReachInv /\ ReplayInv /\ OwedInv /\ FeedInv

LEMMA InitDelivery == Init => DeliveryInv
<1>1. Init => FeedInv
  BY DEF Init, FeedInv, FeedFits, AllFit, Elems
<1>2. Init => OwedInv
  BY DEF Init, OwedInv
<1> QED
  BY <1>1, <1>2, InitKnown, InitLog, InitReach, InitReplay DEF DeliveryInv

LEMMA StepDelivery == DeliveryInv /\ [Next]_vars => DeliveryInv'
BY StepKnown, StepLog, StepReach, StepReplay, StepOwed, StepFeed DEF DeliveryInv, BaseInv, HistoryInv

\* What was sent, then what is queued.
LEMMA FeedPairs ==
    ASSUME TypeInv, FeedInv, NEW s \in Sessions, nsub[s] <= 1,
           NEW i \in 1 .. Len(Feed(s)), NEW j \in 1 .. Len(Feed(s)), i < j
    PROVE  Fits(s, Feed(s)[i], Feed(s)[j])
<1> DEFINE Responses == 0 .. MaxMsgs
           q == sendQ[s]
           r == received[s]
<1>0. q \in Seq(Responses) /\ r \in Seq(Responses) /\ FeedFits(s)
  <2>1. received[s] \in Seq(FrameIds) /\ FrameIds \subseteq 0 .. MaxMsgs /\ q \in Seq(Responses)
    BY QueueElems DEF FrameIds
  <2> HIDE DEF Responses, q
  <2>2. r \in Seq(Responses)
    BY <2>1, SeqMonotonic DEF Responses
  <2> QED
    BY <2>1, <2>2 DEF FeedInv
<1>f. Feed(s) = r \o q
  BY DEF Feed
<1> HIDE DEF Responses, q, r
<1>1. /\ Len(r) \in Nat /\ Len(q) \in Nat /\ DOMAIN q = 1 .. Len(q) /\ DOMAIN r = 1 .. Len(r)
      /\ Len(r \o q) = Len(r) + Len(q)
      /\ \A k \in 1 .. Len(r \o q) : (r \o q)[k] = IF k <= Len(r) THEN r[k] ELSE q[k - Len(r)]
  BY <1>0, ConcatProperties
<1>2. /\ \A a, b \in 1 .. Len(r) : a < b => Fits(s, r[a], r[b])
      /\ \A a, b \in 1 .. Len(q) : a < b => Fits(s, q[a], q[b])
      /\ \A a \in 1 .. Len(r), b \in 1 .. Len(q) : Fits(s, r[a], q[b])
  BY <1>0, <1>1 DEF FeedFits, AllFit, Elems, q, r
<1> DEFINE n == Len(r)
<1>3. n \in Nat /\ n = Len(r)
  BY <1>1
<1> HIDE DEF n
<1>4. CASE j <= n
  BY <1>f, <1>1, <1>2, <1>3, <1>4
<1>5. CASE i <= n /\ ~(j <= n)
  <2>1. j - n \in 1 .. Len(q) /\ i \in 1 .. Len(r)
    BY <1>f, <1>1, <1>3, <1>5
  <2> QED
    BY <1>f, <1>1, <1>2, <1>3, <1>5, <2>1
<1>6. CASE ~(i <= n)
  <2>1. i - n \in 1 .. Len(q) /\ j - n \in 1 .. Len(q) /\ i - n < j - n /\ ~(j <= n)
    BY <1>f, <1>1, <1>3, <1>6
  <2> QED
    BY <1>f, <1>1, <1>2, <1>3, <1>6, <2>1
<1> QED
  BY <1>3, <1>4, <1>5, <1>6

\* addToTopic, the suppression of live delivery during handleSubscribe, the replay and catch-up
\* loops and the fan-out of handlePublish, interleaved with trimming, expiry, failures and
\* crashes, hand the payloads of each publishing stream to a first subscription in order.
THEOREM EachStreamInOrder == Spec => []PublisherOrder
<1>1. DeliveryInv => PublisherOrder
  <2> SUFFICES ASSUME DeliveryInv, NEW s \in Sessions, nsub[s] <= 1,
                      NEW i \in 1 .. Len(Feed(s)), NEW j \in 1 .. Len(Feed(s)),
                      i < j, Feed(s)[i] # 0, Feed(s)[j] # 0,
                      frames[Feed(s)[i]].from = frames[Feed(s)[j]].from
               PROVE  Feed(s)[i] <= Feed(s)[j]
    BY DEF PublisherOrder
  <2>1. Fits(s, Feed(s)[i], Feed(s)[j])
    BY FeedPairs DEF DeliveryInv, BaseInv, HistoryInv
  <2> QED
    BY <2>1 DEF Fits
<1> QED
  BY InitDelivery, StepDelivery, <1>1, PTL DEF Spec

\* The replay, the positional catch-up and live delivery do not hand over twice what the
\* replay of a first subscription owes.
THEOREM OwedAtMostOnce == Spec => []OwedOnce
<1>1. DeliveryInv => OwedOnce
  <2> SUFFICES ASSUME DeliveryInv, NEW s \in Sessions, nsub[s] <= 1,
                      NEW i \in 1 .. Len(Feed(s)), NEW j \in 1 .. Len(Feed(s)),
                      Feed(s)[i] = Feed(s)[j], Feed(s)[i] \in owed[s]
               PROVE  i = j
    BY DEF OwedOnce
  <2>0. TypeInv /\ Feed(s)[i] # 0
    BY DEF DeliveryInv, BaseInv, HistoryInv, TypeInv, TypeOK, GhostType, FrameIds
  <2>1. ASSUME i < j PROVE FALSE
    <3>1. Fits(s, Feed(s)[i], Feed(s)[j])
      BY <2>0, <2>1, FeedPairs DEF DeliveryInv
    <3> QED
      BY <2>0, <3>1 DEF Fits
  <2>2. ASSUME j < i PROVE FALSE
    <3>1. Fits(s, Feed(s)[j], Feed(s)[i])
      BY <2>0, <2>2, FeedPairs DEF DeliveryInv
    <3> QED
      BY <2>0, <3>1 DEF Fits
  <2> HIDE DEF Feed
  <2>3. i \in Nat /\ j \in Nat
    OBVIOUS
  <2> QED
    BY <2>1, <2>2, <2>3
<1> QED
  BY InitDelivery, StepDelivery, <1>1, PTL DEF Spec
-----------------------------------------------------------------------------
(* Complete. *)

\* What the stream was sent, has queued, or lost.
Done(s, m) == OwnPayload(s, m) \/ m \in Fed(s) \cup dropped[s]

Prefix(s) ==
    LET q == log[req[s].topic] IN
    Len(hist[s]) <= Len(q) /\ \A i \in DOMAIN hist[s] : q[i] = hist[s][i]

\* While the log only grows, what is owed is in it; what was read of it is replayed first.
CompleteInv ==
    \A s \in Sessions : clean[s] = TRUE =>
        /\ pc[s] \in {"fetch", "join", "replay"} => owed[s] \subseteq Elems(log[req[s].topic])
        /\ pc[s] \in {"join", "replay"} => Prefix(s)
        /\ pc[s] = "replay" => \A m \in Elems(hist[s]) : Done(s, m) \/ m \in Elems(todo[s])
        /\ pc[s] = "catchup" => \A m \in owed[s] : Done(s, m) \/ m \in Elems(todo[s])
        /\ pc[s] \notin SubscribePcs => \A m \in owed[s] : Done(s, m)

\* tryEnqueue hands over, or drops.
LEMMA EnqueueKeeps ==
    ASSUME TypeInv, NEW x \in Sessions, NEW m \in 0 .. MaxMsgs, TryEnqueue(x, m),
           UNCHANGED received, NEW s \in Sessions
    PROVE  /\ Fed(s) \cup dropped[s] \subseteq Fed(s)' \cup dropped'[s]
           /\ m # 0 => m \in Fed(x)' \cup dropped'[x]
<1>0. dropped \in [Sessions -> SUBSET FrameIds]
  BY DEF TypeInv, TypeOK, QueueType
<1>1. Elems(Append(sendQ[x], m)) = Elems(sendQ[x]) \cup {m}
  BY QueueElems
<1>2. Elems(sendQ[s]) \subseteq Elems(sendQ'[s])
  BY <1>1, QueueElems DEF TryEnqueue
<1>3. dropped[s] \subseteq dropped'[s]
  BY <1>0 DEF TryEnqueue
<1>4. CASE CanEnqueue(x)
  BY <1>1, <1>2, <1>3, <1>4, QueueElems DEF TryEnqueue, Fed
<1>5. CASE ~CanEnqueue(x)
  BY <1>0, <1>2, <1>3, <1>5 DEF TryEnqueue, Fed
<1> QED
  BY <1>4, <1>5

\* Without a crash nothing that was handed over or dropped is forgotten.
LEMMA NothingForgotten ==
    ASSUME TypeInv, [Next]_vars, NEW s \in Sessions, clean'[s] = TRUE
    PROVE  Fed(s) \cup dropped[s] \subseteq Fed(s)' \cup dropped'[s]
<1>1. CASE Calm
  BY <1>1 DEF Calm, Fed
<1>2. ASSUME NEW x \in Sessions, ReplayNext(x)
      PROVE  Fed(s) \cup dropped[s] \subseteq Fed(s)' \cup dropped'[s]
  <2>1. UNCHANGED received /\ Head(todo[x]) \in 0 .. MaxMsgs
    BY <1>2, ReplayNextFacts DEF ReplayNext
  <2>2. CASE UNCHANGED <<sendQ, dropped>>
    BY <2>1, <2>2 DEF Fed
  <2>3. CASE TryEnqueue(x, Head(todo[x]))
    BY <2>1, <2>3, EnqueueKeeps
  <2> QED
    BY <1>2, <2>2, <2>3, ReplayNextFacts
<1>3. ASSUME NEW p \in Sessions, FanEnqueue(p)
      PROVE  Fed(s) \cup dropped[s] \subseteq Fed(s)' \cup dropped'[s]
  BY <1>3, FanEnqueueFacts, EnqueueKeeps
<1>4. ASSUME NEW x \in Sessions, Deliver(x)
      PROVE  Fed(s) \cup dropped[s] \subseteq Fed(s)' \cup dropped'[s]
  <2>1. dropped' = dropped
    BY <1>4 DEF Deliver
  <2> QED
    BY <1>4, <2>1, DeliverFed
<1>5. ~Crash
  BY DEF Crash
<1> DEFINE Same == UNCHANGED <<sendQ, received, dropped>>
<1>6. ASSUME NEW x \in Sessions, NEW t \in Topics,
             RecvSubscribe(x, t) \/ \E term \in Terminal : RecvPublish(x, t, term)
      PROVE  Same
  BY <1>6 DEF RecvSubscribe, RecvPublish
<1>7. ASSUME NEW x \in Sessions,
             \/ Leave(x) \/ FetchHistory(x) \/ Join(x) \/ FetchCatchUp(x) \/ Unmark(x)
             \/ Snapshot(x) \/ Store(x) \/ Trim(x) \/ FanOut(x) \/ FinishPublish(x)
      PROVE  Same
  BY <1>7 DEF Leave, FetchHistory, Join, FetchCatchUp, Unmark, Snapshot, Store, Trim, FanOut, FinishPublish
<1>8. ASSUME NEW t \in Topics, ExpireLog(t) PROVE Same
  BY <1>8 DEF ExpireLog
<1>9. Same => Fed(s) \cup dropped[s] \subseteq Fed(s)' \cup dropped'[s]
  BY DEF Fed
<1> QED
  BY <1>1, <1>2, <1>3, <1>4, <1>5, <1>6, <1>7, <1>8, <1>9, CalmSteps

\* While a stream reads a log that only grows, the log grows by what is stored.
LEMMA CleanSteps ==
    ASSUME TypeInv, [Next]_vars, NEW s \in Sessions, clean'[s] = TRUE
    PROVE  /\ clean[s] = TRUE \/ Leave(s)
           /\ pc[s] \in SubscribePcs /\ pc'[s] \notin SubscribePcs => Unmark(s)
           /\ pc[s] \in {"fetch", "join", "replay"} /\ req[s].topic \in Topics =>
                 \/ log'[req[s].topic] = log[req[s].topic]
                 \/ \E m \in FrameIds : log'[req[s].topic] = Append(log[req[s].topic], m)
<1> USE DEF Goto
<1>0. /\ log \in [Topics -> Seq(FrameIds)] /\ clean \in [Sessions -> BOOLEAN]
      /\ pc \in [Sessions -> Pcs]
  BY DEF TypeInv, TypeOK, RedisType, GhostType, HandlerType
<1>1. /\ SubscribePcs = BeforeJoin \cup {"replay", "catchup"}
      /\ BeforeJoin = {"subLookup", "subRedis", "bucketNew", "bucketOld", "create", "leave", "fetch", "join"}
  BY DEF SubscribePcs, BeforeJoin
<1> DEFINE Stays == pc[s] \in SubscribePcs => pc'[s] \in SubscribePcs
           Reading(t) == req[s].topic = t /\ pc[s] \in {"fetch", "join", "replay"}
           LogKept == log' = log
<1>2. CASE Calm
  <2>1. Stays
    BY <1>1, <1>2 DEF Calm, Early, Outside
  <2> QED
    BY <1>2, <2>1 DEF Calm
<1>3. ASSUME NEW x \in Sessions, NEW u \in Topics,
             RecvSubscribe(x, u) \/ \E term \in Terminal : RecvPublish(x, u, term)
      PROVE  LogKept /\ clean' = clean /\ Stays
  BY <1>0, <1>1, <1>3 DEF RecvSubscribe, RecvPublish, CanRecv
<1>4. ASSUME NEW x \in Sessions, Leave(x)
      PROVE  LogKept /\ (clean'[s] = clean[s] \/ x = s) /\ Stays
  BY <1>0, <1>1, <1>4 DEF Leave
<1>5. ASSUME NEW x \in Sessions, FetchHistory(x) PROVE LogKept /\ clean[s] = TRUE /\ Stays
  BY <1>0, <1>1, <1>5 DEF FetchHistory
<1>6. ASSUME NEW x \in Sessions, FetchCatchUp(x) PROVE LogKept /\ clean[s] = TRUE /\ Stays
  BY <1>0, <1>1, <1>6 DEF FetchCatchUp
<1>7. ASSUME NEW x \in Sessions, Join(x) \/ ReplayNext(x) \/ Deliver(x)
      PROVE  LogKept /\ clean' = clean /\ Stays
  BY <1>0, <1>1, <1>7 DEF Join, ReplayNext, Deliver
<1>8. ASSUME NEW x \in Sessions, Unmark(x) PROVE LogKept /\ clean' = clean /\ (Stays \/ x = s)
  BY <1>0, <1>1, <1>8 DEF Unmark
<1>9. ASSUME NEW x \in Sessions, Snapshot(x) \/ FanOut(x) \/ FanEnqueue(x)
      PROVE  LogKept /\ clean' = clean /\ Stays
  BY <1>0, <1>1, <1>9 DEF Snapshot, FanOut, FanEnqueue
<1>10. ASSUME NEW x \in Sessions, Store(x)
       PROVE  /\ clean' = clean /\ Stays
              /\ \A t \in Topics : \/ log'[t] = log[t]
                                   \/ \E m \in FrameIds : log'[t] = Append(log[t], m)
  <2>1. req[x].msg \in FrameIds
    BY <1>10, BusyRequest DEF Store, PublishPcs
  <2>2. clean' = clean /\ Stays
    BY <1>0, <1>1, <1>10 DEF Store
  <2>3. \A t \in Topics : log'[t] = log[t] \/ log'[t] = Append(log[t], req[x].msg)
    BY <1>0, <1>10 DEF Store
  <2> QED
    BY <2>1, <2>2, <2>3
<1>11. ASSUME NEW t \in Topics, Disturb(t) PROVE clean[s] = TRUE /\ ~Reading(t)
  BY <1>0, <1>11 DEF Disturb
<1>12. ASSUME NEW x \in Sessions, Trim(x)
       PROVE  /\ clean[s] = TRUE /\ Stays
              /\ \A t \in Topics : log'[t] = log[t] \/ ~Reading(t)
  <2>1. Stays /\ req[x].topic \in Topics
    BY <1>0, <1>1, <1>12 DEF Trim, TypeInv, InFlight, PublishPcs
  <2>2. CASE UNCHANGED <<log, clean>>
    BY <2>1, <2>2
  <2>3. CASE log' = [log EXCEPT ![req[x].topic] = NewestKept(@)] /\ Disturb(req[x].topic)
    BY <1>0, <1>11, <2>1, <2>3
  <2> QED
    BY <1>12, <2>2, <2>3 DEF Trim
<1>13. ASSUME NEW x \in Sessions, FinishPublish(x)
       PROVE  /\ clean[s] = TRUE /\ Stays
              /\ \A t \in Topics : log'[t] = log[t] \/ ~Reading(t)
  <2>1. Stays /\ req[x].topic \in Topics
    BY <1>0, <1>1, <1>13 DEF FinishPublish, TypeInv, InFlight, PublishPcs
  <2>2. CASE UNCHANGED <<log, clean>>
    BY <2>1, <2>2
  <2>3. CASE log' = [log EXCEPT ![req[x].topic] = <<>>] /\ Disturb(req[x].topic)
    BY <1>0, <1>11, <2>1, <2>3
  <2> QED
    BY <1>13, <2>2, <2>3 DEF FinishPublish, DeleteTopic
<1>14. ASSUME NEW u \in Topics, ExpireLog(u)
       PROVE  /\ clean[s] = TRUE /\ Stays
              /\ \A t \in Topics : log'[t] = log[t] \/ ~Reading(t)
  BY <1>0, <1>11, <1>14 DEF ExpireLog
<1>15. ~Crash
  BY DEF Crash
<1> QED
  BY <1>2, <1>3, <1>4, <1>5, <1>6, <1>7, <1>8, <1>9, <1>10, <1>12, <1>13, <1>14, <1>15, CalmSteps

\* A log that only grows keeps its entries at their positions.
LEMMA PrefixStays ==
    ASSUME NEW S, NEW q \in Seq(S), NEW m \in S, NEW h \in Seq(S), Len(h) <= Len(q),
           \A i \in DOMAIN h : q[i] = h[i]
    PROVE  /\ Len(h) <= Len(Append(q, m)) /\ \A i \in DOMAIN h : Append(q, m)[i] = h[i]
           /\ Elems(q) \subseteq Elems(Append(q, m))
<1>1. /\ DOMAIN h = 1 .. Len(h) /\ Len(h) \in Nat /\ Len(q) \in Nat /\ Len(Append(q, m)) = Len(q) + 1
      /\ \A i \in 1 .. Len(q) : Append(q, m)[i] = q[i]
  OBVIOUS
<1>2. \A i \in DOMAIN h : i \in 1 .. Len(q)
  BY <1>1
<1> QED
  BY <1>1, <1>2, ElemsAppend

\* An entry of the log was in the history that was read, or is in the tail.
LEMMA TailRest ==
    ASSUME NEW S, NEW h \in Seq(S), NEW q \in Seq(S), Len(h) <= Len(q),
           \A i \in DOMAIN h : q[i] = h[i], NEW m \in Elems(q)
    PROVE  m \in Elems(h) \/ m \in Elems(CatchUpTail(h, q))
<1>1. PICK k \in 1 .. Len(q) : m = q[k]
  BY DEF Elems
<1> DEFINE n == Len(h)
<1>2. n \in Nat /\ Len(q) \in Nat /\ DOMAIN h = 1 .. n /\ n <= Len(q)
  OBVIOUS
<1>3. CASE k <= n
  BY <1>1, <1>2, <1>3 DEF Elems
<1>4. CASE ~(k <= n)
  <2>1. Len(q) > n
    BY <1>1, <1>2, <1>4
  <2>2. /\ Len(CatchUpTail(h, q)) = Len(q) - n
        /\ \A i \in 1 .. (Len(q) - n) : CatchUpTail(h, q)[i] = q[n + i]
    BY <2>1 DEF CatchUpTail
  <2> HIDE DEF n
  <2>3. k - n \in 1 .. (Len(q) - n) /\ n + (k - n) = k
    BY <1>1, <1>2, <1>4
  <2> QED
    BY <1>1, <2>2, <2>3 DEF Elems
<1> QED
  BY <1>3, <1>4

LEMMA StepComplete == BaseInv /\ CompleteInv /\ [Next]_vars => CompleteInv'
<1> DEFINE C(s) == /\ pc[s] \in {"fetch", "join", "replay"} => owed[s] \subseteq Elems(log[req[s].topic])
                   /\ pc[s] \in {"join", "replay"} => Prefix(s)
                   /\ pc[s] = "replay" => \A m \in Elems(hist[s]) : Done(s, m) \/ m \in Elems(todo[s])
                   /\ pc[s] = "catchup" => \A m \in owed[s] : Done(s, m) \/ m \in Elems(todo[s])
                   /\ pc[s] \notin SubscribePcs => \A m \in owed[s] : Done(s, m)
<1> SUFFICES ASSUME BaseInv, CompleteInv, [Next]_vars, NEW s \in Sessions, clean'[s] = TRUE
             PROVE  C(s)'
  BY DEF CompleteInv
<1>0. TypeInv /\ HistoryInv /\ TypeInv'
  BY StepType DEF BaseInv, HistoryInv
<1>1. /\ Elems(hist[s]) \subseteq 1 .. Len(frames) /\ Elems(todo[s]) \subseteq 1 .. Len(frames)
      /\ owed[s] \subseteq 1 .. Len(frames)
      /\ hist[s] \in Seq(FrameIds) /\ todo[s] \in Seq(FrameIds)
      /\ owed \in [Sessions -> SUBSET FrameIds]
  BY <1>0 DEF BaseInv, KnownInv, TypeInv, TypeOK, HandlerType, GhostType
<1>2. /\ {"join", "fetch"} \subseteq SubscribePcs /\ {"replay", "catchup"} \subseteq SubscribePcs
      /\ "off" \notin SubscribePcs /\ "returned" \notin SubscribePcs /\ "subLookup" \in SubscribePcs
      /\ "leave" \in SubscribePcs
  BY DEF SubscribePcs, BeforeJoin
<1>3. ASSUME NEW m \in 1 .. Len(frames), Done(s, m) PROVE Done(s, m)'
  <2>1. frames'[m] = frames[m]
    BY <1>0, FramesGrow
  <2> QED
    BY <1>0, <1>3, <2>1, NothingForgotten DEF Done, OwnPayload
<1>4. ASSUME clean[s] = TRUE PROVE C(s)
  BY <1>4 DEF CompleteInv
<1> HIDE DEF C
<1>5. CASE Leave(s)
  <2>1. pc'[s] = "fetch" /\ owed'[s] = {}
    BY <1>0, <1>1, <1>5 DEF Leave, Goto, TypeInv, TypeOK, HandlerType
  <2> QED
    BY <1>2, <2>1 DEF C
<1>6. CASE ~Leave(s)
  <2>1. C(s)
    BY <1>0, <1>4, <1>6, CleanSteps
  <2>2. ASSUME pc'[s] \in {"fetch", "join", "replay", "catchup"}
        PROVE  /\ req'[s] = req[s] /\ pc[s] \in SubscribePcs
               /\ req[s].topic \in Topics /\ log[req[s].topic] \in Seq(FrameIds)
               /\ pc'[s] = "fetch" => pc[s] = "fetch"
               /\ pc'[s] = "join" => pc[s] = "join" \/ FetchHistory(s)
               /\ pc'[s] = "replay" => pc[s] = "replay" \/ Join(s)
               /\ pc'[s] = "catchup" => pc[s] = "catchup" \/ FetchCatchUp(s)
    <3>1. Onward(s)
      BY <1>0, <2>2, SubscribeSteps DEF Subscribed
    <3>2. pc[s] \in SubscribePcs /\ req'[s] = req[s]
      BY <1>2, <2>2, <3>1 DEF Onward
    <3> QED
      BY <1>0, <1>6, <3>1, <3>2, BusyLog DEF Onward
  <2>3. ASSUME pc[s] \in {"fetch", "join", "replay"}, req[s].topic \in Topics
        PROVE  /\ Elems(log[req[s].topic]) \subseteq Elems(log'[req[s].topic])
               /\ req'[s] = req[s] /\ hist'[s] = hist[s] /\ Prefix(s) => Prefix(s)'
    <3> DEFINE t == req[s].topic
    <3>1. log[t] \in Seq(FrameIds)
      BY <1>0, <2>3, LogFacts
    <3>2. CASE log'[t] = log[t]
      BY <3>2 DEF Prefix
    <3>3. ASSUME NEW m \in FrameIds, log'[t] = Append(log[t], m)
          PROVE  /\ Elems(log[t]) \subseteq Elems(log'[t])
                 /\ req'[s] = req[s] /\ hist'[s] = hist[s] /\ Prefix(s) => Prefix(s)'
      <4>1. Elems(log[t]) \subseteq Elems(log'[t])
        BY <3>1, <3>3, ElemsAppend
      <4>2. ASSUME req'[s] = req[s], hist'[s] = hist[s], Prefix(s) PROVE Prefix(s)'
        <5>1. Len(hist[s]) <= Len(log[t]) /\ \A i \in DOMAIN hist[s] : log[t][i] = hist[s][i]
          BY <4>2 DEF Prefix
        <5> DEFINE q == log[t]
        <5> DEFINE h == hist[s]
        <5>2. q \in Seq(FrameIds) /\ h \in Seq(FrameIds) /\ m \in FrameIds
              /\ Len(h) <= Len(q) /\ \A i \in DOMAIN h : q[i] = h[i]
          BY <1>1, <3>1, <3>3, <5>1
        <5>3. Len(h) <= Len(Append(q, m)) /\ \A i \in DOMAIN h : Append(q, m)[i] = h[i]
          <6> HIDE DEF q, h
          <6> QED
            BY <5>2, PrefixStays
        <5>4. (log')[t] = Append(q, m) /\ (hist')[s] = h /\ (req')[s].topic = t
          BY <3>3, <4>2
        <5>5. Len((hist')[s]) <= Len((log')[t]) /\ \A i \in DOMAIN ((hist')[s]) : (log')[t][i] = (hist')[s][i]
          <6> HIDE DEF q, h, t
          <6> QED
            BY <5>3, <5>4
        <5> QED
          BY <5>4, <5>5 DEF Prefix
      <4> QED
        BY <4>1, <4>2
    <3> QED
      BY <1>0, <2>3, <3>2, <3>3, CleanSteps
  <2>4. ASSUME pc'[s] \in {"fetch", "join", "replay"}
        PROVE  owed'[s] \subseteq Elems(log'[req'[s].topic])
    <3>1. pc[s] \in {"fetch", "join", "replay"} /\ req'[s] = req[s] /\ req[s].topic \in Topics
      BY <1>0, <2>2, <2>4, FetchFacts, JoinFacts
    <3>2. owed[s] \subseteq Elems(log[req[s].topic])
      BY <2>1, <3>1 DEF C
    <3>3. CASE owed'[s] \subseteq owed[s]
      BY <2>3, <3>1, <3>2, <3>3
    <3>4. CASE FetchHistory(s)
      <4>1. log' = log /\ owed'[s] \subseteq owed[s] \cup Elems(log[req[s].topic])
        BY <1>0, <1>1, <3>4, FetchFacts
      <4> QED
        BY <3>1, <3>2, <4>1
    <3> QED
      BY <1>0, <3>1, <3>2, <3>3, <3>4, OwedSteps
  <2>5. ASSUME pc'[s] \in {"join", "replay"} PROVE Prefix(s)'
    <3>1. CASE FetchHistory(s)
      <4>1. hist'[s] = log[req[s].topic] /\ log' = log /\ req' = req
        BY <1>0, <3>1, FetchFacts
      <4>2. log[req[s].topic] \in Seq(FrameIds)
        BY <2>2, <2>5
      <4> QED
        BY <4>1, <4>2 DEF Prefix
    <3>2. CASE ~FetchHistory(s)
      <4>1. pc[s] \in {"join", "replay"}
        BY <1>0, <2>2, <2>5, <3>2, JoinFacts
      <4>2. FetchCatchUp(s) => pc'[s] = "catchup"
        BY <1>0, CatchUpFacts
      <4>3. hist'[s] = hist[s]
        BY <1>0, <2>5, <3>2, <4>2, LocalSteps
      <4>4. Prefix(s)
        BY <2>1, <4>1 DEF C
      <4> QED
        BY <2>2, <2>3, <2>5, <4>1, <4>3, <4>4
    <3> QED
      BY <3>1, <3>2
\* One entry of what is left is handed over, dropped or skipped.
  <2>6. ASSUME ReplayNext(s), NEW m \in 1 .. Len(frames), Done(s, m) \/ m \in Elems(todo[s])
        PROVE  Done(s, m)' \/ m \in Elems(todo'[s])
    <3> DEFINE h == Head(todo[s])
    <3>1. /\ todo'[s] = Tail(todo[s]) /\ Elems(todo[s]) = {h} \cup Elems(Tail(todo[s]))
          /\ h \in 0 .. MaxMsgs /\ h \in FrameIds
      BY <1>0, <2>6, ReplayNextFacts
    <3>2. ASSUME m = h PROVE Done(s, m)'
      <4>1. CASE OwnPayload(s, h)
        BY <1>3, <2>6, <3>2, <4>1 DEF Done
      <4>2. CASE TryEnqueue(s, h)
        <5>1. h # 0 /\ UNCHANGED received
          BY <2>6, <3>1 DEF FrameIds, ReplayNext
        <5>2. h \in Fed(s)' \cup dropped'[s]
          BY <1>0, <3>1, <4>2, <5>1, EnqueueKeeps
        <5> QED
          BY <3>2, <5>2 DEF Done
      <4> QED
        BY <1>0, <2>6, <4>1, <4>2, ReplayNextFacts
    <3> QED
      BY <1>3, <2>6, <3>1, <3>2
  <2>7. ASSUME pc'[s] = "replay", NEW m \in Elems(hist'[s])
        PROVE  Done(s, m)' \/ m \in Elems(todo'[s])
    <3>1. CASE Join(s)
      BY <1>0, <2>7, <3>1, JoinFacts
    <3>2. CASE ~Join(s)
      <4>1. pc[s] = "replay" /\ ~FetchHistory(s) /\ ~FetchCatchUp(s)
        BY <1>0, <2>2, <2>7, <3>2, FetchFacts, CatchUpFacts
      <4>2. hist'[s] = hist[s] /\ (todo'[s] = todo[s] \/ ReplayNext(s))
        BY <1>0, <2>7, <3>2, <4>1, LocalSteps
      <4>3. (Done(s, m) \/ m \in Elems(todo[s])) /\ m \in 1 .. Len(frames)
        BY <1>1, <2>1, <2>7, <4>1, <4>2 DEF C
      <4> QED
        BY <1>3, <2>6, <4>2, <4>3
    <3> QED
      BY <3>1, <3>2
  <2>8. ASSUME pc'[s] = "catchup", NEW m \in owed'[s]
        PROVE  Done(s, m)' \/ m \in Elems(todo'[s])
    <3>1. CASE FetchCatchUp(s)
      <4>1. /\ pc[s] = "replay" /\ todo[s] = <<>> /\ owed'[s] = owed[s]
            /\ todo'[s] = CatchUpTail(hist[s], log[req[s].topic])
        BY <1>0, <3>1, CatchUpFacts
      <4>2. /\ m \in Elems(log[req[s].topic]) /\ Prefix(s) /\ m \in 1 .. Len(frames)
            /\ \A e \in Elems(hist[s]) : Done(s, e)
        BY <1>1, <2>1, <2>8, <4>1, ElemsEmpty DEF C
      <4>3. m \in Elems(hist[s]) \/ m \in Elems(todo'[s])
        BY SMTT(30), <1>1, <2>2, <2>8, <4>1, <4>2, TailRest DEF Prefix
      <4> QED
        BY <1>3, <4>2, <4>3
    <3>2. CASE ~FetchCatchUp(s)
      <4>1. pc[s] = "catchup"
        BY <2>2, <2>8, <3>2
      <4>2. /\ owed'[s] \subseteq owed[s]
            /\ todo'[s] = todo[s] \/ ReplayNext(s)
        <5>1. ~FetchHistory(s) /\ ~Join(s)
          BY <1>0, <4>1, FetchFacts, JoinFacts
        <5> QED
          BY <1>0, <2>8, <3>2, <4>1, <5>1, OwedSteps, LocalSteps
      <4>3. (Done(s, m) \/ m \in Elems(todo[s])) /\ m \in 1 .. Len(frames)
        BY <1>1, <2>1, <2>8, <4>1, <4>2 DEF C
      <4> QED
        BY <1>3, <2>6, <4>2, <4>3
    <3> QED
      BY <3>1, <3>2
  <2>9. ASSUME pc'[s] \notin SubscribePcs, NEW m \in owed'[s] PROVE Done(s, m)'
    <3>1. CASE pc[s] \in SubscribePcs
      <4>1. Unmark(s)
        BY <1>0, <2>9, <3>1, CleanSteps
      <4>2. pc[s] = "catchup" /\ todo[s] = <<>> /\ owed' = owed
        BY <4>1 DEF Unmark
      <4>3. Done(s, m) /\ m \in 1 .. Len(frames)
        BY <1>1, <2>1, <2>9, <4>2, ElemsEmpty DEF C
      <4> QED
        BY <1>3, <4>3
    <3>2. CASE pc[s] \notin SubscribePcs
      <4>1. ~FetchHistory(s) /\ pc[s] \notin {"fetch", "join", "replay"}
        BY <1>0, <1>2, <3>2, FetchFacts
      <4>2. owed'[s] \subseteq owed[s]
        BY <1>0, <4>1, OwedSteps
      <4>3. Done(s, m) /\ m \in 1 .. Len(frames)
        BY <1>1, <2>1, <2>9, <3>2, <4>2 DEF C
      <4> QED
        BY <1>3, <4>3
    <3> QED
      BY <3>1, <3>2
  <2> QED
    BY <2>4, <2>5, <2>7, <2>8, <2>9 DEF C
<1> QED
  BY <1>5, <1>6

LEMMA InitComplete == Init => CompleteInv
BY DEF Init, CompleteInv

\* handleSubscribe replays the history it read and catches up by position with what was stored
\* meanwhile, so that nothing is missing once it enables live delivery again.
THEOREM ReplayIsComplete == Spec => []ReplayComplete
<1>1. BaseInv /\ CompleteInv => ReplayComplete
  <2> SUFFICES ASSUME BaseInv, CompleteInv, NEW s \in Sessions, clean[s], pc[s] \notin SubscribePcs,
                      NEW m \in owed[s], ~OwnPayload(s, m)
               PROVE  m \in Elems(Feed(s)) \cup dropped[s]
    BY DEF ReplayComplete
  <2>1. m \in Fed(s) \cup dropped[s]
    <3>1. clean[s] = TRUE
      OBVIOUS
    <3> QED
      BY <3>1 DEF CompleteInv, Done
  <2>2. Elems(received[s]) \cup Elems(sendQ[s]) \subseteq Elems(Feed(s))
    <3> DEFINE Responses == 0 .. MaxMsgs
               q == sendQ[s]
               r == received[s]
    <3>1. received[s] \in Seq(FrameIds) /\ FrameIds \subseteq 0 .. MaxMsgs /\ q \in Seq(Responses)
      BY QueueElems DEF FrameIds, BaseInv, HistoryInv
    <3> HIDE DEF Responses, q
    <3>2. r \in Seq(Responses)
      BY <3>1, SeqMonotonic DEF Responses
    <3> HIDE DEF r
    <3>3. /\ Len(r) \in Nat /\ Len(q) \in Nat /\ Len(r \o q) = Len(r) + Len(q)
          /\ \A k \in 1 .. Len(r) + Len(q) : (r \o q)[k] = IF k <= Len(r) THEN r[k] ELSE q[k - Len(r)]
      BY <3>1, <3>2, ConcatProperties
    <3> DEFINE n == Len(r)
    <3>4. n \in Nat /\ n = Len(r)
      BY <3>3
    <3> HIDE DEF n
    <3>5. ASSUME NEW k \in 1 .. Len(r) PROVE r[k] \in Elems(r \o q)
      BY <3>3, <3>5 DEF Elems
    <3>6. ASSUME NEW k \in 1 .. Len(q) PROVE q[k] \in Elems(r \o q)
      <4>1. n + k \in 1 .. Len(r) + Len(q) /\ ~(n + k <= n) /\ (n + k) - n = k
        BY <3>3, <3>4
      <4>2. (r \o q)[n + k] = q[k]
        BY <3>3, <3>4, <4>1
      <4> QED
        BY <3>3, <4>1, <4>2 DEF Elems
    <3>7. Elems(r) \subseteq Elems(r \o q) /\ Elems(q) \subseteq Elems(r \o q)
      BY <3>5, <3>6 DEF Elems
    <3> QED
      BY <3>7 DEF Feed, q, r
  <2> QED
    BY <2>1, <2>2 DEF Fed
<1> QED
  BY InitKnown, StepKnown, InitComplete, StepComplete, <1>1, PTL DEF Spec
=============================================================================
