------------------------- MODULE ClientSessionProofs -------------------------
(***************************************************************************)
(* The safety of the relay client session, proved for every number of       *)
(* callers, streams, topics and calls and every capacity of the queue: the  *)
(* queue is delivered in order, a dead stream loses at most one request, a  *)
(* settled session is subscribed to its topic, and nothing happens after    *)
(* Close.                                                                   *)
(***************************************************************************)
EXTENDS ClientSession, FiniteSetTheorems, TLAPS

USE DEF session, chan, pumps, net, ghost, Threads, StreamIds

\* A goroutine that is inside Send, SendImmediate, SendToTopic or Subscribe.
Busy(t) == thread[t].pc # "idle"

\* Types: only the requests of calls are queued, and those have a number.
Numbered ==
    /\ \A t \in Threads : Busy(t) => thread[t].req.id \in 1 .. MaxCalls
    /\ \A k \in DOMAIN sendQ : sendQ[k].id \in 1 .. MaxCalls
    /\ \A n \in StreamIds : pump[n] = "send" => hand[n].id \in 1 .. MaxCalls

\* tunnelLoop works on the stream it opened.
OnStream == loop \in {"opened", "subscribe", "sent", "read", "callback"} => cur \in 1 .. opened

TypeInv == TypeOK /\ Numbered /\ OnStream
-----------------------------------------------------------------------------
(* Close. *)

ClosedAt    == {"swapped", "cancelled", "closedQ", "pumpsDone", "returned"}
CancelledAt == {"cancelled", "closedQ", "pumpsDone", "returned"}
QClosedAt   == {"closedQ", "pumpsDone", "returned"}

\* What each step of Close has left behind.
CloseInv ==
    /\ closed <=> closer \in ClosedAt
    /\ cancelled <=> closer \in CancelledAt
    /\ qClosed <=> closer \in QClosedAt
    /\ cancelled => up = {}
    /\ closer = "returned" => loop \in Idling
-----------------------------------------------------------------------------
(* The streams, one after the other, and their pumps. *)

\* Only the last stream can be live; a later one has neither pump nor requests; a
\* pump has lost nothing until it stops, and stops at the first request it loses.
OneStream(n) ==
    /\ n > opened => pump[n] = "off" /\ wire[n] = <<>>
    /\ pump[n] # "stopped" => lost[n] = {}
    /\ lost[n] = {} \/ \E x \in 1 .. MaxCalls : lost[n] = {x}

StreamInv ==
    /\ cur = opened
    /\ up \subseteq {cur}
    /\ loop \in Idling \cup {"backoff"} => up = {}
    /\ loop \in {"opened", "subscribe", "sent"} => pump[cur] = "off"
    /\ \A n \in StreamIds : OneStream(n)
-----------------------------------------------------------------------------
(* The order of the queue. *)

\* How many of the accepted requests have been taken out of the queue.
Taken == Len(accepted) - Len(sendQ)

\* A number is one call's: of a goroutine that has it in hand, or accepted once, or sent
\* directly.
IdInv ==
    /\ \A t \in Threads : Busy(t) => thread[t].req.id <= calls
    /\ \A t, u \in Threads :
          Busy(t) /\ Busy(u) /\ thread[t].req.id = thread[u].req.id => t = u
    /\ \A k \in DOMAIN accepted : accepted[k] <= calls
    /\ \A j, k \in DOMAIN accepted : accepted[j] = accepted[k] => j = k
    /\ \A t \in Threads : \A k \in DOMAIN accepted :
          Busy(t) => accepted[k] # thread[t].req.id
    /\ \A n \in StreamIds : \A i \in DOMAIN wire[n] : wire[n][i].id <= calls
    /\ \A t \in Threads, n \in StreamIds : \A i \in DOMAIN wire[n] :
          Busy(t) => wire[n][i].id # thread[t].req.id

\* The queue holds the last of the accepted requests; the pumps and the wires have others.
QueueInv ==
    /\ Len(sendQ) <= Len(accepted)
    /\ \A k \in DOMAIN sendQ : sendQ[k].id = accepted[Taken + k]
    /\ \A n \in StreamIds : pump[n] = "send" => \E k \in 1 .. Taken : hand[n].id = accepted[k]
    /\ \A n \in StreamIds : \A i \in DOMAIN wire[n], k \in DOMAIN accepted :
          wire[n][i].id = accepted[k] => k <= Taken

\* What the pump of the live stream holds was accepted after all that is on a wire.
HandInv ==
    \A m, n \in StreamIds : \A i \in DOMAIN wire[m], x, y \in DOMAIN accepted :
        /\ n \in up /\ pump[n] = "send"
        /\ wire[m][i].id = accepted[x]
        /\ hand[n].id = accepted[y]
        => x < y

OrderInv == IdInv /\ QueueInv /\ HandInv /\ QueueOrder
-----------------------------------------------------------------------------
(* The topic. *)

\* A valid SUBSCRIBE of the current topic.
Current(r) == r.sub /\ r.macOk /\ r.topic = topic

Subscribing == thread[Loop].pc \in {"check", "select"} /\ thread[Loop].req.sub

\* Subscriptions are made by the callback, with the topic it makes current.
SubscriberInv ==
    /\ \A t \in Threads \ {Loop} : Busy(t) => ~thread[t].req.sub
    /\ thread[Loop].pc \in {"build", "load", "direct"} => ~thread[Loop].req.sub
    /\ Subscribing => Current(thread[Loop].req)

NoSubQueued == \A k \in DOMAIN sendQ : ~sendQ[k].sub

LastSub(q) == \E i \in DOMAIN q : Current(q[i]) /\ \A j \in DOMAIN q : j > i => ~q[j].sub

\* A request that a pump holds for a dead stream will be lost.
NothingLost ==
    /\ \A n \in StreamIds : lost[n] = {}
    /\ \A n \in StreamIds : pump[n] = "send" => n \in up

\* The stream is live and has had its SUBSCRIBE.
OnWire == cur \in up /\ loop \in {"sent", "read", "callback"}

\* Of the requests on their way to the relay, the last subscription is to the current topic.
Listening ==
    /\ ~NoSubQueued => LastSub(sendQ)
    /\ NoSubQueued /\ OnWire =>
          IF pump[cur] = "send" /\ hand[cur].sub THEN Current(hand[cur]) ELSE LastSub(wire[cur])

TopicInv == ~closed /\ NothingLost /\ ~Subscribing => Listening
-----------------------------------------------------------------------------
(* Sequences of requests. *)

\* A stream that goes down keeps a prefix of its requests.
LEMMA Prefixes ==
    ASSUME NEW q \in Seq(Requests), NEW p \in Truncated(q)
    PROVE  /\ p \in Seq(Requests)
           /\ Len(p) <= Len(q)
           /\ \A i \in DOMAIN p : i \in DOMAIN q /\ p[i] = q[i]
<1> PICK k \in 0 .. Len(q) : p = SubSeq(q, 1, k)
  BY DEF Truncated
<1> QED
  OBVIOUS

LEMMA RequestTypes ==
    ASSUME TypeOK
    PROVE  /\ NoRequest \in Requests
           /\ FirstRequest \in Requests
           /\ \A n \in StreamIds, r \in Requests : Sent(n, r) \in Seq(Requests)
<1>1. NoRequest \in Requests /\ FirstRequest \in Requests
  BY TopicAssumption, BoundAssumption DEF TypeOK, Requests, NoRequest, FirstRequest
<1>2. ASSUME NEW n \in StreamIds, NEW r \in Requests PROVE Sent(n, r) \in Seq(Requests)
  <2>1. wire[n] \in Seq(Requests) BY DEF TypeOK
  <2> QED BY <2>1 DEF Sent
<1> QED BY <1>1, <1>2

ThreadState == [pc : ThreadPcs, req : Requests, direct : BOOLEAN, on : 0 .. MaxStreams]

\* A goroutine t goes on to pc with the request r.
LEMMA Goes ==
    ASSUME TypeOK, NEW t \in Threads, NEW pc \in ThreadPcs, NEW r \in Requests, At(t, pc, r)
    PROVE  /\ thread' \in [Threads -> ThreadState]
           /\ thread'[t].pc = pc /\ thread'[t].req = r /\ thread'[t].on = thread[t].on
           /\ \A u \in Threads \ {t} : thread'[u] = thread[u]
<1>1. thread \in [Threads -> ThreadState] BY DEF TypeOK, ThreadState
<1>2. thread[t] \in ThreadState BY <1>1
<1>3. thread'[t] = [[thread[t] EXCEPT !.pc = pc] EXCEPT !.req = r]
  BY <1>1, <1>2 DEF At, ThreadState
<1>4. thread'[t] \in ThreadState BY <1>2, <1>3 DEF ThreadState
<1>5. \A u \in Threads \ {t} : thread'[u] = thread[u] BY <1>1 DEF At
<1>6. thread' \in [Threads -> ThreadState]
  <2>1. \A u \in Threads : thread'[u] \in ThreadState BY <1>1, <1>4, <1>5
  <2>2. thread' = [u \in Threads |-> thread'[u]] BY <1>1 DEF At
  <2> QED BY <2>1, <2>2
<1>7. thread'[t].pc = pc /\ thread'[t].req = r /\ thread'[t].on = thread[t].on
  BY <1>2, <1>3 DEF ThreadState
<1> QED BY <1>5, <1>6, <1>7

LEMMA InitTypes == Init => TypeInv
<1> SUFFICES ASSUME Init PROVE TypeInv
  OBVIOUS
<1>1. NoRequest \in Requests
  BY TopicAssumption, BoundAssumption DEF Requests, NoRequest
<1>2. thread \in [Threads -> ThreadState] /\ \A t \in Threads : ~Busy(t)
  BY <1>1, BoundAssumption DEF Init, ThreadState, ThreadPcs, Busy
<1>3. /\ pump \in [StreamIds -> PumpPcs] /\ hand \in [StreamIds -> Requests]
      /\ wire \in [StreamIds -> Seq(Requests)]
      /\ lost \in [StreamIds -> SUBSET (1 .. MaxCalls)]
      /\ late \in [StreamIds -> SUBSET (1 .. MaxCalls)]
  BY <1>1 DEF Init, PumpPcs
<1>4. sendQ \in Seq(Requests) /\ Len(sendQ) <= QueueCap /\ accepted \in Seq(1 .. MaxCalls)
  BY SizeAssumption DEF Init
<1>5. TypeOK
  <2>1. /\ topic \in Topics /\ loop \in LoopPcs /\ closer \in CloserPcs
        /\ closed \in BOOLEAN /\ cancelled \in BOOLEAN /\ qClosed \in BOOLEAN /\ panicked \in BOOLEAN
    BY TopicAssumption DEF Init, LoopPcs, CloserPcs
  <2>2. /\ cur \in 0 .. opened /\ opened \in 0 .. MaxStreams /\ events \in 0 .. MaxEvents
        /\ calls \in 0 .. MaxCalls /\ stopped \subseteq 1 .. opened /\ up \subseteq 1 .. opened
    BY BoundAssumption DEF Init
  <2> QED BY <1>2, <1>3, <1>4, <2>1, <2>2 DEF TypeOK, ThreadState
<1>6. Numbered /\ OnStream BY <1>2 DEF Init, Numbered, OnStream
<1> QED BY <1>5, <1>6 DEF TypeInv

\* The calls: Send, SendImmediate, SendToTopic, SubscribeToNewTopicWithPayload.
LEMMA ThreadTypes ==
    ASSUME TypeInv, NEW t \in Threads,
           \/ BeginSend(t) \/ ThreadStep(t)
           \/ t = Loop /\ \E u \in Topics, sub \in BOOLEAN : CallWithTopic(u, sub)
    PROVE  TypeInv'
<1> USE DEF TypeInv
<1>0. /\ thread \in [Threads -> ThreadState] /\ thread[t] \in ThreadState
      /\ thread[t].req \in Requests /\ NoRequest \in Requests
      /\ Busy(t) => thread[t].req.id \in 1 .. MaxCalls
  BY RequestTypes DEF TypeOK, ThreadState, Numbered
<1>00. OnStream'
  BY DEF OnStream, BeginSend, ThreadStep, CallWithTopic, Build, CheckClosed, Select, LoadStream,
         DirectSent
<1>1. CASE BeginSend(t)
  <2> DEFINE r == [id |-> calls + 1, sub |-> FALSE, topic |-> topic, macOk |-> TRUE]
  <2>1. r \in Requests /\ r.id \in 1 .. MaxCalls
    BY <1>1, BoundAssumption DEF BeginSend, Call, TypeOK, Requests
  <2> HIDE DEF r
  <2>2. PICK direct \in BOOLEAN :
           thread' = [thread EXCEPT ![t] = [pc |-> "build", on |-> 0, direct |-> direct, req |-> r]]
    BY <1>1 DEF BeginSend, r
  <2>3. thread' \in [Threads -> ThreadState] /\ thread'[t].req = r
        /\ \A u \in Threads \ {t} : thread'[u] = thread[u]
    BY <1>0, <2>1, <2>2, BoundAssumption DEF ThreadState, ThreadPcs
  <2>4. TypeOK'
    BY <1>1, <2>3, BoundAssumption DEF BeginSend, Call, TypeOK, ThreadState
  <2>5. Numbered'
    BY <1>1, <2>1, <2>3 DEF BeginSend, Numbered, Busy
  <2> QED BY <1>00, <2>4, <2>5
<1>2. CASE \E u \in Topics, sub \in BOOLEAN : t = Loop /\ CallWithTopic(u, sub)
  <2> PICK u \in Topics, sub \in BOOLEAN : t = Loop /\ CallWithTopic(u, sub)
    BY <1>2
  <2> DEFINE r == [id |-> calls + 1, sub |-> sub, topic |-> u, macOk |-> TRUE]
  <2>1. r \in Requests /\ r.id \in 1 .. MaxCalls
    BY BoundAssumption DEF CallWithTopic, Call, TypeOK, Requests
  <2> HIDE DEF r
  <2>2. At(t, "check", r) BY DEF CallWithTopic, r
  <2>3. thread' \in [Threads -> ThreadState] /\ thread'[t].req = r
        /\ \A v \in Threads \ {t} : thread'[v] = thread[v]
    BY <2>1, <2>2, Goes DEF ThreadPcs
  <2>4. TypeOK'
    BY <2>3, BoundAssumption DEF CallWithTopic, Call, TypeOK, ThreadState
  <2>5. Numbered'
    BY <2>1, <2>3 DEF CallWithTopic, Numbered, Busy
  <2> QED BY <1>00, <2>4, <2>5
<1>3. CASE Build(t)
  <2> DEFINE r == [thread[t].req EXCEPT !.topic = topic, !.macOk = topic = thread[t].req.topic]
             pc2 == IF thread[t].direct THEN "load" ELSE "check"
  <2>1. r \in Requests /\ r.id = thread[t].req.id
    BY <1>0, TopicAssumption DEF TypeOK, Requests
  <2>0. pc2 \in ThreadPcs BY DEF ThreadPcs
  <2>2. At(t, pc2, r) /\ Busy(t) BY <1>3 DEF Build, ThreadAt, Busy
  <2> HIDE DEF r, pc2
  <2>3. thread' \in [Threads -> ThreadState] /\ thread'[t].req = r
        /\ \A v \in Threads \ {t} : thread'[v] = thread[v]
    BY ZenonT(60), <2>0, <2>1, <2>2, Goes
  <2>4. TypeOK' BY <1>3, <2>3 DEF Build, TypeOK, ThreadState
  <2>5. Numbered' BY <1>0, <1>3, <2>1, <2>2, <2>3 DEF Build, Numbered, Busy
  <2> QED BY <1>00, <2>4, <2>5
<1>4. CASE CheckClosed(t)
  <2> DEFINE pc2 == IF closed THEN "idle" ELSE "select"
  <2>0. pc2 \in ThreadPcs BY DEF ThreadPcs
  <2>1. At(t, pc2, thread[t].req) /\ Busy(t) BY <1>4 DEF CheckClosed, ThreadAt, Busy
  <2> HIDE DEF pc2
  <2>2. thread' \in [Threads -> ThreadState] /\ thread'[t].req = thread[t].req
        /\ \A v \in Threads \ {t} : thread'[v] = thread[v]
    BY <1>0, <2>0, <2>1, Goes
  <2>3. TypeOK' BY <1>4, <2>2 DEF CheckClosed, TypeOK, ThreadState
  <2>4. Numbered' BY <1>0, <1>4, <2>1, <2>2 DEF CheckClosed, Numbered, Busy
  <2> QED BY <1>00, <2>3, <2>4
<1>5. CASE Select(t)
  <2>1. At(t, "idle", NoRequest) /\ Busy(t) BY <1>5 DEF Select, ThreadAt, Busy
  <2>2. thread' \in [Threads -> ThreadState] /\ ~Busy(t)'
        /\ \A v \in Threads \ {t} : thread'[v] = thread[v]
    BY <1>0, <2>1, Goes DEF ThreadPcs, Busy
  <2>3. sendQ' \in Seq(Requests) /\ Len(sendQ') <= QueueCap
        /\ \A k \in DOMAIN sendQ' : sendQ'[k].id \in 1 .. MaxCalls
    <3>1. CASE HasRoom /\ sendQ' = Append(sendQ, thread[t].req)
      <4>1. sendQ \in Seq(Requests) /\ Len(sendQ) + 1 <= QueueCap
        BY <3>1, SizeAssumption DEF HasRoom, TypeOK
      <4>2. Len(sendQ') = Len(sendQ) + 1 /\ sendQ' \in Seq(Requests)
        BY <1>0, <3>1, <4>1
      <4>3. \A k \in DOMAIN sendQ' : sendQ'[k] = thread[t].req \/ (k \in DOMAIN sendQ /\ sendQ'[k] = sendQ[k])
        BY <1>0, <3>1, <4>1
      <4> QED BY <1>0, <2>1, <4>1, <4>2, <4>3 DEF Numbered
    <3>2. CASE sendQ' = sendQ BY <3>2 DEF TypeOK, Numbered
    <3> QED BY <1>5, <3>1, <3>2 DEF Select
  <2>4. accepted' \in Seq(1 .. MaxCalls) /\ late' \in [StreamIds -> SUBSET (1 .. MaxCalls)]
        /\ panicked' \in BOOLEAN
    <3>1. CASE /\ accepted' = Append(accepted, thread[t].req.id) /\ UNCHANGED panicked
               /\ late' = [n \in StreamIds |->
                     IF n \in stopped THEN late[n] \cup {thread[t].req.id} ELSE late[n]]
      <4>1. accepted' \in Seq(1 .. MaxCalls) BY <1>0, <2>1, <3>1 DEF TypeOK
      <4>2. late' \in [StreamIds -> SUBSET (1 .. MaxCalls)] BY <1>0, <2>1, <3>1 DEF TypeOK
      <4> QED BY <3>1, <4>1, <4>2 DEF TypeOK
    <3>2. CASE UNCHANGED <<accepted, late>> /\ panicked' \in BOOLEAN BY <3>2 DEF TypeOK
    <3> QED BY <1>5, <3>1, <3>2 DEF Select, TypeOK
  <2>5. TypeOK' BY <1>5, <2>2, <2>3, <2>4 DEF Select, TypeOK, ThreadState
  <2>6. Numbered' BY <1>5, <2>2, <2>3 DEF Select, Numbered, Busy
  <2> QED BY <1>00, <2>5, <2>6
<1>6. CASE LoadStream(t)
  <2>1. /\ thread' \in [Threads -> ThreadState] /\ thread'[t].req = thread[t].req
        /\ \A v \in Threads \ {t} : thread'[v] = thread[v]
    <3>1. cur \in 0 .. MaxStreams BY BoundAssumption DEF TypeOK
    <3>2. thread' = [thread EXCEPT ![t] =
             [[thread[t] EXCEPT !.pc = IF cur = 0 THEN "check" ELSE "direct"] EXCEPT !.on = cur]]
      BY <1>0, <1>6 DEF LoadStream
    <3> QED BY <1>0, <3>1, <3>2 DEF ThreadState, ThreadPcs
  <2>2. TypeOK' BY <1>6, <2>1 DEF LoadStream, TypeOK, ThreadState
  <2>3. Busy(t) BY <1>6 DEF LoadStream, ThreadAt, Busy
  <2>4. Numbered' BY <1>0, <1>6, <2>1, <2>3 DEF LoadStream, Numbered, Busy
  <2> QED BY <1>00, <2>2, <2>4
<1>7. CASE DirectSent(t)
  <2>1. At(t, "idle", NoRequest) BY <1>7 DEF DirectSent
  <2>2. thread' \in [Threads -> ThreadState] /\ ~Busy(t)'
        /\ \A v \in Threads \ {t} : thread'[v] = thread[v]
    BY <1>0, <2>1, Goes DEF ThreadPcs, Busy
  <2>3. wire' \in [StreamIds -> Seq(Requests)]
    BY <1>0, <1>7, RequestTypes DEF DirectSent, TypeOK
  <2>4. TypeOK' BY <1>7, <2>2, <2>3 DEF DirectSent, TypeOK, ThreadState
  <2>5. Numbered' BY <1>7, <2>2 DEF DirectSent, Numbered, Busy
  <2> QED BY <1>00, <2>4, <2>5
<1> QED BY <1>1, <1>2, <1>3, <1>4, <1>5, <1>6, <1>7 DEF ThreadStep

\* tunnelLoop, Close and the network.
LEMMA LoopTypes ==
    TypeInv /\ (Start \/ Receive \/ LoopStep \/ CloseSwap \/ CloserStep \/ Break) => TypeInv'
<1> SUFFICES ASSUME TypeInv, Start \/ Receive \/ LoopStep \/ CloseSwap \/ CloserStep \/ Break
             PROVE TypeInv'
  OBVIOUS
<1> USE BoundAssumption DEF TypeInv
<1>0. ASSUME UNCHANGED <<thread, chan, pump, hand>> PROVE Numbered'
  BY <1>0 DEF Numbered, Busy
<1>1. CASE Start
  <2>1. TypeOK' BY <1>1 DEF Start, TypeOK, LoopPcs
  <2>2. OnStream' BY <1>1 DEF Start, LoopAt, OnStream
  <2> QED BY <1>0, <1>1, <2>1, <2>2 DEF Start
<1>2. CASE Receive
  <2>1. TypeOK' BY <1>2 DEF Receive, TypeOK, LoopPcs
  <2>2. OnStream' BY <1>2 DEF Receive, LoopAt, OnStream
  <2> QED BY <1>0, <1>2, <2>1, <2>2 DEF Receive
<1>3. CASE Dial
  <2>1. \/ opened' = opened + 1 /\ opened < MaxStreams /\ up' = up \cup {opened + 1} /\ cur' = opened + 1
        \/ UNCHANGED <<opened, up, cur>>
    BY <1>3 DEF Dial
  <2>2. opened' \in 0 .. MaxStreams /\ cur' \in 0 .. opened' /\ up' \subseteq 1 .. opened'
        /\ stopped' \subseteq 1 .. opened'
    <3>1. opened \in 0 .. MaxStreams /\ cur \in 0 .. opened /\ up \subseteq 1 .. opened
          /\ stopped \subseteq 1 .. opened /\ stopped' = stopped
      BY <1>3 DEF Dial, TypeOK
    <3>2. CASE UNCHANGED <<opened, up, cur>> BY <3>1, <3>2
    <3>3. CASE /\ opened' = opened + 1 /\ opened < MaxStreams
               /\ up' = up \cup {opened + 1} /\ cur' = opened + 1
      <4>1. 1 .. opened \subseteq 1 .. opened + 1 /\ opened + 1 \in 1 .. opened + 1
        BY <3>1
      <4>2. opened' \in 0 .. MaxStreams /\ cur' \in 0 .. opened'
        BY <3>1, <3>3
      <4> QED BY <3>1, <3>3, <4>1, <4>2
    <3> QED BY <2>1, <3>2, <3>3
  <2>3. loop' \in LoopPcs /\ OnStream' BY <1>3 DEF Dial, LoopPcs, TypeOK, OnStream
  <2>4. TypeOK' BY <1>3, <2>2, <2>3 DEF Dial, TypeOK
  <2> QED BY <1>0, <1>3, <2>3, <2>4 DEF Dial
<1>4. CASE Subscribe
  <2>1. TypeOK' BY <1>4 DEF Subscribe, TypeOK, LoopPcs
  <2>2. OnStream' BY <1>4 DEF Subscribe, LoopAt, OnStream
  <2> QED BY <1>0, <1>4, <2>1, <2>2 DEF Subscribe
<1>5. CASE Subscribed
  <2>1. wire' \in [StreamIds -> Seq(Requests)]
    BY <1>5, RequestTypes DEF Subscribed, TypeOK
  <2>2. TypeOK' BY <1>5, <2>1 DEF Subscribed, TypeOK, LoopPcs
  <2>3. OnStream' BY <1>5 DEF Subscribed, LoopAt, OnStream
  <2> QED BY <1>0, <1>5, <2>2, <2>3 DEF Subscribed
<1>6. CASE StartPump
  <2>1. TypeOK' BY <1>6 DEF StartPump, TypeOK, LoopPcs, PumpPcs
  <2>2. pump' = [pump EXCEPT ![cur] = "run"] /\ UNCHANGED <<thread, sendQ, hand>>
    BY <1>6 DEF StartPump
  <2>3. Numbered' BY <2>2 DEF Numbered, Busy, TypeOK
  <2>4. OnStream' BY <1>6 DEF StartPump, LoopAt, OnStream
  <2> QED BY <2>1, <2>3, <2>4
<1>7. CASE CallbackReturns
  <2>1. TypeOK' BY <1>7 DEF CallbackReturns, TypeOK, LoopPcs
  <2>2. OnStream' BY <1>7 DEF CallbackReturns, LoopAt, OnStream
  <2> QED BY <1>0, <1>7, <2>1, <2>2 DEF CallbackReturns
<1>8. CASE RecvFails
  <2>1. cur \in 1 .. opened
    BY <1>8 DEF RecvFails, LoopAt, TypeOK, OnStream
  <2>2. TypeOK' BY <1>8, <2>1 DEF RecvFails, TypeOK, LoopPcs
  <2> QED BY <1>0, <1>8, <2>1, <2>2 DEF RecvFails, OnStream
<1>9. CASE BackoffOver
  <2>1. TypeOK' BY <1>9 DEF BackoffOver, TypeOK, LoopPcs
  <2>2. OnStream' BY <1>9 DEF BackoffOver, LoopAt, OnStream
  <2> QED BY <1>0, <1>9, <2>1, <2>2 DEF BackoffOver
<1>10. CASE CloseSwap
  <2>1. TypeOK' BY <1>10 DEF CloseSwap, CloseStep, TypeOK, CloserPcs
  <2> QED BY <1>0, <1>10, <2>1 DEF CloseSwap, OnStream
<1>11. CASE CloseCancel
  <2>1. wire' \in [StreamIds -> Seq(Requests)]
    <3>1. CASE cur \in up
      <4>1. cur \in StreamIds BY <3>1 DEF TypeOK
      <4>2. PICK q \in Truncated(wire[cur]) : wire' = [wire EXCEPT ![cur] = q]
        BY <1>11, <3>1 DEF CloseCancel
      <4>3. wire[cur] \in Seq(Requests) BY <4>1 DEF TypeOK
      <4>4. q \in Seq(Requests) BY <4>3, Prefixes
      <4> QED BY <4>2, <4>4 DEF TypeOK
    <3>2. CASE cur \notin up BY <1>11, <3>2 DEF CloseCancel, TypeOK
    <3> QED BY <3>1, <3>2
  <2>2. TypeOK'
    BY <1>11, <2>1 DEF CloseCancel, CloseStep, TypeOK, CloserPcs, SurvivingCancel
  <2>3. UNCHANGED <<thread, chan, pump, hand, loop, cur, opened>> BY <1>11 DEF CloseCancel
  <2> QED BY <1>0, <2>2, <2>3 DEF OnStream
<1>12. CASE CloseQueue
  <2>1. TypeOK' BY <1>12 DEF CloseQueue, CloseStep, TypeOK, CloserPcs
  <2>2. UNCHANGED <<thread, sendQ, pump, hand, loop, cur, opened>> BY <1>12 DEF CloseQueue
  <2> QED BY <2>1, <2>2 DEF Numbered, Busy, OnStream
<1>13. CASE CloseWaitPumps
  <2>1. TypeOK' BY <1>13 DEF CloseWaitPumps, CloseStep, TypeOK, CloserPcs
  <2> QED BY <1>0, <1>13, <2>1 DEF CloseWaitPumps, OnStream
<1>14. CASE CloseWaitLoop
  <2>1. TypeOK' BY <1>14 DEF CloseWaitLoop, CloseStep, TypeOK, CloserPcs
  <2> QED BY <1>0, <1>14, <2>1 DEF CloseWaitLoop, OnStream
<1>15. CASE Break
  <2>1. cur \in StreamIds BY <1>15 DEF Break, TypeOK
  <2>2. wire' \in [StreamIds -> Seq(Requests)] BY <1>15, <2>1, Prefixes DEF Break, TypeOK
  <2>3. TypeOK' BY <1>15, <2>2 DEF Break, TypeOK
  <2> QED BY <1>0, <1>15, <2>3 DEF Break, OnStream
<1>16. CASE Launch
  <2>1. TypeOK' BY <1>16 DEF Launch, TypeOK, LoopPcs
  <2>2. OnStream' BY <1>16 DEF Launch, LoopAt, OnStream
  <2> QED BY <1>0, <1>16, <2>1, <2>2 DEF Launch
<1>17. CASE SubscribeFails
  <2>1. TypeOK' BY <1>17 DEF SubscribeFails, TypeOK, LoopPcs
  <2>2. OnStream' BY <1>17 DEF SubscribeFails, LoopAt, OnStream
  <2> QED BY <1>0, <1>17, <2>1, <2>2 DEF SubscribeFails
<1> QED
  BY <1>1, <1>2, <1>3, <1>4, <1>5, <1>6, <1>7, <1>8, <1>9, <1>10, <1>11, <1>12, <1>13, <1>14,
     <1>15, <1>16, <1>17 DEF LoopStep, CloserStep

LEMMA PumpTypes == ASSUME TypeInv, NEW n \in StreamIds, PumpStep(n) PROVE TypeInv'
<1> USE BoundAssumption DEF TypeInv
<1>0. OnStream'
  BY DEF PumpStep, PumpTake, PumpSent, PumpStops, OnStream
<1>1. CASE PumpTake(n)
  <2>1. hand'[n] = sendQ[1] /\ sendQ' \in Seq(Requests) /\ Len(sendQ') <= QueueCap
        /\ sendQ[1] \in Requests /\ sendQ[1].id \in 1 .. MaxCalls
        /\ \A k \in DOMAIN sendQ' : k + 1 \in DOMAIN sendQ /\ sendQ'[k] = sendQ[k + 1]
    BY <1>1, SizeAssumption DEF PumpTake, NextRequest, TypeOK, Numbered
  <2>2. /\ hand' \in [StreamIds -> Requests] /\ pump' \in [StreamIds -> PumpPcs]
        /\ \A m \in StreamIds \ {n} : hand'[m] = hand[m] /\ pump'[m] = pump[m]
    BY <1>1, <2>1 DEF PumpTake, NextRequest, TypeOK, PumpPcs
  <2>3. TypeOK' BY <1>1, <2>1, <2>2 DEF PumpTake, TypeOK
  <2>4. Numbered'
    <3>1. \A u \in Threads : Busy(u)' => thread'[u].req.id \in 1 .. MaxCalls
      BY <1>1 DEF PumpTake, Numbered, Busy
    <3>2. \A k \in DOMAIN sendQ' : sendQ'[k].id \in 1 .. MaxCalls
      BY <2>1 DEF Numbered
    <3>3. \A m \in StreamIds : pump'[m] = "send" => hand'[m].id \in 1 .. MaxCalls
      BY <2>1, <2>2 DEF Numbered
    <3> QED BY <3>1, <3>2, <3>3 DEF Numbered, Busy
  <2> QED BY <1>0, <2>3, <2>4
<1>2. CASE PumpSent(n)
  <2>1. wire' \in [StreamIds -> Seq(Requests)] /\ hand' \in [StreamIds -> Requests]
    BY <1>2, RequestTypes DEF PumpSent, TypeOK
  <2>2. pump' \in [StreamIds -> PumpPcs] /\ lost' \in [StreamIds -> SUBSET (1 .. MaxCalls)]
    BY <1>2 DEF PumpSent, PumpAt, AfterSend, TypeOK, PumpPcs, Numbered
  <2>3. TypeOK' BY <1>2, <2>1, <2>2 DEF PumpSent, TypeOK
  <2>4. Numbered'
    <3>1. /\ UNCHANGED <<thread, sendQ>> /\ pump'[n] # "send"
          /\ \A m \in StreamIds \ {n} : hand'[m] = hand[m] /\ pump'[m] = pump[m]
      BY <1>2 DEF PumpSent, AfterSend, TypeOK
    <3> QED BY <3>1 DEF Numbered, Busy
  <2> QED BY <1>0, <2>3, <2>4
<1>3. CASE PumpStops(n)
  <2>1. TypeOK' BY <1>3 DEF PumpStops, TypeOK, PumpPcs
  <2>2. pump' = [pump EXCEPT ![n] = "stopped"] /\ UNCHANGED <<thread, sendQ, hand>>
    BY <1>3 DEF PumpStops
  <2>3. Numbered' BY <2>2 DEF Numbered, Busy, TypeOK
  <2> QED BY <1>0, <2>1, <2>3
<1> QED BY <1>1, <1>2, <1>3 DEF PumpStep

LEMMA StepTypes == TypeInv /\ [Next]_vars => TypeInv'
<1>1. TypeInv /\ UNCHANGED vars => TypeInv'
  BY DEF vars, TypeInv, TypeOK, Numbered, Busy, OnStream
<1> QED
  BY <1>1, ThreadTypes, LoopTypes, PumpTypes DEF Next

LEMMA Typing == Spec => []TypeInv
BY InitTypes, StepTypes, PTL DEF Spec

\* session.go: every field of the session, and every request in the queue, in a pump's hand
\* or on a stream, has its type, and the queue never exceeds its capacity.
THEOREM SessionTypes == Spec => []TypeOK
<1>1. TypeInv => TypeOK BY DEF TypeInv
<1> QED BY <1>1, Typing, PTL
-----------------------------------------------------------------------------
(* After Close. *)

\* What every step but those of Close leaves alone.
CloseFrame ==
    /\ UNCHANGED <<closer, closed, cancelled, qClosed>>
    /\ cancelled => up' \subseteq up
    /\ cancelled /\ closed /\ loop \in Idling => loop' \in Idling /\ opened' = opened
    /\ up = {} => wire' = wire

\* A request sent on a dead stream changes no wire.
LEMMA DeadSent ==
    ASSUME TypeInv, NEW n, NEW r, n \notin up PROVE [wire EXCEPT ![n] = Sent(n, r)] = wire
BY DEF TypeInv, TypeOK, Sent

LEMMA CloseSteps ==
    ASSUME TypeInv, [Next]_vars PROVE CloseSwap \/ CloserStep \/ CloseFrame
<1> USE DEF CloseFrame, Idling
<1>1. ASSUME NEW t \in Threads, BeginSend(t) \/ ThreadStep(t) PROVE CloseFrame
  <2>1. CASE DirectSent(t) BY <2>1, DeadSent DEF DirectSent
  <2> QED BY <1>1, <2>1 DEF ThreadStep, BeginSend, Build, CheckClosed, Select, LoadStream
<1>2. ASSUME NEW u \in Topics, NEW sub \in BOOLEAN, CallWithTopic(u, sub) PROVE CloseFrame
  BY <1>2 DEF CallWithTopic
<1>3. CASE Start BY <1>3 DEF Start
<1>4. CASE Receive BY <1>4 DEF Receive, LoopAt
<1>5. CASE LoopStep
  <2>1. CASE Subscribed BY <2>1, DeadSent DEF Subscribed, LoopAt
  <2>2. CASE Dial BY <2>2 DEF Dial, LoopAt
  <2> QED BY <1>5, <2>1, <2>2 DEF LoopStep, Launch, SubscribeFails, Subscribe, StartPump,
                                  CallbackReturns, RecvFails, BackoffOver, LoopAt
<1>6. ASSUME NEW n \in StreamIds, PumpStep(n) PROVE CloseFrame
  <2>1. CASE PumpSent(n) BY <2>1, DeadSent DEF PumpSent
  <2> QED BY <1>6, <2>1 DEF PumpStep, PumpTake, PumpStops
<1>7. CASE Break BY <1>7 DEF Break
<1>8. CASE UNCHANGED vars BY <1>8 DEF vars
<1> QED BY <1>1, <1>2, <1>3, <1>4, <1>5, <1>6, <1>7, <1>8 DEF Next

LEMMA InitClose == Init => CloseInv
BY DEF Init, CloseInv, ClosedAt, CancelledAt, QClosedAt, Idling

LEMMA StepClose == TypeInv /\ CloseInv /\ [Next]_vars => CloseInv'
<1> SUFFICES ASSUME TypeInv, CloseInv, [Next]_vars PROVE CloseInv'
  OBVIOUS
<1> USE DEF CloseInv, ClosedAt, CancelledAt, QClosedAt
<1>0. closed \in BOOLEAN /\ cancelled \in BOOLEAN /\ qClosed \in BOOLEAN
  BY DEF TypeInv, TypeOK
<1>1. CASE CloseSwap BY <1>0, <1>1 DEF CloseSwap, CloseStep
<1>2. CASE CloseCancel BY <1>0, <1>2 DEF CloseCancel, CloseStep, SurvivingCancel
<1>3. CASE CloseQueue BY <1>0, <1>3 DEF CloseQueue, CloseStep
<1>4. CASE CloseWaitPumps BY <1>0, <1>4 DEF CloseWaitPumps, CloseStep
<1>5. CASE CloseWaitLoop BY <1>0, <1>5 DEF CloseWaitLoop, CloseStep, LoopDone, Idling
<1>6. CASE CloseFrame
  <2>1. UNCHANGED <<closer, closed, cancelled, qClosed>> BY <1>6 DEF CloseFrame
  <2>2. cancelled => up' = {} BY <1>6 DEF CloseFrame
  <2>3. closer = "returned" => loop' \in Idling BY <1>6 DEF CloseFrame
  <2> QED BY <2>1, <2>2, <2>3
<1> QED BY <1>1, <1>2, <1>3, <1>4, <1>5, <1>6, CloseSteps DEF CloserStep

LEMMA Closing == Spec => []CloseInv
<1>1. TypeInv /\ TypeInv' /\ CloseInv /\ [Next]_vars => CloseInv'
  BY StepClose
<1> QED BY InitClose, <1>1, Typing, PTL DEF Spec

\* session.go:180, Close: for any number of callers, streams and pumps, after Close has
\* returned no callback runs or starts, no stream is opened and the relay gets nothing from
\* the session, though Start may launch the receive loop only then.
THEOREM NothingAfterClose == Spec => CloseQuiet
<1>1. ASSUME TypeInv, CloseInv, [Next]_vars, closer = "returned"
      PROVE  {loop, loop'} \subseteq Idling /\ opened' = opened /\ wire' = wire
  <2>1. closed /\ cancelled /\ up = {} /\ loop \in Idling
    BY <1>1 DEF CloseInv, ClosedAt, CancelledAt
  <2>2. ~CloseSwap /\ ~CloserStep
    BY <1>1 DEF CloseSwap, CloserStep, CloseCancel, CloseQueue, CloseWaitPumps, CloseWaitLoop,
                CloseStep
  <2> QED BY <1>1, <2>1, <2>2, CloseSteps DEF CloseFrame
<1>2. TypeInv /\ CloseInv /\ [Next]_vars
        => [closer = "returned" => /\ {loop, loop'} \subseteq Idling
                                   /\ opened' = opened /\ wire' = wire]_vars
  BY <1>1
<1> QED BY <1>2, Typing, Closing, PTL DEF Spec, CloseQuiet
-----------------------------------------------------------------------------
(* The streams. *)

LEMMA InitStreams == Init => StreamInv
BY BoundAssumption DEF Init, StreamInv, OneStream, Idling

\* What the steps of goroutines that neither open nor break a stream leave alone.
StreamFrame ==
    /\ UNCHANGED <<cur, opened, loop, up, pump, lost>>
    /\ wire' = wire \/ \E n \in up : \A m \in StreamIds \ {n} : wire'[m] = wire[m]

LEMMA StepStreams == TypeInv /\ StreamInv /\ [Next]_vars => StreamInv'
<1> SUFFICES ASSUME TypeInv, StreamInv, [Next]_vars PROVE StreamInv'
  OBVIOUS
<1> USE BoundAssumption DEF StreamInv, OneStream, Idling
<1>0. /\ cur \in 0 .. MaxStreams /\ opened \in 0 .. MaxStreams /\ up \subseteq 1 .. opened
      /\ pump \in [StreamIds -> PumpPcs]
      /\ wire \in [StreamIds -> Seq(Requests)]
      /\ lost \in [StreamIds -> SUBSET (1 .. MaxCalls)]
  BY DEF TypeInv, TypeOK
<1>1. CASE StreamFrame
  <2>1. \A n \in StreamIds : n > opened => wire'[n] = wire[n]
    BY <1>0, <1>1 DEF StreamFrame
  <2> QED BY <1>1, <2>1 DEF StreamFrame
<1>2. ASSUME NEW t \in Threads, BeginSend(t) \/ ThreadStep(t) PROVE StreamFrame
  <2>1. CASE DirectSent(t)
    <3>1. CASE thread[t].on \in up BY <1>0, <2>1, <3>1 DEF DirectSent, StreamFrame
    <3>2. CASE thread[t].on \notin up BY <2>1, <3>2, DeadSent DEF DirectSent, StreamFrame
    <3> QED BY <3>1, <3>2
  <2> QED BY <1>2, <2>1 DEF ThreadStep, BeginSend, Build, CheckClosed, Select, LoadStream,
                            StreamFrame
<1>3. ASSUME NEW u \in Topics, NEW sub \in BOOLEAN, CallWithTopic(u, sub) PROVE StreamFrame
  BY <1>3 DEF CallWithTopic, StreamFrame
<1>4. CASE Start BY <1>4 DEF Start, LoopAt
<1>5. CASE Receive BY <1>5 DEF Receive, LoopAt
<1>6. CASE Dial
  <2>1. CASE UNCHANGED <<opened, up, cur>> BY <1>6, <2>1 DEF Dial, LoopAt
  <2>2. CASE ~UNCHANGED <<opened, up, cur>>
    <3>1. /\ opened' = opened + 1 /\ opened < MaxStreams /\ up' = {opened + 1}
          /\ cur' = opened + 1 /\ loop' = "opened" /\ UNCHANGED <<pump, wire, lost>>
      BY <1>6, <2>2 DEF Dial, LoopAt
    <3>2. opened + 1 \in StreamIds /\ opened + 1 > opened BY <1>0, <3>1
    <3>3. pump[opened + 1] = "off" BY <3>2
    <3>4. \A n \in StreamIds : n > opened' => n > opened BY <1>0, <3>1
    <3> QED BY <3>1, <3>3, <3>4
  <2> QED BY <2>1, <2>2
<1>7. CASE Subscribe BY <1>7 DEF Subscribe, LoopAt
<1>8. CASE Subscribed
  <2>1. \A n \in StreamIds : n > opened => wire'[n] = wire[n]
    BY <1>0, <1>8 DEF Subscribed
  <2> QED BY <1>0, <1>8, <2>1 DEF Subscribed, LoopAt
<1>9. CASE StartPump
  <2>1. cur \in StreamIds BY <1>9 DEF StartPump, LoopAt, TypeInv, TypeOK, OnStream
  <2>2. pump[cur] = "off" /\ lost[cur] = {} BY <1>9, <2>1 DEF StartPump, LoopAt
  <2>3. \A n \in StreamIds : n > opened \/ pump'[n] # "stopped" => n > opened \/ pump[n] # "stopped"
    BY <1>0, <1>9, <2>1, <2>2 DEF StartPump
  <2>4. \A n \in StreamIds : n # cur => pump'[n] = pump[n] BY <1>0, <1>9 DEF StartPump
  <2>5. loop' = "read" /\ UNCHANGED <<cur, opened, up, wire, lost>> BY <1>9 DEF StartPump
  <2>6. ASSUME NEW n \in StreamIds PROVE OneStream(n)'
    <3>1. CASE n = cur
      <4>1. n <= opened' /\ lost'[n] = {} BY <1>0, <2>2, <2>5, <3>1
      <4> QED BY <4>1, <2>5, <1>0
    <3>2. CASE n # cur BY <2>4, <2>5, <3>2
    <3> QED BY <3>1, <3>2
  <2> HIDE DEF OneStream
  <2> QED BY <2>5, <2>6
<1>10. CASE CallbackReturns BY <1>10 DEF CallbackReturns, LoopAt
<1>11. CASE RecvFails BY <1>11 DEF RecvFails, LoopAt
<1>12. CASE BackoffOver BY <1>12 DEF BackoffOver, LoopAt
<1>13. ASSUME NEW n \in StreamIds, PumpStep(n) PROVE StreamInv'
  <2>0. pump[n] \in {"run", "send"} /\ n <= opened /\ lost[n] = {}
    <3>1. pump[n] \in {"run", "send"}
      BY <1>13 DEF PumpStep, PumpTake, PumpSent, PumpStops, PumpAt
    <3>2. ~(n > opened) /\ lost[n] = {} BY <3>1
    <3> QED BY <1>0, <3>1, <3>2
  <2>1. UNCHANGED <<cur, opened, loop, up>>
    BY <1>13 DEF PumpStep, PumpTake, PumpSent, PumpStops
  <2>2. \A m \in StreamIds \ {n} :
          pump'[m] = pump[m] /\ wire'[m] = wire[m] /\ lost'[m] = lost[m]
    BY <1>0, <1>13 DEF PumpStep, PumpTake, PumpSent, PumpStops
  <2>3. loop \in {"opened", "subscribe", "sent"} => cur # n BY <2>0
  <2>7. loop \in {"opened", "subscribe", "sent"} => cur \in StreamIds
    BY <1>0 DEF TypeInv, OnStream
  <2>4. /\ pump'[n] # "stopped" => lost'[n] = {}
        /\ lost'[n] = {} \/ \E x \in 1 .. MaxCalls : lost'[n] = {x}
    <3>1. CASE PumpTake(n) \/ PumpStops(n) BY <2>0, <3>1 DEF PumpTake, PumpStops
    <3>2. CASE PumpSent(n)
      <4>1. hand[n].id \in 1 .. MaxCalls BY <3>2 DEF PumpSent, PumpAt, TypeInv, Numbered
      <4>2. lost'[n] = IF n \in up THEN {} ELSE {hand[n].id}
        BY <1>0, <2>0, <3>2 DEF PumpSent
      <4>3. pump'[n] = AfterSend(n) BY <1>0, <3>2 DEF PumpSent
      <4> QED BY <4>1, <4>2, <4>3 DEF AfterSend
    <3> QED BY <1>13, <3>1, <3>2 DEF PumpStep
  <2>5. ~(n > opened) BY <1>0, <2>0
  <2>6. loop \in {"opened", "subscribe", "sent"} => pump'[cur] = "off"
    BY <2>2, <2>3, <2>7
  <2>8. OneStream(n)' BY <2>1, <2>4, <2>5
  <2>9. \A m \in StreamIds \ {n} : OneStream(m)' BY <2>1, <2>2
  <2> HIDE DEF OneStream
  <2> QED BY <2>1, <2>6, <2>8, <2>9
<1>14. CASE CloseSwap BY <1>14 DEF CloseSwap
<1>15. CASE CloserStep
  <2>1. CASE CloseCancel
    <3>1. /\ UNCHANGED <<cur, opened, loop, pump, lost>> /\ up' = {}
      BY <2>1 DEF CloseCancel, SurvivingCancel
    <3>2. \A n \in StreamIds : n # cur => wire'[n] = wire[n] BY <1>0, <2>1 DEF CloseCancel
    <3>3. \A n \in StreamIds : OneStream(n)'
      BY SMTT(30), <1>0, <3>1, <3>2
    <3> HIDE DEF OneStream
    <3> QED BY <3>1, <3>3
  <2> QED BY <1>15, <2>1 DEF CloserStep, CloseQueue, CloseWaitPumps, CloseWaitLoop
<1>16. CASE Break
  <2>1. \A n \in StreamIds : n # cur => wire'[n] = wire[n] BY <1>0, <1>16 DEF Break
  <2>2. up' = {} /\ UNCHANGED <<cur, opened, loop, pump, lost>> BY <1>16 DEF Break
  <2>3. ASSUME NEW n \in StreamIds PROVE OneStream(n)'
    <3>0. n > opened => n # cur BY <1>0
    <3>1. n > opened => wire'[n] = wire[n] BY <2>1, <3>0
    <3> QED BY <2>2, <3>1
  <2> HIDE DEF OneStream
  <2> QED BY <2>2, <2>3
<1>17. CASE UNCHANGED vars BY <1>17 DEF vars
<1>18. CASE Launch BY <1>18 DEF Launch, LoopAt
<1>19. CASE SubscribeFails
  <2>1. up' = {} /\ UNCHANGED <<cur, opened, pump, wire, lost>> /\ loop' \in {"ended", "backoff"}
    BY <1>19 DEF SubscribeFails
  <2> QED BY <2>1
<1> QED
  BY <1>1, <1>2, <1>3, <1>4, <1>5, <1>6, <1>7, <1>8, <1>9, <1>10, <1>11, <1>12, <1>13, <1>14,
     <1>15, <1>16, <1>17, <1>18, <1>19 DEF Next, LoopStep

LEMMA Streaming == Spec => []StreamInv
<1>1. TypeInv /\ TypeInv' /\ StreamInv /\ [Next]_vars => StreamInv'
  BY StepStreams
<1> QED BY InitStreams, <1>1, Typing, PTL DEF Spec

\* session.go:349, writerPump's error return: for any length of the queue and any number of
\* reconnections, a dead stream costs at most one of the requests the session accepted.
THEOREM OneRequestLost == Spec => []OneLostPerStream
<1>1. StreamInv => OneLostPerStream
  <2> SUFFICES ASSUME StreamInv, NEW n \in StreamIds PROVE Cardinality(lost[n]) <= 1
    BY DEF OneLostPerStream
  <2>1. CASE lost[n] = {}
    <3>1. Cardinality(lost[n]) = 0 BY <2>1, FS_EmptySet
    <3> QED BY <3>1
  <2>2. ASSUME NEW x, lost[n] = {x} PROVE Cardinality(lost[n]) <= 1
    <3>1. Cardinality(lost[n]) = 1 BY <2>2, FS_Singleton
    <3> QED BY <3>1
  <2> QED BY <2>1, <2>2 DEF StreamInv, OneStream
<1> QED BY <1>1, Streaming, PTL
-----------------------------------------------------------------------------
(* The order of the queue. *)

\* What is on a wire was there, or is the SUBSCRIBE of tunnelLoop.
NoNewRequest ==
    \A n \in StreamIds : \A i \in DOMAIN wire'[n] :
        wire'[n][i].id = 0 \/ (i \in DOMAIN wire[n] /\ wire'[n][i] = wire[n][i])

\* What every step leaves alone but those that begin a call or move a request.
OrderFrame ==
    /\ UNCHANGED <<accepted, sendQ, calls>>
    /\ \A t \in Threads : Busy(t)' => Busy(t) /\ thread'[t].req.id = thread[t].req.id
    /\ \A n \in StreamIds :
          pump'[n] = "send" => pump[n] = "send" /\ hand'[n] = hand[n] /\ (n \in up' => n \in up)
    /\ NoNewRequest

\* The requests that are in the system, one by one.
LEMMA Entries ==
    ASSUME TypeInv
    PROVE  /\ accepted \in Seq(1 .. MaxCalls) /\ Len(accepted) \in Nat
           /\ DOMAIN accepted = 1 .. Len(accepted)
           /\ \A k \in DOMAIN accepted : accepted[k] \in Nat /\ accepted[k] # 0
           /\ \A t \in Threads : thread[t].req \in Requests /\ thread[t].req.id \in Nat
           /\ \A n \in StreamIds : wire[n] \in Seq(Requests)
           /\ \A n \in StreamIds : \A i \in DOMAIN wire[n] : wire[n][i].id \in Nat
<1>1. accepted \in Seq(1 .. MaxCalls) BY DEF TypeInv, TypeOK
<1>2. Len(accepted) \in Nat /\ DOMAIN accepted = 1 .. Len(accepted) BY <1>1
<1>3. ASSUME NEW k \in DOMAIN accepted PROVE accepted[k] \in Nat /\ accepted[k] # 0
  <2> DEFINE Ids == 1 .. MaxCalls
  <2>1. accepted \in Seq(Ids) BY <1>1
  <2> HIDE DEF Ids
  <2>2. accepted[k] \in Ids BY <1>2, <2>1
  <2> QED BY <2>2, BoundAssumption DEF Ids
<1>4. \A r \in Requests : r.id \in Nat
  BY BoundAssumption DEF Requests
<1>5. \A t \in Threads : thread[t].req \in Requests
  BY DEF TypeInv, TypeOK
<1>6. ASSUME NEW n \in StreamIds
      PROVE  wire[n] \in Seq(Requests) /\ \A i \in DOMAIN wire[n] : wire[n][i] \in Requests
  <2>1. wire[n] \in Seq(Requests) BY DEF TypeInv, TypeOK
  <2> QED BY <2>1
<1> QED BY <1>1, <1>2, <1>3, <1>4, <1>5, <1>6

LEMMA QuietOrder == TypeInv /\ OrderInv /\ OrderFrame => OrderInv'
<1> SUFFICES ASSUME TypeInv, OrderInv, OrderFrame PROVE OrderInv'
  OBVIOUS
<1>0. /\ accepted \in Seq(1 .. MaxCalls) /\ sendQ \in Seq(Requests) /\ calls \in Nat
      /\ \A t \in Threads : Busy(t) => thread[t].req.id \in 1 .. MaxCalls
  BY BoundAssumption DEF TypeInv, TypeOK, Numbered
<1>1. \A k \in DOMAIN accepted : accepted[k] # 0
  BY Entries
<1>2. IdInv'
  <2>1. \A t \in Threads : Busy(t)' => thread'[t].req.id <= calls'
    BY DEF OrderFrame, OrderInv, IdInv
  <2>2. \A t, u \in Threads :
          Busy(t)' /\ Busy(u)' /\ thread'[t].req.id = thread'[u].req.id => t = u
    BY DEF OrderFrame, OrderInv, IdInv
  <2>3. \A t \in Threads : \A k \in DOMAIN accepted' :
          Busy(t)' => accepted'[k] # thread'[t].req.id
    BY DEF OrderFrame, OrderInv, IdInv
  <2>4. \A n \in StreamIds : \A i \in DOMAIN wire'[n] : wire'[n][i].id <= calls'
    BY <1>0 DEF OrderFrame, NoNewRequest, OrderInv, IdInv
  <2>5. \A t \in Threads, n \in StreamIds : \A i \in DOMAIN wire'[n] :
          Busy(t)' => wire'[n][i].id # thread'[t].req.id
    <3> SUFFICES ASSUME NEW t \in Threads, NEW n \in StreamIds, NEW i \in DOMAIN wire'[n], Busy(t)'
                 PROVE  wire'[n][i].id # thread'[t].req.id
      OBVIOUS
    <3>1. Busy(t) /\ thread'[t].req.id = thread[t].req.id /\ thread[t].req.id # 0
      BY <1>0 DEF OrderFrame
    <3>2. wire'[n][i].id = 0 \/ (i \in DOMAIN wire[n] /\ wire'[n][i] = wire[n][i])
      BY DEF OrderFrame, NoNewRequest
    <3> QED BY <3>1, <3>2 DEF OrderInv, IdInv
  <2> QED BY <2>1, <2>2, <2>3, <2>4, <2>5 DEF OrderFrame, OrderInv, IdInv
<1>3. QueueInv'
  <2>1. Taken' = Taken BY DEF OrderFrame, Taken
  <2>2. \A n \in StreamIds : \A i \in DOMAIN wire'[n], k \in DOMAIN accepted' :
          wire'[n][i].id = accepted'[k] => k <= Taken'
    BY <1>1, <2>1 DEF OrderFrame, NoNewRequest, OrderInv, QueueInv
  <2>3. \A n \in StreamIds :
          pump'[n] = "send" => \E k \in 1 .. Taken' : hand'[n].id = accepted'[k]
    BY <2>1 DEF OrderFrame, OrderInv, QueueInv
  <2> QED BY <2>1, <2>2, <2>3 DEF OrderFrame, OrderInv, QueueInv
<1>4. HandInv'
  BY <1>1 DEF OrderFrame, NoNewRequest, OrderInv, HandInv
<1>5. QueueOrder'
  BY <1>1 DEF OrderFrame, NoNewRequest, OrderInv, QueueOrder
<1> QED BY <1>2, <1>3, <1>4, <1>5 DEF OrderInv

\* A call takes a number no call had.
LEMMA BeginOrder ==
    ASSUME TypeInv, OrderInv, NEW t \in Threads, calls' = calls + 1,
           thread'[t].req.id = calls + 1,
           \A u \in Threads \ {t} : thread'[u] = thread[u],
           UNCHANGED <<accepted, sendQ, pump, hand, wire, up>>
    PROVE  OrderInv'
<1>0. calls \in Nat
  BY BoundAssumption DEF TypeInv, TypeOK
<1>1. /\ \A k \in DOMAIN accepted : accepted[k] \in Nat
      /\ \A u \in Threads : thread[u].req.id \in Nat
      /\ \A n \in StreamIds : \A i \in DOMAIN wire[n] : wire[n][i].id \in Nat
  BY Entries
<1>2. IdInv'
  <2>1. \A u \in Threads : Busy(u)' => thread'[u].req.id <= calls'
    <3> SUFFICES ASSUME NEW u \in Threads, Busy(u)' PROVE thread'[u].req.id <= calls'
      OBVIOUS
    <3>1. CASE u = t BY <1>0, <3>1
    <3>2. CASE u # t
      <4>1. thread'[u].req.id = thread[u].req.id /\ thread[u].req.id <= calls
        BY <3>2 DEF OrderInv, IdInv, Busy
      <4> QED BY <1>0, <1>1, <4>1
    <3> QED BY <3>1, <3>2
  <2>2. \A u \in Threads \ {t} : Busy(u)' => thread'[u].req.id # thread'[t].req.id
    BY <1>0, <1>1 DEF OrderInv, IdInv, Busy
  <2>3. \A u, v \in Threads :
          Busy(u)' /\ Busy(v)' /\ thread'[u].req.id = thread'[v].req.id => u = v
    BY <2>2 DEF OrderInv, IdInv, Busy
  <2>4. \A k \in DOMAIN accepted : accepted[k] <= calls' /\ accepted[k] # calls + 1
    BY <1>0, <1>1 DEF OrderInv, IdInv
  <2>5. \A u \in Threads : \A k \in DOMAIN accepted :
          Busy(u)' => accepted[k] # thread'[u].req.id
    BY <2>4 DEF OrderInv, IdInv, Busy
  <2>6. \A n \in StreamIds : \A i \in DOMAIN wire[n] :
          wire[n][i].id <= calls' /\ wire[n][i].id # calls + 1
    BY <1>0, <1>1 DEF OrderInv, IdInv
  <2>7. \A u \in Threads, n \in StreamIds : \A i \in DOMAIN wire[n] :
          Busy(u)' => wire[n][i].id # thread'[u].req.id
    BY <2>6 DEF OrderInv, IdInv, Busy
  <2> QED BY <2>1, <2>3, <2>4, <2>5, <2>6, <2>7 DEF OrderInv, IdInv
<1>3. QueueInv' BY DEF OrderInv, QueueInv, Taken
<1>4. HandInv' BY DEF OrderInv, HandInv
<1>5. QueueOrder' BY DEF OrderInv, QueueOrder
<1> QED BY <1>2, <1>3, <1>4, <1>5 DEF OrderInv

\* enqueue puts the request at both ends.
LEMMA AcceptOrder ==
    ASSUME TypeInv, OrderInv, NEW t \in Threads, Busy(t), ~Busy(t)',
           sendQ' = Append(sendQ, thread[t].req),
           accepted' = Append(accepted, thread[t].req.id),
           \A u \in Threads \ {t} : thread'[u] = thread[u],
           UNCHANGED <<calls, pump, hand, wire, up>>
    PROVE  OrderInv'
<1> DEFINE r == thread[t].req
<1>0. /\ accepted \in Seq(1 .. MaxCalls) /\ sendQ \in Seq(Requests)
      /\ r \in Requests /\ r.id \in 1 .. MaxCalls
  BY DEF TypeInv, TypeOK, Numbered
<1> HIDE DEF r
<1>1. /\ DOMAIN accepted' = 1 .. Len(accepted) + 1 /\ Len(accepted') = Len(accepted) + 1
      /\ accepted'[Len(accepted) + 1] = r.id
      /\ \A k \in DOMAIN accepted : accepted'[k] = accepted[k]
      /\ Len(accepted) \in Nat /\ DOMAIN accepted = 1 .. Len(accepted)
  BY <1>0 DEF r
<1>2. /\ DOMAIN sendQ' = 1 .. Len(sendQ) + 1 /\ Len(sendQ') = Len(sendQ) + 1
      /\ sendQ'[Len(sendQ) + 1] = r
      /\ \A k \in DOMAIN sendQ : sendQ'[k] = sendQ[k]
      /\ Len(sendQ) \in Nat /\ DOMAIN sendQ = 1 .. Len(sendQ)
  BY <1>0 DEF r
<1>3. Taken' = Taken /\ Taken \in Nat /\ Taken <= Len(accepted) /\ Len(sendQ) <= Len(accepted)
  BY <1>1, <1>2 DEF Taken, OrderInv, QueueInv
<1>4. \A k \in DOMAIN accepted' : k \in DOMAIN accepted \/ k = Len(accepted) + 1
  BY <1>1
<1>5. \A k \in DOMAIN accepted : accepted[k] # r.id
  BY DEF OrderInv, IdInv, r
<1>6. \A n \in StreamIds : \A i \in DOMAIN wire[n] : wire[n][i].id # r.id
  BY DEF OrderInv, IdInv, r
<1>7. \A u \in Threads : Busy(u)' => u # t /\ Busy(u) /\ thread'[u] = thread[u]
  BY DEF Busy
<1>8. IdInv'
  <2>1. \A j, k \in DOMAIN accepted' : accepted'[j] = accepted'[k] => j = k
    BY <1>1, <1>4, <1>5 DEF OrderInv, IdInv
  <2>2. \A k \in DOMAIN accepted' : accepted'[k] <= calls
    BY <1>1, <1>4 DEF OrderInv, IdInv, r
  <2>3. \A u \in Threads : Busy(u)' => thread'[u].req.id # r.id
    BY <1>7 DEF OrderInv, IdInv, r
  <2>4. \A u \in Threads : \A k \in DOMAIN accepted' :
          Busy(u)' => accepted'[k] # thread'[u].req.id
    BY <1>1, <1>4, <1>7, <2>3 DEF OrderInv, IdInv
  <2>5. \A u, v \in Threads :
          Busy(u)' /\ Busy(v)' /\ thread'[u].req.id = thread'[v].req.id => u = v
    BY <1>7 DEF OrderInv, IdInv
  <2>6. \A u \in Threads : Busy(u)' => thread'[u].req.id <= calls
    BY <1>7 DEF OrderInv, IdInv
  <2>7. \A u \in Threads, n \in StreamIds : \A i \in DOMAIN wire[n] :
          Busy(u)' => wire[n][i].id # thread'[u].req.id
    BY <1>7 DEF OrderInv, IdInv
  <2> QED BY <2>1, <2>2, <2>4, <2>5, <2>6, <2>7 DEF OrderInv, IdInv
<1>9. QueueInv'
  <2>1. Len(sendQ') <= Len(accepted') BY <1>1, <1>2, <1>3
  <2>2. \A k \in DOMAIN sendQ' : sendQ'[k].id = accepted'[Taken' + k]
    <3> SUFFICES ASSUME NEW k \in DOMAIN sendQ' PROVE sendQ'[k].id = accepted'[Taken + k]
      BY <1>3
    <3>1. CASE k = Len(sendQ) + 1
      <4>1. Taken + k = Len(accepted) + 1 BY <1>1, <1>2, <3>1 DEF Taken
      <4> QED BY <1>1, <1>2, <3>1, <4>1
    <3>2. CASE k # Len(sendQ) + 1
      <4>1. k \in DOMAIN sendQ BY <1>2, <3>2
      <4>2. Taken + k \in DOMAIN accepted BY <1>1, <1>2, <1>3, <4>1 DEF Taken
      <4> QED BY <1>1, <1>2, <4>1, <4>2 DEF OrderInv, QueueInv
    <3> QED BY <3>1, <3>2
  <2>3. \A n \in StreamIds :
          pump[n] = "send" => \E k \in 1 .. Taken : hand[n].id = accepted'[k]
    BY <1>1, <1>3 DEF OrderInv, QueueInv
  <2>4. \A n \in StreamIds : \A i \in DOMAIN wire[n], k \in DOMAIN accepted' :
          wire[n][i].id = accepted'[k] => k <= Taken
    BY <1>1, <1>4, <1>6 DEF OrderInv, QueueInv
  <2> QED BY <1>3, <2>1, <2>2, <2>3, <2>4 DEF QueueInv
<1>10. HandInv'
  <2> SUFFICES ASSUME NEW m \in StreamIds, NEW n \in StreamIds, NEW i \in DOMAIN wire[m],
                      NEW x \in DOMAIN accepted', NEW y \in DOMAIN accepted',
                      n \in up, pump[n] = "send",
                      wire[m][i].id = accepted'[x], hand[n].id = accepted'[y]
               PROVE  x < y
    BY DEF HandInv
  <2>1. x \in DOMAIN accepted /\ accepted'[x] = accepted[x] BY <1>1, <1>4, <1>6
  <2>2. CASE y = Len(accepted) + 1 BY <1>1, <2>1, <2>2
  <2>3. CASE y \in DOMAIN accepted BY <1>1, <2>1, <2>3 DEF OrderInv, HandInv
  <2> QED BY <1>4, <2>2, <2>3
<1>11. QueueOrder'
  BY <1>1, <1>4, <1>6 DEF OrderInv, QueueOrder
<1> QED BY <1>8, <1>9, <1>10, <1>11 DEF OrderInv

\* SendImmediate sends a request that is never accepted.
LEMMA DirectOrder ==
    ASSUME TypeInv, OrderInv, NEW t \in Threads, Busy(t), ~Busy(t)',
           \A u \in Threads \ {t} : thread'[u] = thread[u],
           \A n \in StreamIds : \A i \in DOMAIN wire'[n] :
               \/ wire'[n][i].id = thread[t].req.id
               \/ i \in DOMAIN wire[n] /\ wire'[n][i] = wire[n][i],
           UNCHANGED <<accepted, sendQ, calls, pump, hand, up>>
    PROVE  OrderInv'
<1>1. \A k \in DOMAIN accepted : accepted[k] # thread[t].req.id
  BY DEF OrderInv, IdInv
<1>2. \A u \in Threads : Busy(u)' => u # t /\ Busy(u) /\ thread'[u] = thread[u]
  BY DEF Busy
<1>3. IdInv'
  <2>1. \A n \in StreamIds : \A i \in DOMAIN wire'[n] : wire'[n][i].id <= calls
    BY DEF OrderInv, IdInv
  <2>2. \A u \in Threads : Busy(u)' => thread'[u].req.id # thread[t].req.id
    BY <1>2 DEF OrderInv, IdInv
  <2>3. \A u \in Threads, n \in StreamIds : \A i \in DOMAIN wire'[n] :
          Busy(u)' => wire'[n][i].id # thread'[u].req.id
    <3> SUFFICES ASSUME NEW u \in Threads, NEW n \in StreamIds, NEW i \in DOMAIN wire'[n], Busy(u)'
                 PROVE  wire'[n][i].id # thread'[u].req.id
      OBVIOUS
    <3>1. CASE wire'[n][i].id = thread[t].req.id BY <2>2, <3>1
    <3>2. CASE i \in DOMAIN wire[n] /\ wire'[n][i] = wire[n][i]
      BY <1>2, <3>2 DEF OrderInv, IdInv
    <3> QED BY <3>1, <3>2
  <2>4. \A u, v \in Threads :
          Busy(u)' /\ Busy(v)' /\ thread'[u].req.id = thread'[v].req.id => u = v
    BY <1>2 DEF OrderInv, IdInv
  <2>5. \A u \in Threads : Busy(u)' => thread'[u].req.id <= calls
    BY <1>2 DEF OrderInv, IdInv
  <2>6. \A u \in Threads : \A k \in DOMAIN accepted :
          Busy(u)' => accepted[k] # thread'[u].req.id
    BY <1>2 DEF OrderInv, IdInv
  <2> QED BY <2>1, <2>3, <2>4, <2>5, <2>6 DEF OrderInv, IdInv
<1>4. QueueInv' BY <1>1 DEF OrderInv, QueueInv, Taken
<1>5. HandInv' BY <1>1 DEF OrderInv, HandInv
<1>6. QueueOrder' BY <1>1 DEF OrderInv, QueueOrder
<1> QED BY <1>3, <1>4, <1>5, <1>6 DEF OrderInv

\* A pump takes the request that was accepted first of those in the queue.
LEMMA TakeOrder ==
    ASSUME TypeInv, OrderInv, NEW n \in StreamIds, PumpTake(n)
    PROVE  OrderInv'
<1> DEFINE q == sendQ
<1>0. /\ q \in Seq(Requests) /\ q # <<>>
      /\ UNCHANGED <<accepted, calls, wire, up, thread>>
      /\ sendQ' = Tail(q) /\ hand' = [hand EXCEPT ![n] = Head(q)]
      /\ pump' = [pump EXCEPT ![n] = "send"]
      /\ hand \in [StreamIds -> Requests] /\ pump \in [StreamIds -> PumpPcs]
  BY DEF PumpTake, NextRequest, TypeInv, TypeOK
<1>1. /\ Len(q) \in Nat \ {0} /\ DOMAIN q = 1 .. Len(q) /\ Head(q) = q[1]
      /\ Len(sendQ') = Len(q) - 1 /\ DOMAIN sendQ' = 1 .. Len(q) - 1
      /\ \A k \in 1 .. Len(q) - 1 : sendQ'[k] = q[k + 1]
  BY <1>0
<1>2. /\ Taken' = Taken + 1 /\ Taken \in Nat /\ Taken + 1 \in DOMAIN accepted
      /\ Taken + Len(q) = Len(accepted)
  BY <1>0, <1>1, Entries DEF Taken, OrderInv, QueueInv
<1>3. Head(q).id = accepted[Taken + 1]
  BY <1>1 DEF OrderInv, QueueInv
<1>4. /\ hand'[n] = Head(q)
      /\ \A m \in StreamIds \ {n} : hand'[m] = hand[m] /\ pump'[m] = pump[m]
  BY <1>0
<1> HIDE DEF q
<1>5. IdInv' BY <1>0 DEF OrderInv, IdInv, Busy
<1>6. QueueInv'
  <2>1. \A k \in DOMAIN sendQ' : sendQ'[k].id = accepted[Taken + 1 + k]
    <3> SUFFICES ASSUME NEW k \in 1 .. Len(q) - 1 PROVE sendQ'[k].id = accepted[Taken + 1 + k]
      BY <1>1
    <3>1. k + 1 \in DOMAIN q /\ sendQ'[k] = q[k + 1] BY <1>1
    <3>2. q[k + 1].id = accepted[Taken + (k + 1)] BY <3>1 DEF OrderInv, QueueInv, q
    <3>3. Taken + (k + 1) = Taken + 1 + k BY <1>2
    <3> QED BY <3>1, <3>2, <3>3
  <2>2. ASSUME NEW m \in StreamIds, pump'[m] = "send"
        PROVE  \E k \in 1 .. Taken + 1 : hand'[m].id = accepted[k]
    <3>1. CASE m = n
      <4>1. Taken + 1 \in 1 .. Taken + 1 BY <1>2
      <4> QED BY <1>3, <1>4, <3>1, <4>1
    <3>2. CASE m # n
      <4>1. PICK k \in 1 .. Taken : hand[m].id = accepted[k]
        BY <1>4, <2>2, <3>2 DEF OrderInv, QueueInv
      <4>2. k \in 1 .. Taken + 1 BY <1>2
      <4> QED BY <1>4, <3>2, <4>1, <4>2
    <3> QED BY <3>1, <3>2
  <2>3. \A m \in StreamIds : \A i \in DOMAIN wire[m], k \in DOMAIN accepted :
          wire[m][i].id = accepted[k] => k <= Taken + 1
    BY <1>2, Entries DEF OrderInv, QueueInv
  <2>4. Len(sendQ') <= Len(accepted) BY <1>1, <1>2
  <2> QED BY <1>0, <1>2, <2>1, <2>2, <2>3, <2>4 DEF QueueInv
<1>7. HandInv'
  <2> SUFFICES ASSUME NEW m \in StreamIds, NEW l \in StreamIds, NEW i \in DOMAIN wire[m],
                      NEW x \in DOMAIN accepted, NEW y \in DOMAIN accepted,
                      l \in up, pump'[l] = "send",
                      wire[m][i].id = accepted[x], hand'[l].id = accepted[y]
               PROVE  x < y
    BY <1>0 DEF HandInv
  <2>1. CASE l = n
    <3>1. y = Taken + 1 BY <1>2, <1>3, <1>4, <2>1 DEF OrderInv, IdInv
    <3>2. x <= Taken BY DEF OrderInv, QueueInv
    <3> QED BY <1>2, <3>1, <3>2, Entries
  <2>2. CASE l # n BY <1>4, <2>2 DEF OrderInv, HandInv
  <2> QED BY <2>1, <2>2
<1>8. QueueOrder' BY <1>0 DEF OrderInv, QueueOrder
<1> QED BY <1>5, <1>6, <1>7, <1>8 DEF OrderInv

\* It puts it on the wire of the last stream, or loses it.
LEMMA SentOrder ==
    ASSUME TypeInv, StreamInv, OrderInv, NEW n \in StreamIds, PumpSent(n)
    PROVE  OrderInv'
<1>0. /\ UNCHANGED <<accepted, sendQ, calls, thread, up>> /\ pump[n] = "send"
      /\ wire' = [wire EXCEPT ![n] = Sent(n, hand[n])]
      /\ wire \in [StreamIds -> Seq(Requests)] /\ hand[n] \in Requests
      /\ pump'[n] # "send"
      /\ \A m \in StreamIds \ {n} : hand'[m] = hand[m] /\ pump'[m] = pump[m]
  BY DEF PumpSent, PumpAt, AfterSend, TypeInv, TypeOK
<1> DEFINE New(m, i) == m = n /\ n \in up /\ i = Len(wire[n]) + 1 /\ wire'[m][i] = hand[n]
           Old(m, i) == i \in DOMAIN wire[m] /\ wire'[m][i] = wire[m][i]
<1>1. ASSUME NEW m \in StreamIds, NEW i \in DOMAIN wire'[m] PROVE New(m, i) \/ Old(m, i)
  <2>1. CASE m # n BY <1>0, <2>1
  <2>2. CASE m = n /\ n \notin up BY <1>0, <2>2 DEF Sent
  <2>3. CASE m = n /\ n \in up
    <3>1. wire'[n] = Append(wire[n], hand[n]) /\ wire[n] \in Seq(Requests)
      BY <1>0, <2>3 DEF Sent
    <3> QED BY <1>0, <2>3, <3>1
  <2> QED BY <2>1, <2>2, <2>3
<1>2. PICK k \in 1 .. Taken : hand[n].id = accepted[k]
  BY <1>0 DEF OrderInv, QueueInv
<1>3. k \in DOMAIN accepted /\ k <= Taken
  <2>1. Taken <= Len(accepted) /\ Taken \in Int
    BY Entries DEF Taken, TypeInv, TypeOK
  <2> QED BY <2>1, Entries
<1>4. \A j \in DOMAIN accepted : hand[n].id = accepted[j] => j = k
  BY <1>2, <1>3 DEF OrderInv, IdInv
<1>5. \A m \in StreamIds : m > n /\ n \in up => wire[m] = <<>>
  BY DEF StreamInv, OneStream
<1>6. \A m \in StreamIds : DOMAIN wire[m] = 1 .. Len(wire[m]) /\ Len(wire[m]) \in Nat
  BY <1>0
<1> HIDE DEF New, Old
<1>7. IdInv'
  <2>1. \A m \in StreamIds : \A i \in DOMAIN wire'[m] : wire'[m][i].id <= calls
    BY <1>1, <1>2, <1>3 DEF OrderInv, IdInv, New, Old
  <2>2. \A t \in Threads, m \in StreamIds : \A i \in DOMAIN wire'[m] :
          Busy(t) => wire'[m][i].id # thread[t].req.id
    BY <1>1, <1>2, <1>3 DEF OrderInv, IdInv, New, Old
  <2> QED BY <1>0, <2>1, <2>2 DEF OrderInv, IdInv, Busy
<1>8. QueueInv'
  <2>1. \A m \in StreamIds : \A i \in DOMAIN wire'[m], j \in DOMAIN accepted :
          wire'[m][i].id = accepted[j] => j <= Taken
    BY <1>1, <1>3, <1>4 DEF OrderInv, QueueInv, New, Old
  <2>2. \A m \in StreamIds :
          pump'[m] = "send" => \E j \in 1 .. Taken : hand'[m].id = accepted[j]
    BY <1>0 DEF OrderInv, QueueInv
  <2> QED BY <1>0, <2>1, <2>2 DEF OrderInv, QueueInv, Taken
<1>9. HandInv'
  <2> SUFFICES ASSUME NEW m \in StreamIds, NEW l \in StreamIds, NEW i \in DOMAIN wire'[m],
                      NEW x \in DOMAIN accepted, NEW y \in DOMAIN accepted,
                      l \in up, pump'[l] = "send",
                      wire'[m][i].id = accepted[x], hand'[l].id = accepted[y]
               PROVE  x < y
    BY <1>0 DEF HandInv
  <2>1. l # n /\ hand'[l] = hand[l] /\ pump[l] = "send" BY <1>0
  <2>2. n \notin up BY <2>1 DEF StreamInv
  <2>3. Old(m, i) BY <1>1, <2>2 DEF New
  <2> QED BY <2>1, <2>3 DEF OrderInv, HandInv, Old
<1>10. QueueOrder'
  <2> SUFFICES ASSUME NEW m \in StreamIds, NEW l \in StreamIds,
                      NEW i \in DOMAIN wire'[m], NEW j \in DOMAIN wire'[l],
                      NEW x \in DOMAIN accepted, NEW y \in DOMAIN accepted,
                      m < l \/ (m = l /\ i < j),
                      wire'[m][i].id = accepted[x], wire'[l][j].id = accepted[y]
               PROVE  x < y
    BY <1>0 DEF QueueOrder
  <2>1. CASE New(l, j)
    <3>1. Old(m, i)
      <4>1. CASE New(m, i) BY <2>1, <4>1, <1>6 DEF New
      <4> QED BY <1>1, <4>1
    <3> QED BY <1>0, <2>1, <3>1 DEF OrderInv, HandInv, New, Old
  <2>2. CASE Old(l, j)
    <3>1. ~New(m, i)
      <4> SUFFICES ASSUME New(m, i) PROVE FALSE
        OBVIOUS
      <4>1. m = n /\ n \in up /\ i = Len(wire[n]) + 1 BY DEF New
      <4>2. CASE m < l
        <5>1. l > n BY <4>1, <4>2
        <5>2. DOMAIN wire[l] = {} BY <1>5, <1>6, <4>1, <5>1
        <5> QED BY <2>2, <5>2 DEF Old
      <4>3. CASE m = l /\ i < j BY <1>6, <2>2, <4>1, <4>3 DEF Old
      <4> QED BY <4>2, <4>3
    <3>2. Old(m, i) BY <1>1, <3>1
    <3> QED BY <2>2, <3>2 DEF OrderInv, QueueOrder, Old
  <2> QED BY <1>1, <2>1, <2>2
<1> QED BY <1>7, <1>8, <1>9, <1>10 DEF OrderInv

LEMMA InitOrder == Init => OrderInv
BY DEF Init, OrderInv, IdInv, QueueInv, HandInv, QueueOrder, Busy, Taken

\* The steps of the callers.
LEMMA ThreadOrder ==
    ASSUME TypeInv, OrderInv, NEW t \in Threads,
           \/ BeginSend(t) \/ ThreadStep(t)
           \/ t = Loop /\ \E u \in Topics, sub \in BOOLEAN : CallWithTopic(u, sub)
    PROVE  OrderInv'
<1>0. thread \in [Threads -> ThreadState] /\ thread[t] \in ThreadState
      /\ NoRequest \in Requests
  BY RequestTypes DEF TypeInv, TypeOK, ThreadState
<1>1. CASE BeginSend(t) \/ \E u \in Topics, sub \in BOOLEAN : t = Loop /\ CallWithTopic(u, sub)
  <2>1. /\ calls' = calls + 1 /\ UNCHANGED <<accepted, sendQ, pump, hand, wire, up>>
        /\ \A u \in Threads \ {t} : thread'[u] = thread[u]
    BY <1>0, <1>1 DEF BeginSend, CallWithTopic, Call, At
  <2>2. thread'[t].req.id = calls + 1
    BY <1>0, <1>1 DEF BeginSend, CallWithTopic, At, ThreadState
  <2> QED BY <2>1, <2>2, BeginOrder
<1>2. CASE Select(t) /\ accepted' = Append(accepted, thread[t].req.id)
  <2>1. Busy(t) /\ At(t, "idle", NoRequest) BY <1>2 DEF Select, ThreadAt, Busy
  <2>2. ~Busy(t)' /\ \A u \in Threads \ {t} : thread'[u] = thread[u]
    BY <1>0, <2>1 DEF At, Busy, ThreadState
  <2>3. accepted # Append(accepted, thread[t].req.id)
    <3>1. Len(Append(accepted, thread[t].req.id)) = Len(accepted) + 1
      <4>1. accepted \in Seq(Nat) /\ thread[t].req.id \in Nat
        BY Entries, BoundAssumption
      <4> QED BY <4>1
    <3>2. Len(accepted) \in Nat BY Entries
    <3> QED BY <3>1, <3>2
  <2>4. sendQ' = Append(sendQ, thread[t].req) BY <1>2, <2>3 DEF Select
  <2>5. UNCHANGED <<calls, pump, hand, wire, up>> BY <1>2 DEF Select
  <2> QED BY <1>2, <2>1, <2>2, <2>4, <2>5, AcceptOrder
<1>3. CASE DirectSent(t)
  <2>1. Busy(t) /\ At(t, "idle", NoRequest) BY <1>3 DEF DirectSent, ThreadAt, Busy
  <2>2. ~Busy(t)' /\ \A u \in Threads \ {t} : thread'[u] = thread[u]
    BY <1>0, <2>1 DEF At, Busy, ThreadState
  <2>3. ASSUME NEW n \in StreamIds, NEW i \in DOMAIN wire'[n]
        PROVE  \/ wire'[n][i].id = thread[t].req.id
               \/ i \in DOMAIN wire[n] /\ wire'[n][i] = wire[n][i]
    <3>1. wire' = [wire EXCEPT ![thread[t].on] = Sent(thread[t].on, thread[t].req)]
          /\ wire \in [StreamIds -> Seq(Requests)] /\ thread[t].req \in Requests
      BY <1>3, Entries DEF DirectSent, TypeInv, TypeOK
    <3>2. CASE n = thread[t].on /\ n \in up
      <4>1. wire'[n] = Append(wire[n], thread[t].req) BY <3>1, <3>2 DEF Sent
      <4> QED BY <3>1, <4>1
    <3>3. CASE ~(n = thread[t].on /\ n \in up) BY <3>1, <3>3 DEF Sent
    <3> QED BY <3>2, <3>3
  <2>4. UNCHANGED <<accepted, sendQ, calls, pump, hand, up>> BY <1>3 DEF DirectSent
  <2> QED BY <2>1, <2>2, <2>3, <2>4, DirectOrder
<1>4. CASE Build(t) \/ CheckClosed(t) \/ LoadStream(t)
           \/ (Select(t) /\ accepted' # Append(accepted, thread[t].req.id))
  <2>1. UNCHANGED <<accepted, sendQ, calls, pump, hand, wire, up>>
    BY <1>4 DEF Build, CheckClosed, LoadStream, Select
  <2>2. Busy(t) BY <1>4 DEF Build, CheckClosed, LoadStream, Select, ThreadAt, Busy
  <2>3. \A u \in Threads \ {t} : thread'[u] = thread[u]
    BY <1>0, <1>4 DEF Build, CheckClosed, LoadStream, Select, At
  <2>4. Busy(t)' => thread'[t].req.id = thread[t].req.id
    <3>1. CASE Build(t) BY <1>0, <3>1 DEF Build, At, ThreadState, Requests
    <3>2. CASE CheckClosed(t) BY <1>0, <3>2 DEF CheckClosed, At, ThreadState
    <3>3. CASE LoadStream(t) BY <1>0, <3>3 DEF LoadStream, ThreadState
    <3>4. CASE Select(t) BY <1>0, <3>4 DEF Select, At, ThreadState, Busy
    <3> QED BY <1>4, <3>1, <3>2, <3>3, <3>4
  <2>5. OrderFrame
    BY <2>1, <2>2, <2>3, <2>4 DEF OrderFrame, NoNewRequest, Busy
  <2> QED BY <2>5, QuietOrder
<1> QED BY <1>1, <1>2, <1>3, <1>4 DEF ThreadStep

\* A stream that goes down adds nothing to its wire.
LEMMA CutWire ==
    ASSUME TypeInv, cur \in StreamIds, NEW q \in Truncated(wire[cur]),
           wire' = [wire EXCEPT ![cur] = q]
    PROVE  NoNewRequest
<1>1. wire \in [StreamIds -> Seq(Requests)] BY DEF TypeInv, TypeOK
<1>2. \A i \in DOMAIN q : i \in DOMAIN wire[cur] /\ q[i] = wire[cur][i]
  BY <1>1, Prefixes
<1> QED BY <1>1, <1>2 DEF NoNewRequest

LEMMA OtherOrder ==
    ASSUME TypeInv, StreamInv, OrderInv,
           \/ Start \/ Receive \/ LoopStep \/ CloseSwap \/ CloserStep \/ Break
           \/ (\E n \in StreamIds : PumpStops(n))
           \/ UNCHANGED vars
    PROVE  OrderInv'
<1> USE DEF OrderFrame, Busy
<1>0. /\ wire \in [StreamIds -> Seq(Requests)] /\ pump \in [StreamIds -> PumpPcs]
      /\ opened \in Nat
  BY BoundAssumption DEF TypeInv, TypeOK
<1>1. wire' = wire => NoNewRequest BY DEF NoNewRequest
<1>2. CASE \/ Start \/ Launch \/ Receive \/ Subscribe \/ CallbackReturns \/ RecvFails
           \/ BackoffOver \/ CloseSwap \/ CloseQueue \/ CloseWaitPumps \/ CloseWaitLoop \/ UNCHANGED vars
  <2>1. UNCHANGED <<accepted, sendQ, calls, thread, pump, hand, wire, up>>
    BY <1>2 DEF Start, Launch, Receive, Subscribe, CallbackReturns, RecvFails, BackoffOver, CloseSwap,
                CloseQueue, CloseWaitPumps, CloseWaitLoop, vars
  <2>2. OrderFrame BY <1>1, <2>1
  <2> QED BY <2>2, QuietOrder
<1>3. CASE StartPump \/ \E n \in StreamIds : PumpStops(n)
  <2>1. UNCHANGED <<accepted, sendQ, calls, thread, hand, wire, up>>
    BY <1>3 DEF StartPump, PumpStops
  <2>2. \A n \in StreamIds : pump'[n] = "send" => pump[n] = "send"
    BY <1>0, <1>3 DEF StartPump, PumpStops
  <2>3. OrderFrame BY <1>1, <2>1, <2>2
  <2> QED BY <2>3, QuietOrder
<1>4. CASE Dial
  <2>1. UNCHANGED <<accepted, sendQ, calls, thread, pump, hand, wire>>
    BY <1>4 DEF Dial
  <2>2. \A n \in StreamIds : n \in up' => n \in up \/ n = opened + 1 BY <1>4 DEF Dial
  <2>3. \A n \in StreamIds : n = opened + 1 => pump[n] = "off"
    BY <1>0 DEF StreamInv, OneStream
  <2>4. OrderFrame BY <1>1, <2>1, <2>2, <2>3
  <2> QED BY <2>4, QuietOrder
<1>5. CASE Subscribed
  <2>1. UNCHANGED <<accepted, sendQ, calls, thread, pump, hand, up>>
        /\ wire' = [wire EXCEPT ![cur] = Sent(cur, FirstRequest)]
    BY <1>5 DEF Subscribed
  <2>2. NoNewRequest
    <3> SUFFICES ASSUME NEW n \in StreamIds, NEW i \in DOMAIN wire'[n]
                 PROVE  wire'[n][i].id = 0 \/ (i \in DOMAIN wire[n] /\ wire'[n][i] = wire[n][i])
      BY DEF NoNewRequest
    <3>1. CASE n = cur /\ n \in up
      <4>1. wire'[n] = Append(wire[n], FirstRequest) /\ wire[n] \in Seq(Requests)
        BY <1>0, <2>1, <3>1 DEF Sent
      <4>2. FirstRequest \in Requests /\ FirstRequest.id = 0
        BY RequestTypes DEF TypeInv, FirstRequest
      <4> HIDE DEF FirstRequest
      <4> QED BY <4>1, <4>2
    <3>2. CASE ~(n = cur /\ n \in up) BY <1>0, <2>1, <3>2 DEF Sent
    <3> QED BY <3>1, <3>2
  <2>3. OrderFrame BY <2>1, <2>2
  <2> QED BY <2>3, QuietOrder
<1>6. CASE CloseCancel \/ Break
  <2>1. UNCHANGED <<accepted, sendQ, calls, thread, pump, hand>> /\ up' \subseteq up
    BY <1>6 DEF CloseCancel, Break, SurvivingCancel
  <2>2. NoNewRequest
    <3>1. CASE cur \in up
      <4>1. cur \in StreamIds BY <3>1, BoundAssumption DEF TypeInv, TypeOK
      <4>2. \E q \in Truncated(wire[cur]) : wire' = [wire EXCEPT ![cur] = q]
        BY <1>6, <3>1 DEF CloseCancel, Break
      <4> QED BY <4>1, <4>2, CutWire
    <3>2. CASE cur \notin up BY <1>1, <1>6, <3>2 DEF CloseCancel, Break
    <3> QED BY <3>1, <3>2
  <2>3. OrderFrame BY <2>1, <2>2
  <2> QED BY <2>3, QuietOrder
<1>7. CASE SubscribeFails
  <2>1. UNCHANGED <<accepted, sendQ, calls, thread, pump, hand, wire>> /\ up' \subseteq up
    BY <1>7 DEF SubscribeFails
  <2>2. OrderFrame BY <1>1, <2>1
  <2> QED BY <2>2, QuietOrder
<1> QED BY <1>2, <1>3, <1>4, <1>5, <1>6, <1>7 DEF LoopStep, CloserStep

LEMMA StepOrder == TypeInv /\ StreamInv /\ OrderInv /\ [Next]_vars => OrderInv'
<1> SUFFICES ASSUME TypeInv, StreamInv, OrderInv, [Next]_vars PROVE OrderInv'
  OBVIOUS
<1>1. ASSUME NEW n \in StreamIds, PumpStep(n) PROVE OrderInv'
  BY <1>1, TakeOrder, SentOrder, OtherOrder DEF PumpStep
<1>2. ASSUME NEW t \in Threads, BeginSend(t) \/ ThreadStep(t) PROVE OrderInv'
  BY <1>2, ThreadOrder
<1>3. ASSUME NEW u \in Topics, NEW sub \in BOOLEAN, CallWithTopic(u, sub) PROVE OrderInv'
  <2>1. Loop \in Threads OBVIOUS
  <2> QED BY <1>3, <2>1, ThreadOrder
<1> QED BY <1>1, <1>2, <1>3, OtherOrder DEF Next

\* session.go:105 and 306, enqueue and writerPump: for any number of callers, any capacity of
\* the queue and any number of streams, whatever old pumps do beside the new one, the relay
\* gets no queued request twice, nor one after another that was accepted later.
THEOREM QueueInOrder == Spec => []QueueOrder
<1>1. TypeInv /\ TypeInv' /\ StreamInv /\ StreamInv' /\ OrderInv /\ [Next]_vars => OrderInv'
  BY StepOrder
<1>2. OrderInv => QueueOrder BY DEF OrderInv
<1> QED BY InitOrder, <1>1, <1>2, Typing, Streaming, PTL DEF Spec
-----------------------------------------------------------------------------
(* The topic. *)

LEMMA InitSubscriber == Init => SubscriberInv /\ TopicInv
<1> SUFFICES ASSUME Init PROVE SubscriberInv /\ TopicInv
  OBVIOUS
<1>1. \A t \in Threads : thread[t].pc = "idle" BY DEF Init
<1>2. NoSubQueued /\ up = {} BY DEF Init, NoSubQueued
<1>3. SubscriberInv
  <2>1. Loop \in Threads OBVIOUS
  <2> QED BY <1>1, <2>1 DEF SubscriberInv, Subscribing, Busy
<1>4. TopicInv BY <1>2 DEF TopicInv, Listening, OnWire
<1> QED BY <1>3, <1>4

\* The steps that begin no call and take no goroutine further.
LEMMA ThreadsKept ==
    SubscriberInv /\ UNCHANGED <<thread, topic>> => SubscriberInv' /\ (Subscribing' <=> Subscribing)
BY DEF SubscriberInv, Subscribing, Current, Busy

\* Of the steps of a goroutine only CallWithTopic makes a subscription, and a subscription is
\* given up by a closed session only.
LEMMA StepSubscriber ==
    ASSUME TypeInv, SubscriberInv, NEW t \in Threads,
           \/ BeginSend(t) \/ ThreadStep(t)
           \/ t = Loop /\ \E u \in Topics : CallWithTopic(u, FALSE)
    PROVE  /\ SubscriberInv' /\ topic' = topic
           /\ ~(Select(t) /\ t = Loop) /\ ~closed => (Subscribing' <=> Subscribing)
           /\ Subscribing' => Subscribing
<1>0. thread \in [Threads -> ThreadState] /\ thread[t] \in ThreadState
      /\ NoRequest \in Requests /\ ~NoRequest.sub
  BY RequestTypes DEF TypeInv, TypeOK, ThreadState, NoRequest
<1>1. \A u \in Threads \ {t} : thread'[u] = thread[u]
  BY <1>0 DEF BeginSend, ThreadStep, Build, CheckClosed, Select, LoadStream, DirectSent,
              CallWithTopic, At
<1>2. topic' = topic
  BY DEF BeginSend, ThreadStep, Build, CheckClosed, Select, LoadStream, DirectSent, CallWithTopic
<1>3. CASE t # Loop
  <2>1. Busy(t)' => ~thread'[t].req.sub
    <3>1. CASE BeginSend(t)
      <4>1. thread'[t].req.sub = FALSE BY <1>0, <3>1 DEF BeginSend
      <4> QED BY <4>1
    <3>2. CASE ThreadStep(t)
      <4>1. Busy(t) BY <3>2 DEF ThreadStep, Build, CheckClosed, Select, LoadStream, DirectSent,
                                ThreadAt, Busy
      <4>2. thread[t].req.sub = FALSE
        BY <1>0, <1>3, <4>1 DEF SubscriberInv, ThreadState, Requests
      <4>3. thread'[t].req.sub = FALSE \/ ~Busy(t)'
        <5>1. CASE Build(t) BY <1>0, <4>2, <5>1 DEF Build, At, ThreadState, Requests
        <5>2. CASE CheckClosed(t) BY <1>0, <4>2, <5>2 DEF CheckClosed, At, ThreadState
        <5>3. CASE LoadStream(t) BY <1>0, <4>2, <5>3 DEF LoadStream, ThreadState
        <5>4. CASE Select(t) \/ DirectSent(t)
          BY <1>0, <5>4 DEF Select, DirectSent, At, ThreadState, Busy
        <5> QED BY <3>2, <5>1, <5>2, <5>3, <5>4 DEF ThreadStep
      <4> QED BY <4>3
    <3> QED BY <1>3, <3>1, <3>2
  <2>2. Loop \in Threads \ {t} /\ thread'[Loop] = thread[Loop] BY <1>1, <1>3
  <2>3. Subscribing' <=> Subscribing BY <2>2 DEF Subscribing
  <2>4. SubscriberInv'
    BY <1>1, <1>2, <2>1, <2>2, <2>3 DEF SubscriberInv, Busy, Current
  <2> QED BY <1>2, <1>3, <2>3, <2>4
<1>4. CASE t = Loop
  <2>1. \A u \in Threads \ {Loop} : Busy(u)' => ~thread'[u].req.sub
    BY <1>1, <1>4 DEF SubscriberInv, Busy
  <2>2. CASE BeginSend(t) \/ \E u \in Topics : CallWithTopic(u, FALSE)
    <3>1. ~Subscribing BY <1>4, <2>2 DEF BeginSend, CallWithTopic, Call, Idle, ThreadAt, Subscribing
    <3>2. thread'[t].req.sub = FALSE
      BY <1>0, <1>4, <2>2 DEF BeginSend, CallWithTopic, At, ThreadState
    <3>3. ~Subscribing' BY <1>4, <3>2 DEF Subscribing
    <3>4. SubscriberInv' BY <1>4, <2>1, <3>2, <3>3 DEF SubscriberInv
    <3> QED BY <1>2, <3>1, <3>3, <3>4
  <2>3. CASE Build(t) \/ LoadStream(t)
    <3>1. thread[t].pc \in {"build", "load"} BY <2>3 DEF Build, LoadStream, ThreadAt
    <3>2. thread[t].req.sub = FALSE
      BY <1>0, <1>4, <3>1 DEF SubscriberInv, ThreadState, Requests
    <3>3. thread'[t].req.sub = FALSE
      BY <1>0, <2>3, <3>2 DEF Build, LoadStream, At, ThreadState, Requests
    <3>4. ~Subscribing /\ ~Subscribing' BY <1>4, <3>2, <3>3 DEF Subscribing
    <3>5. SubscriberInv' BY <1>4, <2>1, <3>3, <3>4 DEF SubscriberInv
    <3> QED BY <1>2, <3>4, <3>5
  <2>4. CASE CheckClosed(t)
    <3>1. /\ thread[t].pc = "check" /\ thread'[t].req = thread[t].req
          /\ thread'[t].pc = IF closed THEN "idle" ELSE "select"
      BY <1>0, <2>4 DEF CheckClosed, ThreadAt, At, ThreadState
    <3>2. Subscribing' => Subscribing BY <1>4, <3>1 DEF Subscribing
    <3>3. ~closed => (Subscribing' <=> Subscribing) BY <1>4, <3>1 DEF Subscribing
    <3>4. SubscriberInv' BY <1>2, <1>4, <2>1, <3>1, <3>2 DEF SubscriberInv, Current
    <3> QED BY <1>2, <3>2, <3>3, <3>4
  <2>5. CASE Select(t) \/ DirectSent(t)
    <3>1. thread'[t].pc = "idle"
      BY <1>0, <2>5 DEF Select, DirectSent, At, ThreadState
    <3>2. ~Subscribing' BY <1>4, <3>1 DEF Subscribing
    <3>3. SubscriberInv' BY <1>4, <2>1, <3>1, <3>2 DEF SubscriberInv
    <3>4. DirectSent(t) => ~Subscribing
      BY <1>4 DEF DirectSent, ThreadAt, Subscribing
    <3> QED BY <1>2, <1>4, <2>5, <3>2, <3>3, <3>4
  <2> QED BY <1>4, <2>2, <2>3, <2>4, <2>5 DEF ThreadStep
<1> QED BY <1>3, <1>4

\* The step changes neither the topic nor the queue, and what it sends is no subscription.
TopicFrame ==
    /\ UNCHANGED <<topic, sendQ>>
    /\ ~closed' => ~closed
    /\ NothingLost' => NothingLost
    /\ ~closed /\ Subscribing => Subscribing'
    /\ OnWire' => /\ OnWire /\ UNCHANGED <<cur, hand>>
                  /\ pump'[cur] = "send" <=> pump[cur] = "send"
                  /\ \A i \in DOMAIN wire[cur] :
                        i \in DOMAIN wire'[cur] /\ wire'[cur][i] = wire[cur][i]
                  /\ \A i \in DOMAIN wire'[cur] :
                        i \in DOMAIN wire[cur] \/ ~wire'[cur][i].sub

LEMMA QuietTopic == TopicInv /\ TopicFrame => TopicInv'
<1> SUFFICES ASSUME TopicInv, TopicFrame, ~closed', NothingLost', ~Subscribing' PROVE Listening'
  BY DEF TopicInv
<1>1. Listening /\ UNCHANGED <<topic, sendQ>> BY DEF TopicInv, TopicFrame
<1>2. ~NoSubQueued' => LastSub(sendQ)'
  BY <1>1 DEF Listening, NoSubQueued, LastSub, Current
<1>3. ASSUME NoSubQueued', OnWire'
      PROVE  IF pump'[cur'] = "send" /\ hand'[cur'].sub THEN Current(hand[cur])' ELSE LastSub(wire[cur])'
  <2>1. NoSubQueued /\ OnWire BY <1>1, <1>3 DEF TopicFrame, NoSubQueued
  <2>2. cur' = cur /\ hand' = hand /\ (pump'[cur] = "send" <=> pump[cur] = "send")
    BY <1>3 DEF TopicFrame
  <2>3. CASE pump[cur] = "send" /\ hand[cur].sub
    <3>1. Current(hand[cur]) BY <1>1, <2>1, <2>3 DEF Listening
    <3> QED BY <1>1, <2>2, <2>3, <3>1 DEF Current
  <2>4. CASE ~(pump[cur] = "send" /\ hand[cur].sub)
    <3>1. LastSub(wire[cur]) BY <1>1, <2>1, <2>4 DEF Listening
    <3>2. PICK i \in DOMAIN wire[cur] :
             Current(wire[cur][i]) /\ \A j \in DOMAIN wire[cur] : j > i => ~wire[cur][j].sub
      BY <3>1 DEF LastSub
    <3>3. i \in DOMAIN wire'[cur] /\ wire'[cur][i] = wire[cur][i]
      BY <1>3 DEF TopicFrame
    <3>4. \A j \in DOMAIN wire'[cur] : j > i => ~wire'[cur][j].sub
      BY <1>3, <3>2 DEF TopicFrame
    <3>5. LET r == wire'[cur][i] IN r.sub /\ r.macOk /\ r.topic = topic'
      BY <1>1, <3>2, <3>3 DEF Current
    <3>6. LastSub(wire[cur])' BY <2>2, <3>3, <3>4, <3>5 DEF LastSub, Current
    <3> QED BY <2>2, <2>4, <3>6
  <2> QED BY <2>3, <2>4
<1> QED BY <1>2, <1>3 DEF Listening

\* A sequence that gets a request at its end.
LEMMA Appended ==
    ASSUME NEW q \in Seq(Requests), NEW r \in Requests
    PROVE  /\ DOMAIN Append(q, r) = 1 .. Len(q) + 1 /\ Append(q, r)[Len(q) + 1] = r
           /\ \A i \in DOMAIN q : i \in DOMAIN Append(q, r) /\ Append(q, r)[i] = q[i]
           /\ \A i \in DOMAIN Append(q, r) : i \in DOMAIN q \/ i = Len(q) + 1
           /\ \A i \in DOMAIN q : i < Len(q) + 1
           /\ Len(q) + 1 \in DOMAIN Append(q, r)
OBVIOUS

LEMMA LastAppended ==
    ASSUME NEW q \in Seq(Requests), NEW r \in Requests
    PROVE  /\ Current(r) => LastSub(Append(q, r))
           /\ ~r.sub /\ LastSub(q) => LastSub(Append(q, r))
<1> DEFINE p == Append(q, r)
<1>1. /\ p[Len(q) + 1] = r
      /\ \A i \in DOMAIN q : i \in DOMAIN p /\ p[i] = q[i]
      /\ \A i \in DOMAIN p : i \in DOMAIN q \/ i = Len(q) + 1
      /\ \A i \in DOMAIN q : i < Len(q) + 1 /\ i \in Nat
      /\ Len(q) + 1 \in DOMAIN p /\ Len(q) \in Nat
  BY Appended
<1> HIDE DEF p
<1>2. Current(r) => LastSub(p) BY <1>1 DEF LastSub
<1>3. ASSUME ~r.sub, LastSub(q) PROVE LastSub(p)
  <2>1. PICK i \in DOMAIN q : Current(q[i]) /\ \A j \in DOMAIN q : j > i => ~q[j].sub
    BY <1>3 DEF LastSub
  <2>2. i \in DOMAIN p /\ Current(p[i]) BY <1>1, <2>1
  <2>3. \A j \in DOMAIN p : j > i => ~p[j].sub BY <1>1, <1>3, <2>1
  <2> QED BY <2>2, <2>3 DEF LastSub
<1> QED BY <1>2, <1>3 DEF p

LEMMA ThreadTopic ==
    ASSUME TypeInv, CloseInv, SubscriberInv, TopicInv, NEW t \in Threads,
           \/ BeginSend(t) \/ ThreadStep(t)
           \/ t = Loop /\ \E u \in Topics : CallWithTopic(u, FALSE)
    PROVE  TopicInv'
<1>0. /\ topic' = topic
      /\ ~(Select(t) /\ t = Loop) /\ ~closed => (Subscribing' <=> Subscribing)
      /\ Subscribing' => Subscribing
  BY StepSubscriber
<1>1. UNCHANGED <<closed, cur, pump, hand, up, loop, lost>>
  BY DEF BeginSend, ThreadStep, Build, CheckClosed, Select, LoadStream, DirectSent, CallWithTopic
<1>2. NothingLost' <=> NothingLost BY <1>1 DEF NothingLost
<1>3. OnWire' <=> OnWire BY <1>1 DEF OnWire
<1>4. CASE Select(t) /\ ~closed
  <2>1. ~cancelled /\ ~qClosed
    BY <1>4 DEF CloseInv, ClosedAt, CancelledAt, QClosedAt
  <2>2. sendQ' = Append(sendQ, thread[t].req) /\ wire' = wire BY <1>4, <2>1 DEF Select
  <2> DEFINE r == thread[t].req
  <2>3. sendQ \in Seq(Requests) /\ r \in Requests /\ thread[t].pc = "select"
    BY <1>4, Entries DEF TypeInv, TypeOK, Select, ThreadAt
  <2> SUFFICES ASSUME NothingLost', ~Subscribing' PROVE Listening'
    BY DEF TopicInv
  <2>4. CASE r.sub
    <3>1. t = Loop BY <2>3, <2>4 DEF SubscriberInv, Busy
    <3>2. Current(r) BY <2>3, <2>4, <3>1 DEF SubscriberInv, Subscribing
    <3>3. LastSub(sendQ') BY <2>2, <2>3, <3>2, LastAppended
    <3>4. ~NoSubQueued' BY <3>3 DEF LastSub, NoSubQueued, Current
    <3>5. LastSub(sendQ)' BY <1>0, <3>3 DEF LastSub, Current
    <3> QED BY <3>4, <3>5 DEF Listening
  <2>5. CASE ~r.sub
    <3>1. ~Subscribing
      <4>1. CASE t = Loop BY <2>5, <4>1 DEF Subscribing
      <4>2. CASE t # Loop BY <1>0, <1>4, <4>2
      <4> QED BY <4>1, <4>2
    <3>2. Listening BY <1>2, <1>4, <3>1 DEF TopicInv
    <3>3. NoSubQueued' <=> NoSubQueued
      <4>1. \A k \in DOMAIN sendQ : k \in DOMAIN sendQ' /\ sendQ'[k] = sendQ[k]
        BY <2>2, <2>3, Appended
      <4>2. \A k \in DOMAIN sendQ' : k \in DOMAIN sendQ \/ sendQ'[k] = r
        BY <2>2, <2>3, Appended
      <4> QED BY <2>5, <4>1, <4>2 DEF NoSubQueued
    <3>4. LastSub(sendQ) => LastSub(sendQ') BY <2>2, <2>3, <2>5, LastAppended
    <3>5. ~NoSubQueued' => LastSub(sendQ)'
      BY <1>0, <3>2, <3>3, <3>4 DEF Listening, LastSub, Current
    <3>6. NoSubQueued' /\ OnWire' =>
             IF pump'[cur'] = "send" /\ hand'[cur'].sub THEN Current(hand[cur])'
                                                         ELSE LastSub(wire[cur])'
      BY <1>0, <1>1, <1>3, <2>2, <3>2, <3>3 DEF Listening, Current, LastSub
    <3> QED BY <3>5, <3>6 DEF Listening
  <2> QED BY <2>4, <2>5
<1>5. CASE closed BY <1>1, <1>5 DEF TopicInv
<1>6. CASE ~Select(t) /\ ~closed
  <2>1. sendQ' = sendQ
    BY <1>6 DEF BeginSend, ThreadStep, Build, CheckClosed, LoadStream, DirectSent, CallWithTopic
  <2>2. ASSUME OnWire
        PROVE  /\ \A i \in DOMAIN wire[cur] :
                     i \in DOMAIN wire'[cur] /\ wire'[cur][i] = wire[cur][i]
               /\ \A i \in DOMAIN wire'[cur] :
                     i \in DOMAIN wire[cur] \/ ~wire'[cur][i].sub
    <3>0. cur \in StreamIds /\ wire \in [StreamIds -> Seq(Requests)] /\ wire[cur] \in Seq(Requests)
      BY <2>2, BoundAssumption DEF OnWire, TypeInv, TypeOK
    <3>1. CASE DirectSent(t)
      <4>1. thread[t].pc = "direct" /\ thread[t].req \in Requests
        BY <3>1, Entries DEF DirectSent, ThreadAt
      <4>2. ~thread[t].req.sub BY <4>1 DEF SubscriberInv, Busy
      <4>3. wire'[cur] = wire[cur] \/ wire'[cur] = Append(wire[cur], thread[t].req)
        BY <3>0, <3>1 DEF DirectSent, Sent
      <4> QED BY <3>0, <4>1, <4>2, <4>3, Appended
    <3>2. CASE ~DirectSent(t)
      <4>1. wire' = wire
        BY <1>6, <3>2 DEF BeginSend, ThreadStep, Build, CheckClosed, LoadStream, CallWithTopic
      <4> QED BY <4>1
    <3> QED BY <3>1, <3>2
  <2>3. TopicFrame BY <1>0, <1>1, <1>2, <1>3, <1>6, <2>1, <2>2 DEF TopicFrame
  <2> QED BY <2>3, QuietTopic
<1> QED BY <1>4, <1>5, <1>6

\* tunnelLoop, Close and the network.
LEMMA LoopTopic ==
    ASSUME TypeInv, StreamInv, CloseInv, SubscriberInv, TopicInv,
           \/ Start \/ Receive \/ LoopStep \/ CloseSwap \/ CloserStep \/ Break
           \/ (\E n \in StreamIds : PumpStops(n))
           \/ UNCHANGED vars
    PROVE  TopicInv'
<1> USE DEF TopicFrame
<1>0. /\ wire \in [StreamIds -> Seq(Requests)] /\ pump \in [StreamIds -> PumpPcs]
      /\ opened \in Nat /\ up \subseteq StreamIds
  BY BoundAssumption DEF TypeInv, TypeOK
<1>1. CASE CloseSwap BY <1>1 DEF CloseSwap, TopicInv
<1>2. CASE CloserStep
  <2>1. closer \in ClosedAt
    BY <1>2 DEF CloserStep, CloseCancel, CloseQueue, CloseWaitPumps, CloseWaitLoop, CloseStep,
                ClosedAt
  <2>2. closed' = closed
    BY <1>2 DEF CloserStep, CloseCancel, CloseQueue, CloseWaitPumps, CloseWaitLoop
  <2> QED BY <2>1, <2>2 DEF CloseInv, TopicInv
<1>3. CASE \/ Start \/ Launch \/ Receive \/ Subscribe \/ CallbackReturns \/ RecvFails
           \/ BackoffOver \/ UNCHANGED vars
  <2>1. UNCHANGED <<topic, sendQ, closed, lost, pump, hand, up, thread, cur, wire>>
    BY <1>3 DEF Start, Launch, Receive, Subscribe, CallbackReturns, RecvFails, BackoffOver, vars
  <2>2. OnWire' => OnWire
    BY <1>3, <2>1 DEF Start, Launch, Receive, Subscribe, CallbackReturns, RecvFails, BackoffOver, vars,
                      LoopAt, OnWire
  <2>3. TopicFrame BY <2>1, <2>2 DEF NothingLost, Subscribing
  <2> QED BY <2>3, QuietTopic
<1>4. CASE Dial
  <2>1. UNCHANGED <<topic, sendQ, closed, lost, pump, hand, thread>>
    BY <1>4 DEF Dial
  <2>2. ~OnWire' BY <1>4 DEF Dial, OnWire
  <2>3. \A n \in StreamIds : n = opened + 1 => pump[n] = "off"
    BY <1>0 DEF StreamInv, OneStream
  <2>4. \A n \in StreamIds : n \in up' => n \in up \/ n = opened + 1 BY <1>4 DEF Dial
  <2>5. NothingLost' => NothingLost BY <2>1, <2>3, <2>4 DEF NothingLost
  <2>6. TopicFrame BY <2>1, <2>2, <2>5 DEF Subscribing
  <2> QED BY <2>6, QuietTopic
<1>5. CASE Subscribed
  <2>1. UNCHANGED <<topic, sendQ, closed, lost, pump, hand, thread, up, cur>>
    BY <1>5 DEF Subscribed
  <2>2. CASE cur \in up
    <3>1. FirstRequest \in Requests /\ Current(FirstRequest)
      BY RequestTypes DEF TypeInv, FirstRequest, Current
    <3>2. wire'[cur] = Append(wire[cur], FirstRequest) /\ wire[cur] \in Seq(Requests)
      BY <1>0, <1>5, <2>2 DEF Subscribed, Sent
    <3>3. LastSub(wire'[cur]) BY <3>1, <3>2, LastAppended
    <3>4. LastSub(wire[cur])' BY <2>1, <3>3 DEF LastSub, Current
    <3>5. pump'[cur'] = "off" BY <1>5, <2>1 DEF Subscribed, LoopAt, StreamInv
    <3>6. ~closed' /\ NothingLost' /\ ~Subscribing' => Listening
      BY <2>1 DEF TopicInv, NothingLost, Subscribing
    <3>7. Listening => Listening'
      BY <2>1, <3>4, <3>5 DEF Listening, NoSubQueued, LastSub, Current
    <3> QED BY <3>6, <3>7 DEF TopicInv
  <2>3. CASE cur \notin up
    <3>1. ~OnWire' BY <2>1, <2>3 DEF OnWire
    <3>2. TopicFrame BY <2>1, <3>1 DEF NothingLost, Subscribing
    <3> QED BY <3>2, QuietTopic
  <2> QED BY <2>2, <2>3
<1>6. CASE StartPump
  <2>1. UNCHANGED <<topic, sendQ, closed, lost, hand, thread, up, cur, wire>>
        /\ pump' = [pump EXCEPT ![cur] = "run"] /\ pump[cur] = "off"
    BY <1>6 DEF StartPump, LoopAt, StreamInv
  <2>2. \A n \in StreamIds : pump'[n] = "send" <=> pump[n] = "send" BY <1>0, <2>1
  <2>3. OnWire' => OnWire /\ cur \in StreamIds
    BY <1>0, <1>6, <2>1 DEF StartPump, LoopAt, OnWire
  <2>4. TopicFrame BY <2>1, <2>2, <2>3 DEF NothingLost, Subscribing
  <2> QED BY <2>4, QuietTopic
<1>7. CASE \E n \in StreamIds : PumpStops(n)
  <2>1. UNCHANGED <<topic, sendQ, closed, lost, hand, thread, up, cur, wire, loop>>
    BY <1>7 DEF PumpStops
  <2>2. \A n \in StreamIds : pump'[n] = "send" <=> pump[n] = "send"
    BY <1>0, <1>7 DEF PumpStops, PumpAt
  <2>3. OnWire' => OnWire /\ cur \in StreamIds BY <1>0, <2>1 DEF OnWire
  <2>4. TopicFrame BY <2>1, <2>2, <2>3 DEF NothingLost, Subscribing
  <2> QED BY <2>4, QuietTopic
<1>8. CASE Break
  <2>1. UNCHANGED <<topic, sendQ, closed, lost, pump, hand, thread>> /\ ~OnWire' /\ up' \subseteq up
    BY <1>8 DEF Break, OnWire
  <2>2. TopicFrame BY <2>1 DEF NothingLost, Subscribing
  <2> QED BY <2>2, QuietTopic
<1>9. CASE SubscribeFails
  <2>1. UNCHANGED <<topic, sendQ, closed, lost, pump, hand, thread>> /\ ~OnWire' /\ up' \subseteq up
    BY <1>9 DEF SubscribeFails, OnWire
  <2>2. TopicFrame BY <2>1 DEF NothingLost, Subscribing
  <2> QED BY <2>2, QuietTopic
<1> QED BY <1>1, <1>2, <1>3, <1>4, <1>5, <1>6, <1>7, <1>8, <1>9 DEF LoopStep

\* The pump carries the last subscription from the queue to the wire.
LEMMA PumpTopic ==
    ASSUME TypeInv, StreamInv, TopicInv, NEW n \in StreamIds, PumpTake(n) \/ PumpSent(n)
    PROVE  TopicInv'
<1> SUFFICES ASSUME ~closed', NothingLost', ~Subscribing' PROVE Listening'
  BY DEF TopicInv
<1>0. /\ UNCHANGED <<topic, closed, thread, up, cur, loop>>
      /\ wire \in [StreamIds -> Seq(Requests)] /\ pump \in [StreamIds -> PumpPcs]
      /\ hand \in [StreamIds -> Requests] /\ lost \in [StreamIds -> SUBSET (1 .. MaxCalls)]
      /\ sendQ \in Seq(Requests)
  BY DEF PumpTake, PumpSent, TypeInv, TypeOK
<1>1. CASE PumpTake(n)
  <2> DEFINE q == sendQ
  <2>1. /\ q # <<>> /\ sendQ' = Tail(q) /\ hand' = [hand EXCEPT ![n] = Head(q)]
        /\ pump' = [pump EXCEPT ![n] = "send"] /\ UNCHANGED <<wire, lost>> /\ pump[n] = "run"
    BY <1>1 DEF PumpTake, NextRequest, PumpAt
  <2>2. n \in up /\ n = cur BY <1>0, <2>1 DEF NothingLost, StreamInv
  <2>3. NothingLost BY <1>0, <2>1 DEF NothingLost
  <2>4. Listening BY <1>0, <2>3 DEF TopicInv, Subscribing
  <2>5. /\ DOMAIN q = 1 .. Len(q) /\ Len(q) \in Nat \ {0} /\ Head(q) = q[1]
        /\ DOMAIN Tail(q) = 1 .. Len(q) - 1
        /\ \A k \in 1 .. Len(q) - 1 : Tail(q)[k] = q[k + 1]
        /\ \A i \in 1 .. Len(q) : q[i] \in Requests
    BY <1>0, <2>1
  <2> HIDE DEF q
  <2>6. ASSUME LastSub(q), ~NoSubQueued' PROVE LastSub(sendQ')
    <3>1. PICK i \in DOMAIN q : Current(q[i]) /\ \A j \in DOMAIN q : j > i => ~q[j].sub
      BY <2>6 DEF LastSub
    <3>2. PICK k \in DOMAIN Tail(q) : Tail(q)[k].sub BY <2>1, <2>6 DEF NoSubQueued
    <3>3. k + 1 \in DOMAIN q /\ q[k + 1].sub BY <2>5, <3>2
    <3>4. ~(k + 1 > i) BY <3>1, <3>3
    <3>5. i - 1 \in DOMAIN Tail(q) BY <2>5, <3>2, <3>4
    <3>6. Current(Tail(q)[i - 1])
      <4>1. Tail(q)[i - 1] = q[(i - 1) + 1] /\ (i - 1) + 1 = i BY <2>5, <3>5
      <4> QED BY <3>1, <4>1
    <3>7. ASSUME NEW j \in DOMAIN Tail(q), j > i - 1 PROVE ~Tail(q)[j].sub
      <4>1. j + 1 \in DOMAIN q /\ j + 1 > i /\ Tail(q)[j] = q[j + 1] BY <2>5, <3>7
      <4> QED BY <3>1, <4>1
    <3>8. LastSub(Tail(q)) BY <3>5, <3>6, <3>7 DEF LastSub
    <3> QED BY <2>1, <3>8
  <2>7. ASSUME ~NoSubQueued, NoSubQueued' PROVE Current(Head(q)) /\ Head(q).sub
    <3>1. LastSub(q) BY <2>4, <2>7 DEF Listening, q
    <3>2. PICK i \in DOMAIN q : Current(q[i]) /\ \A j \in DOMAIN q : j > i => ~q[j].sub
      BY <3>1 DEF LastSub
    <3>3. CASE i = 1 BY <2>5, <3>2, <3>3 DEF Current
    <3>4. CASE i # 1
      <4>1. i - 1 \in DOMAIN Tail(q) BY <2>5, <3>4
      <4>2. Tail(q)[i - 1] = q[(i - 1) + 1] /\ (i - 1) + 1 = i BY <2>5, <4>1
      <4>3. Tail(q)[i - 1].sub BY <3>2, <4>2 DEF Current
      <4> QED BY <2>1, <2>7, <4>1, <4>3 DEF NoSubQueued
    <3> QED BY <3>3, <3>4
  <2>8. ASSUME ~NoSubQueued' PROVE ~NoSubQueued
    <3>1. PICK k \in DOMAIN Tail(q) : Tail(q)[k].sub BY <2>1, <2>8 DEF NoSubQueued
    <3>2. k + 1 \in DOMAIN q /\ q[k + 1].sub BY <2>5, <3>1
    <3> QED BY <3>2 DEF NoSubQueued, q
  <2>9. ~NoSubQueued' => LastSub(sendQ)'
    <3>1. ~NoSubQueued' => LastSub(sendQ') BY <2>4, <2>6, <2>8 DEF Listening, q
    <3> QED BY <1>0, <3>1 DEF LastSub, Current
  <2>10. hand'[cur] = Head(q) /\ pump'[cur] = "send" BY <1>0, <2>1, <2>2
  <2>11. ASSUME NoSubQueued', OnWire'
         PROVE  IF pump'[cur'] = "send" /\ hand'[cur'].sub THEN Current(hand[cur])'
                                                            ELSE LastSub(wire[cur])'
    <3>1. CASE ~NoSubQueued
      <4>1. Current(Head(q)) /\ Head(q).sub BY <2>7, <2>11, <3>1
      <4> QED BY <1>0, <2>10, <4>1 DEF Current
    <3>2. CASE NoSubQueued
      <4>1. ~Head(q).sub BY <2>5, <3>2 DEF NoSubQueued, q
      <4>2. OnWire BY <1>0, <2>11 DEF OnWire
      <4>3. pump[cur] # "send" BY <2>1, <2>2
      <4>4. LastSub(wire[cur]) BY <2>4, <3>2, <4>2, <4>3 DEF Listening
      <4> QED BY <1>0, <2>1, <2>10, <4>1, <4>4 DEF LastSub, Current
    <3> QED BY <3>1, <3>2
  <2> QED BY <2>9, <2>11 DEF Listening
<1>2. CASE PumpSent(n)
  <2>1. /\ pump[n] = "send" /\ wire' = [wire EXCEPT ![n] = Sent(n, hand[n])] /\ sendQ' = sendQ
        /\ lost' = [lost EXCEPT ![n] = IF n \in up THEN lost[n] ELSE lost[n] \cup {hand[n].id}]
        /\ pump' = [pump EXCEPT ![n] = AfterSend(n)]
    BY <1>2 DEF PumpSent, PumpAt
  <2>2. n \in up
    <3>1. lost'[n] = {} BY DEF NothingLost
    <3> QED BY <1>0, <2>1, <3>1
  <2>3. n = cur /\ lost' = lost BY <1>0, <2>1, <2>2 DEF StreamInv
  <2>4. NothingLost
    <3>1. \A m \in StreamIds \ {n} : pump'[m] = pump[m] BY <1>0, <2>1
    <3> QED BY <1>0, <2>2, <2>3, <3>1 DEF NothingLost
  <2>5. Listening BY <1>0, <2>4 DEF TopicInv, Subscribing
  <2>6. pump'[cur] # "send" BY <1>0, <2>1, <2>2, <2>3 DEF AfterSend
  <2>7. wire'[cur] = Append(wire[cur], hand[cur]) /\ wire[cur] \in Seq(Requests)
        /\ hand[cur] \in Requests
    BY <1>0, <2>1, <2>2, <2>3 DEF Sent
  <2>8. ASSUME NoSubQueued, OnWire PROVE LastSub(wire[cur])'
    <3>1. LastSub(wire'[cur])
      <4>1. CASE hand[cur].sub
        <5>1. Current(hand[cur]) BY <2>1, <2>3, <2>5, <2>8, <4>1 DEF Listening
        <5> QED BY <2>7, <5>1, LastAppended
      <4>2. CASE ~hand[cur].sub
        <5>1. LastSub(wire[cur]) BY <2>5, <2>8, <4>2 DEF Listening
        <5> QED BY <2>7, <4>2, <5>1, LastAppended
      <4> QED BY <4>1, <4>2
    <3> QED BY <1>0, <3>1 DEF LastSub, Current
  <2>9. ~NoSubQueued' => LastSub(sendQ)'
    BY <1>0, <2>1, <2>5 DEF Listening, NoSubQueued, LastSub, Current
  <2> QED BY <1>0, <2>1, <2>6, <2>8, <2>9 DEF Listening, NoSubQueued, OnWire
<1> QED BY <1>1, <1>2

LEMMA StepTopic ==
    TypeInv /\ StreamInv /\ CloseInv /\ SubscriberInv /\ TopicInv /\ [Next]_vars
        => SubscriberInv' /\ TopicInv'
<1> SUFFICES ASSUME TypeInv, StreamInv, CloseInv, SubscriberInv, TopicInv, [Next]_vars
             PROVE  SubscriberInv' /\ TopicInv'
  OBVIOUS
<1>0. Loop \in Threads OBVIOUS
<1>1. ASSUME NEW t \in Threads, BeginSend(t) \/ ThreadStep(t) PROVE SubscriberInv' /\ TopicInv'
  BY <1>1, StepSubscriber, ThreadTopic
<1>2. ASSUME NEW u \in Topics, CallWithTopic(u, FALSE) PROVE SubscriberInv' /\ TopicInv'
  BY <1>0, <1>2, StepSubscriber, ThreadTopic
<1>3. ASSUME NEW u \in Topics, CallWithTopic(u, TRUE) PROVE SubscriberInv' /\ TopicInv'
  <2>1. thread \in [Threads -> ThreadState] BY DEF TypeInv, TypeOK, ThreadState
  <2>2. /\ thread'[Loop].pc = "check" /\ topic' = u
        /\ thread'[Loop].req = [id |-> calls + 1, sub |-> TRUE, topic |-> u, macOk |-> TRUE]
        /\ \A t \in Threads \ {Loop} : thread'[t] = thread[t]
    BY <1>0, <1>3, <2>1 DEF CallWithTopic, At, ThreadState
  <2>3. Subscribing' /\ Current(thread[Loop].req)' BY <2>2 DEF Subscribing, Current
  <2> QED BY <2>2, <2>3 DEF SubscriberInv, TopicInv, Busy
<1>4. ASSUME \/ Start \/ Receive \/ LoopStep \/ CloseSwap \/ CloserStep \/ Break
             \/ (\E n \in StreamIds : PumpStep(n)) \/ UNCHANGED vars
      PROVE  UNCHANGED <<thread, topic>>
  BY <1>4 DEF Start, Receive, LoopStep, Launch, Dial, SubscribeFails, Subscribe, Subscribed,
              StartPump, CallbackReturns, RecvFails, BackoffOver, CloseSwap, CloserStep, CloseCancel, CloseQueue,
              CloseWaitPumps, CloseWaitLoop, Break, PumpStep, PumpTake, PumpSent, PumpStops, vars
<1>5. ASSUME NEW n \in StreamIds, PumpStep(n) PROVE SubscriberInv' /\ TopicInv'
  BY <1>4, <1>5, ThreadsKept, PumpTopic, LoopTopic DEF PumpStep
<1>6. ASSUME \/ Start \/ Receive \/ LoopStep \/ CloseSwap \/ CloserStep \/ Break
             \/ UNCHANGED vars
      PROVE  SubscriberInv' /\ TopicInv'
  BY <1>4, <1>6, ThreadsKept, LoopTopic
<1>7. ASSUME NEW u \in Topics, NEW sub \in BOOLEAN, CallWithTopic(u, sub)
      PROVE  SubscriberInv' /\ TopicInv'
  <2>1. CASE sub = TRUE BY <1>3, <1>7, <2>1
  <2>2. CASE sub = FALSE BY <1>2, <1>7, <2>2
  <2> QED BY <2>1, <2>2
<1> QED BY <1>1, <1>5, <1>6, <1>7 DEF Next

\* session.go:268 and 145, the SUBSCRIBE of a new stream and SubscribeToNewTopicWithPayload:
\* whatever was queued, taken or broken in between, a settled session that has lost no
\* request is subscribed, at the relay, to the topic it believes current.
THEOREM SubscribedToTopic == Spec => []TopicAgreement
<1>1. /\ TypeInv /\ TypeInv' /\ StreamInv /\ StreamInv' /\ CloseInv /\ CloseInv'
      /\ SubscriberInv /\ TopicInv /\ [Next]_vars
      => SubscriberInv' /\ TopicInv'
  BY StepTopic
<1>2. TypeInv /\ SubscriberInv /\ TopicInv => TopicAgreement
  <2> SUFFICES ASSUME TypeInv, TopicInv, Settled, \A n \in StreamIds : lost[n] = {}
               PROVE  \E i \in DOMAIN wire[cur] :
                         /\ Subscribes(wire[cur][i]) /\ wire[cur][i].topic = topic
                         /\ \A j \in DOMAIN wire[cur] : Subscribes(wire[cur][j]) => j <= i
    BY DEF TopicAgreement
  <2>1. NothingLost /\ ~Subscribing /\ NoSubQueued /\ OnWire
    BY DEF Settled, NothingLost, Subscribing, NoSubQueued, OnWire
  <2>2. cur \in StreamIds /\ pump[cur] # "send"
    BY BoundAssumption DEF Settled, TypeInv, TypeOK
  <2>3. LastSub(wire[cur]) BY <2>1, <2>2 DEF Settled, TopicInv, Listening
  <2>4. PICK i \in DOMAIN wire[cur] :
           Current(wire[cur][i]) /\ \A j \in DOMAIN wire[cur] : j > i => ~wire[cur][j].sub
    BY <2>3 DEF LastSub
  <2>5. DOMAIN wire[cur] \subseteq Int
    BY <2>2, Entries
  <2>6. \A j \in DOMAIN wire[cur] : Subscribes(wire[cur][j]) => j <= i
    BY <2>4, <2>5 DEF Subscribes
  <2> QED BY <2>4, <2>6 DEF Current, Subscribes
<1> QED BY InitSubscriber, <1>1, <1>2, Typing, Streaming, Closing, PTL DEF Spec
=============================================================================
