---------------------------- MODULE ClientSession ----------------------------
(***************************************************************************)
(* The relay client of internal/subscriber: session.go.                     *)
(*                                                                          *)
(* One Session is shared by the tunnelLoop goroutine (which also runs the   *)
(* onMessage callback), by one writerPump goroutine per stream it opened,   *)
(* by the goroutines that call Send and SendImmediate, and by the one that  *)
(* calls Close.  A stream.Send on a live stream puts the request on its     *)
(* wire; when the stream breaks, the relay has received some prefix of it.  *)
(***************************************************************************)
EXTENDS Integers, Sequences, FiniteSets

CONSTANTS
    Callers,       \* goroutines that publish, besides the callback
    Loop,          \* the tunnelLoop goroutine, publishing from its callback
    Topics,
    FirstTopic,    \* the topic given to NewSession
    QueueCap,      \* session.go:58, capacity of sendQ
    MaxStreams,    \* bound: Tunnel streams opened
    MaxEvents,     \* bound: events received
    MaxCalls       \* bound: publishing and subscribing calls

ASSUME ThreadAssumption == Loop \notin Callers
ASSUME TopicAssumption == FirstTopic \in Topics
ASSUME SizeAssumption == QueueCap \in Nat \ {0}
ASSUME BoundAssumption == MaxStreams \in Nat /\ MaxEvents \in Nat /\ MaxCalls \in Nat

VARIABLES
    topic,         \* Session.topic
    closed,        \* Session.closed
    cancelled,     \* Session.ctx is cancelled
    cur,           \* Session.stream: number of the stream published last, 0 = nil
    sendQ,         \* Session.sendQ
    qClosed,       \* sendQ has been closed
    loop,          \* where tunnelLoop is
    thread,        \* where every caller (and the callback) is, and its request
    pump,          \* the writerPump of every stream: off, run, send, stopped
    hand,          \* the request a writerPump is sending
    stopped,       \* streams whose sendCtx is cancelled
    closer,        \* where Close is
    up,            \* live streams
    opened,        \* number of streams opened so far
    wire,          \* requests put on each stream
    panicked,      \* a goroutine sent on the closed sendQ
    events,        \* events received so far
    calls,         \* calls made so far
    \* history variables, read by properties only
    accepted,      \* requests enqueue accepted, in order
    lost,          \* per stream: accepted requests that died in its pump's hand
    late           \* per stream: requests enqueued after its sendCancel

session == <<topic, closed, cancelled, cur>>
chan    == <<sendQ, qClosed>>
pumps   == <<pump, hand, stopped>>
net     == <<up, opened, wire, events>>
ghost   == <<accepted, lost, late>>
vars    == <<session, chan, loop, thread, pumps, closer, net, panicked, calls, ghost>>

StreamIds == 1 .. MaxStreams
Threads   == Callers \cup {Loop}

\* A request: its number (0 for the SUBSCRIBE of tunnelLoop), its topic, and
\* whether its MAC was computed over that topic.
Requests  == [id : 0 .. MaxCalls, sub : BOOLEAN, topic : Topics, macOk : BOOLEAN]
NoRequest == [id |-> 0, sub |-> FALSE, topic |-> FirstTopic, macOk |-> TRUE]

LoopPcs   == {"off", "starting", "dial", "opened", "subscribe", "sent", "read", "callback",
              "backoff", "ended"}
ThreadPcs == {"idle", "build", "check", "select", "load", "direct"}
PumpPcs   == {"off", "run", "send", "stopped"}
CloserPcs == {"idle", "swapped", "cancelled", "closedQ", "pumpsDone", "returned"}

Init ==
    /\ topic = FirstTopic
    /\ closed = FALSE
    /\ cancelled = FALSE
    /\ cur = 0
    /\ sendQ = <<>>
    /\ qClosed = FALSE
    /\ loop = "off"
    /\ thread = [t \in Threads |-> [pc |-> "idle", req |-> NoRequest, direct |-> FALSE, on |-> 0]]
    /\ pump = [n \in StreamIds |-> "off"]
    /\ hand = [n \in StreamIds |-> NoRequest]
    /\ stopped = {}
    /\ closer = "idle"
    /\ up = {}
    /\ opened = 0
    /\ wire = [n \in StreamIds |-> <<>>]
    /\ panicked = FALSE
    /\ events = 0
    /\ calls = 0
    /\ accepted = <<>>
    /\ lost = [n \in StreamIds |-> {}]
    /\ late = [n \in StreamIds |-> {}]
-----------------------------------------------------------------------------
(* Where a goroutine is; a panic ends the process. *)

ThreadAt(t, pc) == ~panicked /\ thread[t].pc = pc
LoopAt(pc)      == ~panicked /\ loop = pc
PumpAt(n, pc)   == ~panicked /\ pump[n] = pc
-----------------------------------------------------------------------------
(* Send, SendImmediate, SendToTopic, SubscribeToNewTopicWithPayload: by a      *)
(* caller, or by the callback on the tunnelLoop goroutine.                     *)

Idle(t) == ThreadAt(t, "idle") /\ (t = Loop => loop = "callback")

At(t, pc, req) == thread' = [thread EXCEPT ![t].pc = pc, ![t].req = req]

Call(t) ==
    /\ Idle(t)
    /\ ~closed
    /\ calls < MaxCalls
    /\ calls' = calls + 1

\* Send, SendImmediate: the MAC is computed over Session.topic ...
BeginSend(t) ==
    /\ Call(t)
    /\ \E direct \in BOOLEAN :
          thread' = [thread EXCEPT ![t] =
              [pc |-> "build", on |-> 0, direct |-> direct,
               req |-> [id |-> calls + 1, sub |-> FALSE, topic |-> topic, macOk |-> TRUE]]]
    /\ UNCHANGED <<session, chan, loop, pumps, closer, net, panicked, ghost>>

\* ... and Session.topic is read again for the request, without a lock.
Build(t) ==
    /\ ThreadAt(t, "build")
    /\ At(t, IF thread[t].direct THEN "load" ELSE "check",
          [thread[t].req EXCEPT !.topic = topic, !.macOk = topic = thread[t].req.topic])
    /\ UNCHANGED <<session, chan, loop, pumps, closer, net, panicked, calls, ghost>>

\* SendToTopic and SubscribeToNewTopicWithPayload, called from the callback:
\* the topic is an argument; a subscription becomes the current topic at once.
CallWithTopic(u, sub) ==
    /\ Call(Loop)
    /\ At(Loop, "check", [id |-> calls + 1, sub |-> sub, topic |-> u, macOk |-> TRUE])
    /\ topic' = IF sub THEN u ELSE topic
    /\ UNCHANGED <<closed, cancelled, cur, chan, loop, pumps, closer, net, panicked, ghost>>

\* enqueue, first half: the closed flag.
CheckClosed(t) ==
    /\ ThreadAt(t, "check")
    /\ At(t, IF closed THEN "idle" ELSE "select", thread[t].req)
    /\ UNCHANGED <<session, chan, loop, pumps, closer, net, panicked, calls, ghost>>

HasRoom == ~qClosed /\ Len(sendQ) < QueueCap

\* enqueue, the select: room in the queue, or the context is cancelled, or the
\* channel was closed since: Go picks one of the ready cases, and sending on a
\* closed channel panics.
Select(t) ==
    /\ ThreadAt(t, "select")
    /\ \/ /\ HasRoom
          /\ sendQ' = Append(sendQ, thread[t].req)
          /\ accepted' = Append(accepted, thread[t].req.id)
          /\ late' = [n \in StreamIds |->
                        IF n \in stopped THEN late[n] \cup {thread[t].req.id} ELSE late[n]]
          /\ UNCHANGED panicked
       \/ /\ cancelled
          /\ UNCHANGED <<sendQ, accepted, late, panicked>>
       \/ /\ qClosed
          /\ panicked' = TRUE
          /\ UNCHANGED <<sendQ, accepted, late>>
    /\ At(t, "idle", NoRequest)
    /\ UNCHANGED <<session, qClosed, loop, pumps, closer, net, calls, lost>>

\* SendImmediate: read the stream pointer; none yet means enqueue.
LoadStream(t) ==
    /\ ThreadAt(t, "load")
    /\ thread' = [thread EXCEPT ![t].pc = IF cur = 0 THEN "check" ELSE "direct", ![t].on = cur]
    /\ UNCHANGED <<session, chan, loop, pumps, closer, net, panicked, calls, ghost>>

\* The requests the relay gets from stream n once r was sent on it.
Sent(n, r) == IF n \in up THEN Append(wire[n], r) ELSE wire[n]

\* SendImmediate: stream.Send returns, with an error if the stream is down.
DirectSent(t) ==
    /\ ThreadAt(t, "direct")
    /\ wire' = [wire EXCEPT ![thread[t].on] = Sent(thread[t].on, thread[t].req)]
    /\ At(t, "idle", NoRequest)
    /\ UNCHANGED <<session, chan, loop, pumps, closer, up, opened, events, panicked, calls,
                   ghost>>
-----------------------------------------------------------------------------
(* Start and tunnelLoop. *)

\* Start, on the goroutine of DIA: the closed flag ...
Start ==
    /\ LoopAt("off")
    /\ ~closed
    /\ loop' = "starting"
    /\ UNCHANGED <<session, chan, thread, pumps, closer, net, panicked, calls, ghost>>

\* ... then wg.Add and go tunnelLoop, perhaps after Close, called by Cleanup on another
\* goroutine, has run in between.
Launch ==
    /\ LoopAt("starting")
    /\ loop' = "dial"
    /\ UNCHANGED <<session, chan, thread, pumps, closer, net, panicked, calls, ghost>>

\* Tunnel succeeds and the stream is published; or fails, for a while or for good.  A
\* cancelled context ends the loop first.
Dial ==
    /\ LoopAt("dial")
    /\ \/ /\ ~cancelled
          /\ opened < MaxStreams
          /\ opened' = opened + 1
          /\ up' = up \cup {opened + 1}
          /\ cur' = opened + 1
          /\ loop' = "opened"
       \/ /\ ~cancelled
          /\ loop' \in {"backoff", "ended"}
          /\ UNCHANGED <<opened, up, cur>>
       \/ /\ cancelled
          /\ loop' = "ended"
          /\ UNCHANGED <<opened, up, cur>>
    /\ UNCHANGED <<topic, closed, cancelled, chan, thread, pumps, closer, wire, events, panicked,
                   calls, ghost>>

\* The SUBSCRIBE that opens every stream, for the topic current now.
\* (Faulty variant: for the topic the session was created with.)
FirstRequestStale == [id |-> 0, sub |-> TRUE, topic |-> FirstTopic, macOk |-> TRUE]
FirstRequest == [id |-> 0, sub |-> TRUE, topic |-> topic, macOk |-> TRUE]

\* Its MAC cannot be built: CloseSend, after which the stream takes no request.
SubscribeFails ==
    /\ LoopAt("opened")
    /\ up' = up \ {cur}
    /\ loop' = IF cancelled THEN "ended" ELSE "backoff"
    /\ UNCHANGED <<session, chan, thread, pumps, closer, wire, opened, events, panicked, calls,
                   ghost>>

\* stream.Send of the SUBSCRIBE begins.
Subscribe ==
    /\ LoopAt("opened")
    /\ loop' = "subscribe"
    /\ UNCHANGED <<session, chan, thread, pumps, closer, net, panicked, calls, ghost>>

\* It returns, with an error if the stream is down.
Subscribed ==
    /\ LoopAt("subscribe")
    /\ wire' = [wire EXCEPT ![cur] = Sent(cur, FirstRequest)]
    /\ loop' = IF cur \in up THEN "sent" ELSE IF cancelled THEN "ended" ELSE "backoff"
    /\ UNCHANGED <<session, chan, thread, pumps, closer, up, opened, events, panicked, calls,
                   ghost>>

\* sendWg.Add and go writerPump.
StartPump ==
    /\ LoopAt("sent")
    /\ loop' = "read"
    /\ pump' = [pump EXCEPT ![cur] = "run"]
    /\ UNCHANGED <<session, chan, thread, hand, stopped, closer, net, panicked, calls, ghost>>

\* Recv returns an EVENT, perhaps one buffered before the stream died: onMessage runs
\* on this goroutine ...
Receive ==
    /\ LoopAt("read")
    /\ events < MaxEvents
    /\ events' = events + 1
    /\ loop' = "callback"
    /\ UNCHANGED <<session, chan, thread, pumps, closer, up, opened, wire, panicked, calls, ghost>>

\* ... and returns.
CallbackReturns ==
    /\ LoopAt("callback")
    /\ thread[Loop].pc = "idle"
    /\ loop' = "read"
    /\ UNCHANGED <<session, chan, thread, pumps, closer, net, panicked, calls, ghost>>

\* Recv fails: sendCancel; Canceled and DeadlineExceeded end the loop, any other
\* status reconnects.
RecvFails ==
    /\ LoopAt("read")
    /\ cur \notin up
    /\ stopped' = stopped \cup {cur}
    /\ \/ loop' = "ended"
       \/ ~cancelled /\ loop' = "backoff"
    /\ UNCHANGED <<session, chan, thread, pump, hand, closer, net, panicked, calls, ghost>>

BackoffOver ==
    /\ LoopAt("backoff")
    /\ loop' = IF cancelled THEN "ended" ELSE "dial"
    /\ UNCHANGED <<session, chan, thread, pumps, closer, net, panicked, calls, ghost>>
-----------------------------------------------------------------------------
(* writerPump of stream n. *)

\* The select, a request in the queue: taken even when ctx.Done is ready too.
\* (Faulty variant: the newest request first.)
NextRequestLast == <<sendQ[Len(sendQ)], SubSeq(sendQ, 1, Len(sendQ) - 1)>>
NextRequest == <<Head(sendQ), Tail(sendQ)>>

PumpTake(n) ==
    /\ PumpAt(n, "run")
    /\ sendQ # <<>>
    /\ hand' = [hand EXCEPT ![n] = NextRequest[1]]
    /\ sendQ' = NextRequest[2]
    /\ pump' = [pump EXCEPT ![n] = "send"]
    /\ UNCHANGED <<session, qClosed, loop, thread, stopped, closer, net, panicked, calls, ghost>>

\* stream.Send returns; an error ends the pump, with the request it held.
\* (Faulty variant: the pump goes on.)
AfterSendAlways(n) == "run"
AfterSend(n) == IF n \in up THEN "run" ELSE "stopped"

PumpSent(n) ==
    /\ PumpAt(n, "send")
    /\ wire' = [wire EXCEPT ![n] = Sent(n, hand[n])]
    /\ pump' = [pump EXCEPT ![n] = AfterSend(n)]
    /\ lost' = [lost EXCEPT ![n] = IF n \in up THEN @ ELSE @ \cup {hand[n].id}]
    /\ hand' = [hand EXCEPT ![n] = NoRequest]
    /\ UNCHANGED <<session, chan, loop, thread, stopped, closer, up, opened, events, panicked,
                   calls, accepted, late>>

\* ctx.Done (sendCancel or Close), or the queue closed and drained.
PumpStops(n) ==
    /\ PumpAt(n, "run")
    /\ n \in stopped \/ cancelled \/ (qClosed /\ sendQ = <<>>)
    /\ pump' = [pump EXCEPT ![n] = "stopped"]
    /\ UNCHANGED <<session, chan, loop, thread, hand, stopped, closer, net, panicked, calls,
                   ghost>>
-----------------------------------------------------------------------------
(* Close. *)

CloseStep(from, to) == ~panicked /\ closer = from /\ closer' = to

CloseSwap ==
    /\ CloseStep("idle", "swapped")
    /\ closed' = TRUE
    /\ UNCHANGED <<topic, cancelled, cur, chan, loop, thread, pumps, net, panicked, calls, ghost>>

\* What the relay has received of a stream that goes down.
Truncated(q) == {SubSeq(q, 1, k) : k \in 0 .. Len(q)}

\* cancel: the context of every stream, and of every blocked call.
\* (Faulty variant: the streams were opened on another context.)
SurvivingCancelAll == up
SurvivingCancel == {}

CloseCancel ==
    /\ CloseStep("swapped", "cancelled")
    /\ cancelled' = TRUE
    /\ up' = SurvivingCancel
    /\ IF cur \in up
         THEN \E q \in Truncated(wire[cur]) : wire' = [wire EXCEPT ![cur] = q]
         ELSE UNCHANGED wire
    /\ UNCHANGED <<topic, closed, cur, chan, loop, thread, pumps, opened, events, panicked, calls,
                   ghost>>

CloseQueue ==
    /\ CloseStep("cancelled", "closedQ")
    /\ qClosed' = TRUE
    /\ UNCHANGED <<session, sendQ, loop, thread, pumps, net, panicked, calls, ghost>>

\* sendWg.Wait, then wg.Wait.
CloseWaitPumps ==
    /\ CloseStep("closedQ", "pumpsDone")
    /\ \A n \in StreamIds : pump[n] \in {"off", "stopped"}
    /\ UNCHANGED <<session, chan, loop, thread, pumps, net, panicked, calls, ghost>>

\* A loop that Start has not added to wg yet is not waited for.
\* (Faulty variant: without waiting for tunnelLoop.)
LoopDoneUnchecked == TRUE
LoopDone == loop \in {"off", "starting", "ended"}

CloseWaitLoop ==
    /\ CloseStep("pumpsDone", "returned")
    /\ LoopDone
    /\ UNCHANGED <<session, chan, loop, thread, pumps, net, panicked, calls, ghost>>
-----------------------------------------------------------------------------
\* The network or the relay ends the stream.
Break ==
    /\ ~panicked
    /\ cur \in up
    /\ up' = up \ {cur}
    /\ \E q \in Truncated(wire[cur]) : wire' = [wire EXCEPT ![cur] = q]
    /\ UNCHANGED <<session, chan, loop, thread, pumps, closer, opened, events, panicked, calls,
                   ghost>>

ThreadStep(t) ==
    \/ Build(t) \/ CheckClosed(t) \/ Select(t) \/ LoadStream(t) \/ DirectSent(t)

LoopStep ==
    \/ Launch \/ Dial \/ SubscribeFails \/ Subscribe \/ Subscribed \/ StartPump
    \/ CallbackReturns \/ RecvFails \/ BackoffOver

PumpStep(n) == PumpTake(n) \/ PumpSent(n) \/ PumpStops(n)

CloserStep == CloseCancel \/ CloseQueue \/ CloseWaitPumps \/ CloseWaitLoop

Next ==
    \/ \E t \in Threads : BeginSend(t) \/ ThreadStep(t)
    \/ \E u \in Topics, sub \in BOOLEAN : CallWithTopic(u, sub)
    \/ Start \/ Receive \/ LoopStep
    \/ \E n \in StreamIds : PumpStep(n)
    \/ CloseSwap \/ CloserStep
    \/ Break

Spec == Init /\ [][Next]_vars

\* Every goroutine that can run does, Recv and Send on a dead stream return, and
\* a callback returns.  Nothing makes anyone call, close, or break a stream.
Fairness ==
    /\ \A t \in Threads : WF_vars(ThreadStep(t))
    /\ WF_vars(LoopStep)
    /\ \A n \in StreamIds : WF_vars(PumpStep(n))
    /\ WF_vars(CloserStep)

FairSpec == Spec /\ Fairness
-----------------------------------------------------------------------------
(* Properties. *)

TypeOK ==
    /\ topic \in Topics
    /\ closed \in BOOLEAN /\ cancelled \in BOOLEAN /\ qClosed \in BOOLEAN /\ panicked \in BOOLEAN
    /\ cur \in 0 .. opened /\ opened \in 0 .. MaxStreams
    /\ sendQ \in Seq(Requests) /\ Len(sendQ) <= QueueCap
    /\ loop \in LoopPcs /\ closer \in CloserPcs
    /\ thread \in [Threads -> [pc : ThreadPcs, req : Requests, direct : BOOLEAN,
                               on : 0 .. MaxStreams]]
    /\ pump \in [StreamIds -> PumpPcs]
    /\ hand \in [StreamIds -> Requests]
    /\ stopped \subseteq 1 .. opened
    /\ up \subseteq 1 .. opened
    /\ wire \in [StreamIds -> Seq(Requests)]
    /\ events \in 0 .. MaxEvents
    /\ calls \in 0 .. MaxCalls
    /\ accepted \in Seq(1 .. MaxCalls)
    /\ lost \in [StreamIds -> SUBSET (1 .. MaxCalls)]
    /\ late \in [StreamIds -> SUBSET (1 .. MaxCalls)]

\* enqueue and the writer pumps: across reconnections, while an old pump may
\* still be running beside the new one, the relay never gets a queued request
\* twice, nor after one that was accepted later.
QueueOrder ==
    \A n, m \in StreamIds :
    \A i \in DOMAIN wire[n], j \in DOMAIN wire[m], x, y \in DOMAIN accepted :
        /\ n < m \/ (n = m /\ i < j)
        /\ wire[n][i].id = accepted[x]
        /\ wire[m][j].id = accepted[y]
        => x < y

\* writerPump's error return: however long the queue, a stream that dies takes
\* at most one request out of the queue without putting it on a wire, even while
\* nobody has noticed that it is dead.  (Of what is on its wire the relay may
\* have received less.)
OneLostPerStream == \A n \in StreamIds : Cardinality(lost[n]) <= 1

\* The relay takes r as a SUBSCRIBE.
Subscribes(r) == r.sub /\ r.macOk

\* Everything the session was asked has been sent on a live stream.
Settled ==
    /\ loop = "read" /\ cur \in up /\ ~closed
    /\ sendQ = <<>>
    /\ \A n \in StreamIds : pump[n] # "send"
    /\ thread[Loop].pc = "idle"

\* SubscribeToNewTopicWithPayload and the SUBSCRIBE of a reconnection: a settled
\* session listens, at the relay, to the topic it believes current, unless a pump
\* has lost a request.
TopicAgreement ==
    Settled /\ (\A n \in StreamIds : lost[n] = {}) =>
        \E i \in DOMAIN wire[cur] :
            /\ Subscribes(wire[cur][i])
            /\ wire[cur][i].topic = topic
            /\ \A j \in DOMAIN wire[cur] : Subscribes(wire[cur][j]) => j <= i

\* Where tunnelLoop is before it has opened a stream, and after its end.
Idling == {"off", "starting", "dial", "ended"}

\* Close returned: no callback runs any more and none will, no stream is opened,
\* and the relay gets nothing from the session's goroutines.  A Start that was
\* overtaken by Close (session.go:94 to 98) may still launch the loop, which
\* then only finds the context cancelled.
CloseQuiet ==
    [][closer = "returned" => /\ {loop, loop'} \subseteq Idling
                              /\ opened' = opened /\ wire' = wire]_vars

\* Close returns, whoever is blocked on the full queue, unless the program dies
\* of a send on the closed queue.
CloseReturns == closer = "swapped" ~> closer = "returned" \/ panicked
-----------------------------------------------------------------------------
(* What the comments of session.go say; the code does not keep it. *)

\* enqueue answers "session closed" (session.go:359) once Close has run.
\* A caller that passed the check before Close panics instead.
NoSendOnClosed == ~panicked

Writers(n) ==
    {t \in Threads : thread[t].pc = "direct" /\ thread[t].on = n}
        \cup (IF pump[n] = "send" THEN {"writerPump"} ELSE {})
        \cup (IF loop = "subscribe" /\ cur = n THEN {"tunnelLoop"} ELSE {})

\* session.go:41 "single-writer pump for outbound frames".
SingleWriter == \A n \in StreamIds : Cardinality(Writers(n)) <= 1

\* session.go:350 "Send failed: let recv loop handle reconnect".
SendFailureReconnects ==
    \A n \in StreamIds :
        pump[n] = "stopped" /\ cur = n /\ ~closed ~> n \in stopped \/ closed \/ panicked

\* session.go:309 "stop writer", at sendCancel: what is enqueued afterwards is left
\* for the next stream's writer.
StoppedTakesNothing == \A n \in StreamIds : late[n] \cap lost[n] = {}

\* session.go:102 "Send publishes one payload to the current topic": a request
\* the relay receives carries the MAC of its own topic.
MacMatchesTopic == \A n \in StreamIds : \A i \in DOMAIN wire[n] : wire[n][i].macOk

\* session.go:180 "Close stops the Tunnel and waits for cleanup".
CloseWaitsForPumps ==
    closer = "returned" => \A n \in StreamIds : pump[n] \in {"off", "stopped"}
=============================================================================
