-------------------------------- MODULE Relay --------------------------------
(***************************************************************************)
(* The topic relay of internal/relay: grpc.go (the Tunnel handler and the   *)
(* writer goroutine of every client stream, the in-memory topic index) and  *)
(* redis_store.go (the history list and the tracking key of every topic).   *)
(*                                                                          *)
(* A session is one client stream.  Its two goroutines, the Tunnel handler  *)
(* and the writer, interleave with those of every other session at the      *)
(* points where the code takes or releases Server.mu, issues a Redis        *)
(* command, touches the replaying flag or a send queue.  A published        *)
(* payload is its number: the index of its entry in frames.                 *)
(***************************************************************************)
EXTENDS Integers, Sequences, FiniteSets

CONSTANTS
    Sessions,      \* client streams, each used once
    Topics,
    Senders,       \* the sender_id values of the requests
    Anonymous,     \* the empty sender_id
    SenderOf,      \* the sender_id a stream's client puts in its requests
    Terminal,      \* inputs: subset of BOOLEAN, may a payload be a BYE / AKE_COMPLETE
    HistoryCap,    \* redis_store.go:80, LTRIM 0 99
    QueueCap,      \* grpc.go:151, capacity of sendQ
    MaxMsgs,       \* bound: payloads published in a behaviour
    MaxSubs,       \* bound: SUBSCRIBE requests per stream
    MaxRejects,    \* bound: requests refused before dispatch
    MaxCrashes,    \* bound: relay process crashes
    MaxBreaks,     \* bound: streams that break or are closed by their client
    RedisFaults,   \* may a Redis command of a healthy stream fail
    Expiry,        \* may a Redis key reach its TTL
    NoTopic,       \* activeTopic = ""
    NoSession

ASSUME SendersAssumption == SenderOf \in [Sessions -> Senders]
ASSUME CapAssumption == HistoryCap \in Nat \ {0} /\ QueueCap \in Nat \ {0}
ASSUME BoundsAssumption == /\ MaxMsgs \in Nat /\ MaxSubs \in Nat
                           /\ MaxRejects \in Nat /\ MaxCrashes \in Nat
                           /\ MaxBreaks \in Nat
ASSUME SwitchAssumption == /\ RedisFaults \in BOOLEAN
                           /\ Expiry \in BOOLEAN
                           /\ Terminal \subseteq BOOLEAN
ASSUME NoneAssumption == NoTopic \notin Topics /\ NoSession \notin Sessions

VARIABLES
    stream,        \* gRPC stream: new, open, broken (closed or cancelled), done
    pc,            \* where the stream's Tunnel handler is
    req,           \* the request it handles
    hist,          \* handler-local: hist of handleSubscribe
    todo,          \* handler-local: history entries still to enqueue
    fan,           \* handler-local: recipients of handlePublish still to visit
    aim,           \* handler-local: recipient whose replaying flag was read FALSE
    buckets,       \* keys of Server.clients
    subs,          \* Server.clients[topic]
    activeTopic,   \* session.activeTopic
    replaying,     \* session.replaying
    sendQ,         \* session.sendQ: payload numbers, 0 for an ERROR response
    qClosed,       \* sendQ has been closed
    writer,        \* the writer goroutine: off, run, stopped
    log,           \* Redis list topic:<t>:messages, oldest first; <<>> = no key
    tracked,       \* topics whose key topic:<t>:exists is set
    frames,        \* every payload received by the relay, in order of receipt
    received,      \* payloads each client was sent
    nsub,          \* SUBSCRIBE requests received per stream
    rejects,       \* requests refused before dispatch
    crashes,       \* process crashes
    \* history variables, read by properties only
    dropped,       \* payloads tryEnqueue or a failing Send lost, per stream
    owed,          \* payloads the current or last replay has to hand over
    late,          \* payloads skipped for a replaying stream after its catch-up read
    clean,         \* the log only grew between the two reads of the replay
    cleared        \* terminal payloads whose DeleteTopic succeeded

loop   == <<hist, todo, fan, aim>>
local  == <<pc, req, loop>>
index  == <<buckets, subs, activeTopic>>
queue  == <<sendQ, qClosed, dropped>>
redis  == <<log, tracked>>
ghost  == <<owed, late, clean, cleared>>
shared == <<index, replaying, queue, redis, ghost>>
client == <<frames, received, nsub, rejects>>
env    == <<stream, writer, client, crashes>>
vars   == <<local, shared, env>>

Ops        == {"publish", "subscribe"}
Streams    == {"new", "open", "broken", "done"}
Writers    == {"off", "run", "stopped"}
FrameIds   == 1 .. MaxMsgs
NoReq      == [op |-> "publish", topic |-> NoTopic, msg |-> 0]
Requests   == [op : Ops, topic : Topics \cup {NoTopic}, msg : 0 .. MaxMsgs]
Frames     == [from : Sessions, topic : Topics, terminal : BOOLEAN]

\* The points of a handler between two steps, in program order.
PublishPcs   == {"pubLookup", "pubRedis", "snapshot", "store", "trim", "fan", "aim"}
BeforeJoin   == {"subLookup", "subRedis", "bucketNew", "bucketOld", "create",
                 "leave", "fetch", "join"}
SubscribePcs == BeforeJoin \cup {"replay", "catchup"}
Pcs          == {"off", "recv", "returned"} \cup PublishPcs \cup SubscribePcs

Elems(q) == {q[i] : i \in 1 .. Len(q)}

Init ==
    /\ stream = [s \in Sessions |-> "new"]
    /\ pc = [s \in Sessions |-> "off"]
    /\ req = [s \in Sessions |-> NoReq]
    /\ hist = [s \in Sessions |-> <<>>]
    /\ todo = [s \in Sessions |-> <<>>]
    /\ fan = [s \in Sessions |-> {}]
    /\ aim = [s \in Sessions |-> NoSession]
    /\ buckets = {}
    /\ subs = [t \in Topics |-> {}]
    /\ activeTopic = [s \in Sessions |-> NoTopic]
    /\ replaying = [s \in Sessions |-> FALSE]
    /\ sendQ = [s \in Sessions |-> <<>>]
    /\ qClosed = [s \in Sessions |-> FALSE]
    /\ writer = [s \in Sessions |-> "off"]
    /\ log = [t \in Topics |-> <<>>]
    /\ tracked = {}
    /\ frames = <<>>
    /\ received = [s \in Sessions |-> <<>>]
    /\ nsub = [s \in Sessions |-> 0]
    /\ rejects = 0
    /\ crashes = 0
    /\ dropped = [s \in Sessions |-> {}]
    /\ owed = [s \in Sessions |-> {}]
    /\ late = [s \in Sessions |-> {}]
    /\ clean = [s \in Sessions |-> FALSE]
    /\ cleared = {}
-----------------------------------------------------------------------------
(* Helpers shared by the handlers. *)

\* A Redis command issued with the stream's context fails once that context is
\* cancelled; on a healthy stream only if Redis itself fails.
MayFail(s) == RedisFaults \/ stream[s] = "broken"

\* TopicExists: the list or the tracking key is there.  (Two EXISTS, read in one step.)
InRedis(t) == t \in tracked \/ log[t] # <<>>

Exists(t) == t \in buckets \/ InRedis(t)

Goto(s, p) == pc' = [pc EXCEPT ![s] = p]

\* Skip one's own payloads in a replay: filtering needs a non-empty sender_id.
OwnPayload(s, m) == /\ SenderOf[s] # Anonymous
                    /\ SenderOf[frames[m].from] = SenderOf[s]

\* (Faulty variant: one more than the capacity.)
CanEnqueueOver(s) == ~qClosed[s] /\ Len(sendQ[s]) <= QueueCap
CanEnqueue(s) == ~qClosed[s] /\ Len(sendQ[s]) < QueueCap

\* tryEnqueue: appended, or dropped when the queue is full; the panic of a send
\* on a closed queue is recovered, which drops too.
TryEnqueue(s, m) ==
    /\ sendQ' = [sendQ EXCEPT ![s] = IF CanEnqueue(s) THEN Append(@, m) ELSE @]
    /\ dropped' = [dropped EXCEPT ![s] = IF CanEnqueue(s) \/ m = 0 THEN @ ELSE @ \cup {m}]
    /\ UNCHANGED qClosed

\* The topics left in Server.clients once s is deleted from its topic.
\* (Faulty variant: the emptied bucket is kept.)
BucketsKeepingEmpty(s) == buckets
BucketsWithout(s) ==
    IF activeTopic[s] # NoTopic /\ subs[activeTopic[s]] \subseteq {s}
    THEN buckets \ {activeTopic[s]}
    ELSE buckets

\* removeFromActive, and the first half of detach, one critical section.
\* (Faulty variant: activeTopic is cleared, the set keeps the session.)
LeaveTopicInName(s) ==
    /\ activeTopic' = [activeTopic EXCEPT ![s] = NoTopic]
    /\ UNCHANGED <<buckets, subs>>
LeaveTopic(s) ==
    /\ buckets' = BucketsWithout(s)
    /\ subs' = [t \in Topics |-> IF t = activeTopic[s] THEN subs[t] \ {s} ELSE subs[t]]
    /\ activeTopic' = [activeTopic EXCEPT ![s] = NoTopic]

\* detach also closes the queue (once).
\* (Faulty variant: all of detach runs once.)
DetachOnce(s) ==
    IF qClosed[s]
    THEN UNCHANGED <<index, qClosed>>
    ELSE LeaveTopic(s) /\ qClosed' = [qClosed EXCEPT ![s] = TRUE]
Detach(s) ==
    /\ LeaveTopic(s)
    /\ qClosed' = [qClosed EXCEPT ![s] = TRUE]
-----------------------------------------------------------------------------
(* Tunnel: the stream opens, requests arrive, are refused or dispatched. *)

\* Tunnel builds the session and startWriter launches its writer.
Open(s) ==
    /\ stream[s] = "new"
    /\ stream' = [stream EXCEPT ![s] = "open"]
    /\ writer' = [writer EXCEPT ![s] = "run"]
    /\ Goto(s, "recv")
    /\ UNCHANGED <<req, loop, shared, client, crashes>>

\* Recv may still return buffered requests of a stream that is breaking.
CanRecv(s) == pc[s] = "recv" /\ stream[s] \in {"open", "broken"}

NewFrame(s, t, term) == frames' = Append(frames, [from |-> s, topic |-> t, terminal |-> term])

\* A request that passed verifyRequestMAC and has its topic (and payload).
RecvPublish(s, t, term) ==
    /\ CanRecv(s)
    /\ Len(frames) < MaxMsgs
    /\ NewFrame(s, t, term)
    /\ req' = [req EXCEPT ![s] = [op |-> "publish", topic |-> t, msg |-> Len(frames) + 1]]
    /\ Goto(s, "pubLookup")
    /\ UNCHANGED <<loop, shared, stream, writer, received, nsub, rejects, crashes>>

RecvSubscribe(s, t) ==
    /\ CanRecv(s)
    /\ nsub[s] < MaxSubs
    /\ nsub' = [nsub EXCEPT ![s] = @ + 1]
    /\ \/ /\ req' = [req EXCEPT ![s] = [op |-> "subscribe", topic |-> t, msg |-> 0]]
          /\ UNCHANGED frames
       \/ \E term \in Terminal :
             /\ Len(frames) < MaxMsgs
             /\ NewFrame(s, t, term)
             /\ req' = [req EXCEPT ![s] =
                          [op |-> "subscribe", topic |-> t, msg |-> Len(frames) + 1]]
    /\ Goto(s, "subLookup")
    /\ UNCHANGED <<loop, shared, stream, writer, received, rejects, crashes>>

\* Bad ticket, bad MAC, unknown type, missing topic or payload: one ERROR.
RejectRequest(s) ==
    /\ CanRecv(s)
    /\ rejects < MaxRejects
    /\ rejects' = rejects + 1
    /\ TryEnqueue(s, 0)
    /\ UNCHANGED <<local, index, replaying, redis, ghost, stream, writer, frames,
                   received, nsub, crashes>>

\* Recv fails: the client closed the stream or its context was cancelled.
RecvFails(s) ==
    /\ pc[s] = "recv"
    /\ stream[s] = "broken"
    /\ Detach(s)
    /\ stream' = [stream EXCEPT ![s] = "done"]
    /\ Goto(s, "returned")
    /\ UNCHANGED <<req, loop, replaying, sendQ, dropped, redis, ghost, writer, client,
                   crashes>>
-----------------------------------------------------------------------------
(* handleSubscribe. *)

\* topicExists, in memory.
SubLookup(s) ==
    /\ pc[s] = "subLookup"
    /\ Goto(s, IF req[s].topic \in buckets THEN "bucketOld" ELSE "subRedis")
    /\ UNCHANGED <<req, loop, shared, env>>

\* topicExists, in Redis; an error counts as absent.
SubRedis(s) ==
    /\ pc[s] = "subRedis"
    /\ \/ Goto(s, IF InRedis(req[s].topic) THEN "bucketOld" ELSE "bucketNew")
       \/ MayFail(s) /\ Goto(s, "bucketNew")
    /\ UNCHANGED <<req, loop, shared, env>>

\* ensureTopicBucket, for a topic to create or for a known one.
EnsureBucket(s) ==
    /\ pc[s] \in {"bucketNew", "bucketOld"}
    /\ buckets' = buckets \cup {req[s].topic}
    /\ Goto(s, IF pc[s] = "bucketNew" THEN "create" ELSE "leave")
    /\ UNCHANGED <<req, loop, subs, activeTopic, replaying, queue, redis, ghost, env>>

CreateTopic(s) ==
    /\ pc[s] = "create"
    /\ \/ tracked' = tracked \cup {req[s].topic}
       \/ MayFail(s) /\ UNCHANGED tracked
    /\ Goto(s, "leave")
    /\ UNCHANGED <<req, loop, index, replaying, queue, log, ghost, env>>

\* Leave the previous topic, then set replaying.  The two commute with every
\* step of another session, so they are one step.
LeaveOldTopic(s) ==
    IF activeTopic[s] \notin {NoTopic, req[s].topic} THEN LeaveTopic(s) ELSE UNCHANGED index

Leave(s) ==
    /\ pc[s] = "leave"
    /\ LeaveOldTopic(s)
    /\ replaying' = [replaying EXCEPT ![s] = TRUE]
    /\ owed' = [owed EXCEPT ![s] = {}]
    /\ late' = [late EXCEPT ![s] = {}]
    /\ clean' = [clean EXCEPT ![s] = TRUE]
    /\ Goto(s, "fetch")
    /\ UNCHANGED <<req, loop, queue, redis, cleared, env>>

\* GetMessageHistory before joining; an error leaves an empty history.
FetchHistory(s) ==
    /\ pc[s] = "fetch"
    /\ \/ /\ hist' = [hist EXCEPT ![s] = log[req[s].topic]]
          /\ owed' = [owed EXCEPT ![s] = @ \cup Elems(log[req[s].topic])]
          /\ UNCHANGED clean
       \/ /\ MayFail(s)
          /\ hist' = [hist EXCEPT ![s] = <<>>]
          /\ clean' = [clean EXCEPT ![s] = FALSE]
          /\ UNCHANGED owed
    /\ Goto(s, "join")
    /\ UNCHANGED <<req, todo, fan, aim, index, replaying, queue, redis, late, cleared,
                   env>>

\* addToTopic: out of any other topic, into the set of t, one critical section.
Join(s) ==
    LET t == req[s].topic IN
    /\ pc[s] = "join"
    /\ buckets' = BucketsWithout(s) \cup {t}
    /\ subs' = [u \in Topics |-> IF u = t THEN subs[u] \cup {s} ELSE subs[u] \ {s}]
    /\ activeTopic' = [activeTopic EXCEPT ![s] = t]
    /\ todo' = [todo EXCEPT ![s] = hist[s]]
    /\ Goto(s, "replay")
    /\ UNCHANGED <<req, hist, fan, aim, replaying, queue, redis, ghost, env>>

\* The replay loops over hist, then over the catch-up tail: own payloads are
\* skipped, the others enqueued without blocking.
ReplayNext(s) ==
    /\ pc[s] \in {"replay", "catchup"}
    /\ todo[s] # <<>>
    /\ IF OwnPayload(s, Head(todo[s]))
         THEN UNCHANGED queue
         ELSE TryEnqueue(s, Head(todo[s]))
    /\ todo' = [todo EXCEPT ![s] = Tail(@)]
    /\ UNCHANGED <<pc, req, hist, fan, aim, index, replaying, redis, ghost, env>>

\* hist2[len(hist):], by position, when hist2 is longer.
\* (Faulty variants: the whole of hist2; its last entry left out.)
TailAll(h1, h2) == h2
TailShort(h1, h2) == IF Len(h2) > Len(h1) + 1 THEN SubSeq(h2, Len(h1) + 2, Len(h2)) ELSE <<>>
CatchUpTail(h1, h2) ==
    IF Len(h2) > Len(h1) THEN SubSeq(h2, Len(h1) + 1, Len(h2)) ELSE <<>>

\* (Faulty variant: a failing read returns at once.)
FetchCatchUpOrReturn(s) ==
    /\ pc[s] = "replay"
    /\ todo[s] = <<>>
    /\ \/ /\ todo' = [todo EXCEPT ![s] = CatchUpTail(hist[s], log[req[s].topic])]
          /\ Goto(s, "catchup")
       \/ MayFail(s) /\ Goto(s, "recv") /\ UNCHANGED todo
    /\ hist' = [hist EXCEPT ![s] = <<>>]
    /\ UNCHANGED <<req, fan, aim, shared, env>>
FetchCatchUp(s) ==
    /\ pc[s] = "replay"
    /\ todo[s] = <<>>
    /\ \/ /\ todo' = [todo EXCEPT ![s] = CatchUpTail(hist[s], log[req[s].topic])]
          /\ UNCHANGED clean
       \/ /\ MayFail(s)
          /\ clean' = [clean EXCEPT ![s] = FALSE]
          /\ UNCHANGED todo
    /\ hist' = [hist EXCEPT ![s] = <<>>]
    /\ Goto(s, "catchup")
    /\ UNCHANGED <<req, fan, aim, index, replaying, queue, redis, owed, late, cleared,
                   env>>

\* Live delivery is enabled again; a piggy-backed payload is published.
Unmark(s) ==
    /\ pc[s] = "catchup"
    /\ todo[s] = <<>>
    /\ replaying' = [replaying EXCEPT ![s] = FALSE]
    /\ IF req[s].msg # 0
         THEN Goto(s, "pubLookup") /\ UNCHANGED req
         ELSE Goto(s, "recv") /\ req' = [req EXCEPT ![s] = NoReq]
    /\ UNCHANGED <<loop, index, queue, redis, ghost, env>>
-----------------------------------------------------------------------------
(* handlePublish. *)

PubLookup(s) ==
    /\ pc[s] = "pubLookup"
    /\ Goto(s, IF req[s].topic \in buckets THEN "snapshot" ELSE "pubRedis")
    /\ UNCHANGED <<req, loop, shared, env>>

\* An absent topic, or a failing lookup: ERROR, the payload goes nowhere.
PubRedis(s) ==
    /\ pc[s] = "pubRedis"
    /\ \/ /\ InRedis(req[s].topic)
          /\ Goto(s, "snapshot")
          /\ UNCHANGED <<req, queue>>
       \/ /\ ~InRedis(req[s].topic) \/ MayFail(s)
          /\ Goto(s, "recv")
          /\ req' = [req EXCEPT ![s] = NoReq]
          /\ TryEnqueue(s, 0)
    /\ UNCHANGED <<loop, index, replaying, redis, ghost, env>>

\* The recipients, under the read lock.  The publishing stream itself is in the
\* code's slice and skipped by the loop.
\* (Faulty variant: it is not skipped.)
RecipientsAll(s) == subs[req[s].topic]
Recipients(s) == subs[req[s].topic] \ {s}

Snapshot(s) ==
    /\ pc[s] = "snapshot"
    /\ fan' = [fan EXCEPT ![s] = Recipients(s)]
    /\ Goto(s, IF frames[req[s].msg].terminal THEN "fan" ELSE "store")
    /\ UNCHANGED <<req, hist, todo, aim, shared, env>>

\* StoreMessage, LPUSH: on an error the entry may or may not have been stored.
\* EXPIRE, which follows, only renews the time to live.
Store(s) ==
    LET stored == [log EXCEPT ![req[s].topic] = Append(@, req[s].msg)] IN
    /\ pc[s] = "store"
    /\ \/ log' = stored /\ Goto(s, "trim")
       \/ MayFail(s) /\ log' \in {log, stored} /\ Goto(s, "fan")
    /\ UNCHANGED <<req, loop, index, replaying, queue, tracked, ghost, env>>

\* A replay of t in progress reads a log that no longer only grows.
Disturb(t) ==
    clean' = [x \in Sessions |->
                clean[x] /\ ~(req[x].topic = t /\ pc[x] \in {"fetch", "join", "replay"})]

\* StoreMessage, LTRIM: the newest HistoryCap entries stay.
NewestKept(q) == SubSeq(q, Len(q) - HistoryCap + 1, Len(q))

Trim(s) ==
    LET t == req[s].topic IN
    /\ pc[s] = "trim"
    /\ \/ /\ Len(log[t]) > HistoryCap
          /\ log' = [log EXCEPT ![t] = NewestKept(@)]
          /\ Disturb(t)
       \/ /\ Len(log[t]) <= HistoryCap \/ MayFail(s)
          /\ UNCHANGED <<log, clean>>
    /\ Goto(s, "fan")
    /\ UNCHANGED <<req, loop, index, replaying, queue, tracked, owed, late, cleared,
                   env>>

\* One recipient: its replaying flag is read.  A payload skipped here is owed by
\* the recipient's catch-up read if that read is still to come and finds it.
\* (Faulty variant: the flag is not looked at.)
SkipNone(b) == FALSE
Skips(b) == replaying[b]

FanOut(s) ==
    LET m == req[s].msg
        t == req[s].topic
        toCome(b) == /\ pc[b] \in {"fetch", "join", "replay"}
                     /\ m \in Elems(log[t])
    IN
    /\ pc[s] = "fan"
    /\ \E b \in fan[s] :
          /\ fan' = [fan EXCEPT ![s] = @ \ {b}]
          /\ IF Skips(b)
               THEN /\ UNCHANGED <<pc, aim>>
                    /\ owed' = [owed EXCEPT ![b] =
                                  IF req[b].topic = t /\ toCome(b) THEN @ \cup {m} ELSE @]
                    /\ late' = [late EXCEPT ![b] =
                                  IF req[b].topic = t /\ ~toCome(b) THEN @ \cup {m} ELSE @]
               ELSE /\ aim' = [aim EXCEPT ![s] = b]
                    /\ Goto(s, "aim")
                    /\ UNCHANGED <<owed, late>>
    /\ UNCHANGED <<req, hist, todo, index, replaying, queue, redis, clean, cleared,
                   env>>

\* tryEnqueue of the EVENT, some time after the flag was read.
FanEnqueue(s) ==
    /\ pc[s] = "aim"
    /\ TryEnqueue(aim[s], req[s].msg)
    /\ aim' = [aim EXCEPT ![s] = NoSession]
    /\ Goto(s, "fan")
    /\ UNCHANGED <<req, hist, todo, fan, index, replaying, redis, ghost, env>>

\* DeleteTopic: one DEL of both keys, on a context of its own.
\* (Faulty variant: only the tracking key.)
DeleteTrackingOnly(t) == tracked' = tracked \ {t} /\ UNCHANGED log
DeleteTopic(t) ==
    /\ tracked' = tracked \ {t}
    /\ log' = [log EXCEPT ![t] = <<>>]

FinishPublish(s) ==
    LET t == req[s].topic IN
    /\ pc[s] = "fan"
    /\ fan[s] = {}
    /\ \/ /\ frames[req[s].msg].terminal
          /\ DeleteTopic(t)
          /\ Disturb(t)
          /\ cleared' = cleared \cup {req[s].msg}
       \/ /\ ~frames[req[s].msg].terminal \/ RedisFaults
          /\ UNCHANGED <<redis, clean, cleared>>
    /\ Goto(s, "recv")
    /\ req' = [req EXCEPT ![s] = NoReq]
    /\ UNCHANGED <<loop, index, replaying, queue, owed, late, env>>
-----------------------------------------------------------------------------
(* The writer goroutine. *)

\* Dequeue and Send.
Deliver(s) ==
    /\ writer[s] = "run"
    /\ stream[s] = "open"
    /\ sendQ[s] # <<>>
    /\ sendQ' = [sendQ EXCEPT ![s] = Tail(@)]
    /\ received' = [received EXCEPT ![s] =
                      IF Head(sendQ[s]) = 0 THEN @ ELSE Append(@, Head(sendQ[s]))]
    /\ UNCHANGED <<local, index, replaying, qClosed, dropped, redis, ghost, stream,
                   writer, frames, nsub, rejects, crashes>>

\* Send fails: detach, and the goroutine ends without draining the queue.
SendFails(s) ==
    /\ writer[s] = "run"
    /\ stream[s] \in {"broken", "done"}
    /\ sendQ[s] # <<>>
    /\ Detach(s)
    /\ sendQ' = [sendQ EXCEPT ![s] = Tail(@)]
    /\ dropped' = [dropped EXCEPT ![s] = @ \cup ({Head(sendQ[s])} \ {0})]
    /\ writer' = [writer EXCEPT ![s] = "stopped"]
    /\ UNCHANGED <<local, replaying, redis, ghost, stream, client, crashes>>

\* The range loop ends: queue closed and drained.
WriterExits(s) ==
    /\ writer[s] = "run"
    /\ qClosed[s]
    /\ sendQ[s] = <<>>
    /\ writer' = [writer EXCEPT ![s] = "stopped"]
    /\ UNCHANGED <<local, shared, stream, client, crashes>>
-----------------------------------------------------------------------------
(* The environment. *)

\* The client closes the stream, or its context is cancelled; the handler notices
\* at its next Recv or Redis command, the writer at its next Send.
Break(s) ==
    /\ stream[s] = "open"
    /\ Cardinality({x \in Sessions : stream[x] \in {"broken", "done"}}) < MaxBreaks
    /\ stream' = [stream EXCEPT ![s] = "broken"]
    /\ UNCHANGED <<local, shared, writer, client, crashes>>

\* The process dies and is started again: all memory is lost, Redis stays.
Crash ==
    /\ crashes < MaxCrashes
    /\ crashes' = crashes + 1
    /\ stream' = [s \in Sessions |-> IF stream[s] = "new" THEN "new" ELSE "done"]
    /\ pc' = [s \in Sessions |-> IF stream[s] = "new" THEN "off" ELSE "returned"]
    /\ writer' = [s \in Sessions |-> IF stream[s] = "new" THEN "off" ELSE "stopped"]
    /\ req' = [s \in Sessions |-> NoReq]
    /\ hist' = [s \in Sessions |-> <<>>]
    /\ todo' = [s \in Sessions |-> <<>>]
    /\ fan' = [s \in Sessions |-> {}]
    /\ aim' = [s \in Sessions |-> NoSession]
    /\ buckets' = {}
    /\ subs' = [t \in Topics |-> {}]
    /\ activeTopic' = [s \in Sessions |-> NoTopic]
    /\ replaying' = [s \in Sessions |-> FALSE]
    /\ sendQ' = [s \in Sessions |-> <<>>]
    /\ qClosed' = [s \in Sessions |-> stream[s] # "new"]
    /\ clean' = [s \in Sessions |-> FALSE]
    /\ UNCHANGED <<dropped, redis, owed, late, cleared, client>>

\* The two keys of a topic reach their time to live independently: only the
\* list's is renewed.
ExpireLog(t) ==
    /\ Expiry
    /\ log[t] # <<>>
    /\ log' = [log EXCEPT ![t] = <<>>]
    /\ Disturb(t)
    /\ UNCHANGED <<local, index, replaying, queue, tracked, owed, late, cleared, env>>

ExpireTracking(t) ==
    /\ Expiry
    /\ t \in tracked
    /\ tracked' = tracked \ {t}
    /\ UNCHANGED <<local, index, replaying, queue, log, ghost, env>>
-----------------------------------------------------------------------------
Receive(s) ==
    \/ \E t \in Topics : RecvSubscribe(s, t) \/ \E term \in Terminal : RecvPublish(s, t, term)
    \/ RejectRequest(s)

Subscribing(s) ==
    \/ SubLookup(s) \/ SubRedis(s) \/ EnsureBucket(s) \/ CreateTopic(s) \/ Leave(s)
    \/ FetchHistory(s) \/ Join(s) \/ ReplayNext(s) \/ FetchCatchUp(s) \/ Unmark(s)

Publishing(s) ==
    \/ PubLookup(s) \/ PubRedis(s) \/ Snapshot(s) \/ Store(s) \/ Trim(s)
    \/ FanOut(s) \/ FanEnqueue(s) \/ FinishPublish(s)

Handler(s) == Subscribing(s) \/ Publishing(s)
Writer(s)  == Deliver(s) \/ SendFails(s) \/ WriterExits(s)

Environment ==
    \/ \E s \in Sessions : Open(s) \/ Break(s)
    \/ Crash
    \/ \E t \in Topics : ExpireLog(t) \/ ExpireTracking(t)

Next ==
    \/ \E s \in Sessions : Receive(s) \/ RecvFails(s) \/ Handler(s) \/ Writer(s)
    \/ Environment

Spec == Init /\ [][Next]_vars

\* The goroutines are scheduled, Redis commands return, and Recv on a cancelled
\* stream returns.  Nothing makes a client send, close or lose its stream.
Fairness ==
    \A s \in Sessions :
        /\ WF_vars(Handler(s))
        /\ WF_vars(Writer(s))
        /\ WF_vars(RecvFails(s))

FairSpec == Spec /\ Fairness
-----------------------------------------------------------------------------
(* Properties. *)

StreamType ==
    /\ stream \in [Sessions -> Streams]
    /\ writer \in [Sessions -> Writers]
    /\ replaying \in [Sessions -> BOOLEAN]

HandlerType ==
    /\ pc \in [Sessions -> Pcs]
    /\ req \in [Sessions -> Requests]
    /\ hist \in [Sessions -> Seq(FrameIds)]
    /\ todo \in [Sessions -> Seq(FrameIds)]
    /\ fan \in [Sessions -> SUBSET Sessions]
    /\ aim \in [Sessions -> Sessions \cup {NoSession}]

IndexType ==
    /\ buckets \subseteq Topics
    /\ subs \in [Topics -> SUBSET Sessions]
    /\ activeTopic \in [Sessions -> Topics \cup {NoTopic}]

QueueType ==
    /\ sendQ \in [Sessions -> Seq(0 .. MaxMsgs)]
    /\ \A s \in Sessions : Len(sendQ[s]) <= QueueCap
    /\ qClosed \in [Sessions -> BOOLEAN]
    /\ dropped \in [Sessions -> SUBSET FrameIds]

RedisType ==
    /\ log \in [Topics -> Seq(FrameIds)]
    /\ tracked \subseteq Topics

ClientType ==
    /\ frames \in Seq(Frames)
    /\ Len(frames) <= MaxMsgs
    /\ received \in [Sessions -> Seq(FrameIds)]
    /\ nsub \in [Sessions -> Nat]
    /\ rejects \in Nat
    /\ crashes \in Nat

GhostType ==
    /\ owed \in [Sessions -> SUBSET FrameIds]
    /\ late \in [Sessions -> SUBSET FrameIds]
    /\ clean \in [Sessions -> BOOLEAN]
    /\ cleared \subseteq FrameIds

\* The sets and sequences every variable ranges over: the structs of grpc.go, a
\* channel within its capacity, the two Redis keys of a topic.
TypeOK == /\ StreamType /\ HandlerType /\ IndexType /\ QueueType
          /\ RedisType /\ ClientType /\ GhostType

\* Server.clients and session.activeTopic, updated by the handler and by the
\* writer's detach, agree: a session is in the set of its active topic and in no
\* other, and a topic with subscribers has a bucket.
IndexConsistent ==
    /\ \A s \in Sessions, t \in Topics : s \in subs[t] <=> activeTopic[s] = t
    /\ \A t \in Topics : subs[t] # {} => t \in buckets

\* A bucket without subscribers is never left behind: it exists only while some
\* handler is between ensureTopicBucket and addToTopic for that topic.
NoBucketLeak ==
    \A t \in buckets : \/ subs[t] # {}
                       \/ \E s \in Sessions : /\ req[s].topic = t
                                              /\ pc[s] \in {"create", "leave", "fetch", "join"}

\* A handler that has returned left its session in no topic and its queue
\* closed, even when the writer's detach ran before the handler's addToTopic.
ReturnedDetached ==
    \A s \in Sessions : pc[s] = "returned" =>
        qClosed[s] /\ \A t \in Topics : s \notin subs[t]

\* Live delivery and replay together never hand a stream a payload that came in
\* on the stream itself (its client sends a sender_id).
NoOwnPayload ==
    \A s \in Sessions : SenderOf[s] # Anonymous =>
        \A m \in (Elems(sendQ[s]) \ {0}) \cup Elems(received[s]) : frames[m].from # s

\* What a stream was sent and is still queued for it; an ERROR is 0.
Feed(s) == received[s] \o sendQ[s]

\* Replay, catch-up and live delivery keep the order of each publishing stream:
\* a client that subscribed once never sees a payload of a stream after a later
\* payload of the same stream.
PublisherOrder ==
    \A s \in Sessions : nsub[s] <= 1 =>
        \A i, j \in 1 .. Len(Feed(s)) :
            /\ i < j /\ Feed(s)[i] # 0 /\ Feed(s)[j] # 0
            /\ frames[Feed(s)[i]].from = frames[Feed(s)[j]].from
            => Feed(s)[i] <= Feed(s)[j]

\* Replay, catch-up and live delivery do not overlap on what the replay owes: a
\* payload of the first history read, or one live delivery skipped, is handed
\* over once.  (A payload that is in neither may come twice: stored before the
\* catch-up read, its recipient visited after the replay.)
OwedOnce ==
    \A s \in Sessions : nsub[s] <= 1 =>
        \A i, j \in 1 .. Len(Feed(s)) :
            Feed(s)[i] = Feed(s)[j] /\ Feed(s)[i] \in owed[s] => i = j

\* The promise of handleSubscribe where it holds: when both reads succeeded and
\* the log only grew between them, what was stored before the first read, and
\* what live delivery skipped before the second, reached the send queue (or was
\* dropped there) once live delivery is enabled again.
ReplayComplete ==
    \A s \in Sessions :
        clean[s] /\ stream[s] # "new" /\ pc[s] \notin SubscribePcs =>
            \A m \in owed[s] : OwnPayload(s, m) \/ m \in Elems(Feed(s)) \cup dropped[s]

\* A terminal payload's DeleteTopic leaves none of the earlier payloads of the
\* same stream in the history: its own handlers ran to completion before.
OwnHistoryCleared ==
    \A k \in cleared : \A m \in Elems(log[frames[k].topic]) :
        frames[m].from = frames[k].from => m > k

\* A broken stream's session goes away: its handler returns and the topic index
\* forgets it.
BrokenGoes ==
    \A s \in Sessions :
        stream[s] = "broken" ~> stream[s] = "done" /\ activeTopic[s] = NoTopic

\* Suppression of live delivery ends: no stream stays replaying for ever.
ReplayEnds == \A s \in Sessions : replaying[s] ~> ~replaying[s]
-----------------------------------------------------------------------------
(* What comments and the protocol file say, refuted by the code. *)

\* grpc.go:265: a payload skipped for a replaying subscriber is caught up from
\* Redis after the replay.
SkippedAreCaughtUp ==
    \A s \in Sessions :
        ~replaying[s] => \A m \in late[s] : OwnPayload(s, m) \/ m \in Elems(Feed(s)) \cup dropped[s]

\* grpc.go:343: every payload stored while replaying is caught up.
StoredAreCaughtUp ==
    \A s \in Sessions :
        pc[s] \notin SubscribePcs =>
            \A m \in owed[s] : OwnPayload(s, m) \/ m \in Elems(Feed(s)) \cup dropped[s]

\* relay.proto:12: sender_id is used for self-echo suppression.
NoSelfEcho ==
    \A s \in Sessions : SenderOf[s] # Anonymous =>
        \A m \in Elems(received[s]) : SenderOf[frames[m].from] # SenderOf[s]

\* redis_store.go:139: after a BYE the next call starts fresh; no payload that
\* came in before it is in the history.
FreshStart ==
    \A k \in cleared : \A m \in Elems(log[frames[k].topic]) : m > k

\* grpc.go:227: PUBLISH never creates a topic.
PublishNeverCreates ==
    [][\A t \in Topics : ~Exists(t) /\ Exists(t)' =>
          \E s \in Sessions : req[s].topic = t /\ req[s].op = "subscribe" /\ pc[s] \in SubscribePcs]_vars
=============================================================================
