# Verification of the DIA relay, its client, and the SIP controller

This directory holds TLA+ models of the Go program in `src/`, the TLC
configurations that check them on small instances, and TLAPS proofs of what
matters most for every instance. Paths below are relative to `src/`.

The program lets two phones authenticate each other during a call. A *relay*
server carries topics of opaque payloads between them; a *SIP controller* next to
each `baresip` phone watches its calls, runs the DIA protocol (AKE, then RUA, then
optionally ODA) with the peer's controller over the relay, and answers an incoming
call once the caller is verified.

## 1. Inventory

| component | state | operations | meets |
|---|---|---|---|
| relay server, `internal/relay/grpc.go` | `Server.clients` (topic -> sessions), per stream `activeTopic`, `replaying`, `sendQ` (128) | `Tunnel` (SUBSCRIBE, PUBLISH), `handleSubscribe` with replay and catch-up, `handlePublish` with fan-out, `detach`, writer goroutine | Redis, relay clients |
| relay store, `internal/relay/redis_store.go` | one list (last 100) and one tracking key per topic, both with TTL | store + expire + trim, history, exists, create, delete | relay server |
| relay client session, `internal/subscriber/session.go` | `topic`, `closed`, current stream, `sendQ` (256) | `Send`, `SendImmediate`, `SendToTopic`, `SubscribeToNewTopicWithPayload`, `Start`/`tunnelLoop`, `writerPump`, `Close` | relay server; callback into the controller |
| relay client wrappers, `internal/subscriber/controller.go`, `client.go` | - | delegation, dial, close | session |
| call manager, `internal/sipcontroller/callmanager.go` | sessions by attempt, by call-id, pending by peer; per session state, timers, DIA state, relay session | create, bind, find, remove, `Cleanup` | every goroutine of the controller |
| SIP controller, `internal/sipcontroller/controller.go` | event loop, results channel | `InitiateOutgoingCall`, one handler per baresip event, `runOutgoingDIA`/`runIncomingDIA`, DIA message handlers, DIA and ODA timers | manager, baresip, relay client, cache |
| baresip client, `baresip.go`, `netstring.go` | event channel (100, drops), pending commands by token | `readLoop`, `sendCommandCore`, codec | baresip over TCP |
| peer session cache, `peer_session_cache.go`, `internal/peersessioncache` | one blob per pair of phones in Redis | get, set, clear | controller |
| experiment runner and command line, `cmd/sipcontroller/main.go` | attempts in flight, results consumed | `commandLoop`, `runExperiment`, CSV goroutine | controller |
| demo client, `cmd/client/callauth` | one DIA exchange | caller and recipient handlers | session, cache |
| enrollment server and client, benchmarks, helpers, configuration | none that changes | - | - |

Where the behaviour is hard:

- **Relay.** Two goroutines per stream. A subscription is five steps (look-up,
  first history read, join, replay, catch-up read, clear the flag) that interleave
  with the store and fan-out of every publisher, with a `DeleteTopic`, with key
  expiry, and with the writer's `detach`. Correct: the index is exact, nothing is
  leaked, order per publisher, no payload twice or lost where the code promises it.
- **Session.** Callers, the receive loop (which also runs the callback), one writer
  pump per stream and `Close` share a queue, a stream pointer and a topic. Correct:
  queued requests arrive at most once and in order over reconnections, the relay
  listens where the session believes it does, `Close` ends and leaves silence.
- **Calls.** A session is touched by the event loop, the dialling goroutine, its DIA
  goroutine and callback, and its timer; events are matched to attempts by peer
  number. Correct: the manager's indexes agree, every attempt gets a terminal
  record, no answered call is left without a session or a hangup, every session of
  an ended call goes away.
- **Teardown.** Five goroutines may end one session at the same time, under a mutex
  that the relay callback needs while it is being waited for. Correct: each of them
  gets through, the relay session closes, what libdia holds is freed once.
- **DIA.** A two-party protocol over two topics; the parties may start on different
  ones, since each trusts its own cache. Correct: a call is only up past the gate, an
  undisturbed exchange completes, no call rings on undecided.
- **ODA.** The answer, the end of DIA, the response, the timeout and the hangup race.
  Correct: ODA starts whichever comes last, ends one way, is reported once, and ends
  the call.
- **Control connection, experiment.** Commands are matched to responses by token while
  the connection may go deaf; a runner counts records that two goroutines give over a
  channel that drops. Correct: no response reaches a later command, every command
  returns, no attempt is waited for in vain, no row is written twice.

`PROJECT.json` lists every hazard at its line, with the properties that catch it.

## 2. Modules

| module | models | extends or uses |
|---|---|---|
| `Relay` | relay server and store | - |
| `ClientSession` | `session.go` | - |
| `CallControl` | call manager, event handlers, dialling, baresip | - |
| `Teardown` | the end of one session: `Cleanup` against callback, timer, `Stop` | - |
| `DiaCall` | the DIA exchange of two controllers, the cache, the gate | - |
| `Oda` | ODA in one session | `OdaOutcome`, which it implements |
| `OdaOutcome` | abstract: what ODA promises of a call | - |
| `Netstring` | the codec, as operators | - |
| `BaresipClient` | control connection: commands, `readLoop`, loss | `Netstring` |
| `Experiment` | `runExperiment` over the event loop and the control connection | `BaresipClient` |
| `MCRelay`, `MCCallControl`, `MCExperiment` | model values and input sets | their module |
| `RelayProofs`, `ClientSessionProofs`, `CallControlProofs`, `DiaCallProofs`, `OdaProofs`, `TeardownProofs` | theorems | their module |
| `ExperimentProofs` | theorems about the experiment and the control connection | `Experiment` |
| `RelayDeliveryProofs` | theorems about delivery | `RelayProofs` |

### Relay

A *session* is one Tunnel stream, used once (a client that reconnects is another
stream with the same `sender_id`). `pc` is the handler's place between two steps;
a step ends where the code releases `Server.mu`, has issued a Redis command, or
has touched a `replaying` flag or a queue. `hist`, `todo`, `fan` and `aim` are the
handler's locals, `buckets`/`subs` are `Server.clients`, `log` and `tracked` the two
Redis keys of a topic. A payload is its number in `frames`. `MaxCrashes`,
`MaxBreaks`, `RedisFaults`, `Expiry` switch on process crashes, broken streams,
failing commands and expiring keys. `owed`, `late`, `clean`, `cleared`, `dropped` are history
variables that only properties read.

Abstractions: taking a response off the queue and `stream.Send` are one step, so the
effective capacity is one less than the code's; the client closing its stream is a
`Break`; EXPIRE renewing a TTL changes nothing a time-less model can see, except that
it may fail after the LPUSH succeeded; an unlocked torn read of `activeTopic` is not
modelled. The MAC check is the choice of `RejectRequest`. `HistoryCap` and `QueueCap`
stand for 100 and 128.

### ClientSession

`loop` is `tunnelLoop`, `thread` every publishing goroutine and the callback,
`pump` one `writerPump` per stream, `closer` the one `Close` that gets past the swap.
`wire[n]` is what was put on stream `n`; when the stream breaks the relay has got a
prefix of it. A stream.Send is a state of its own (`subscribe`, `direct`, `send`), so
that two of them can overlap. Send on a dead stream fails when it is known to be dead:
the earliest moment, and later ones look like a break after the Send. A panic ends
the process: no action is enabled. The defaults `writerPump` fills in (sender, topic) are left
out since every caller fills them, as are the back-off delays; `QueueCap` stands for 256.
Subscriptions are only made from the callback, as in the program. `Start` is two steps, its
check of `closed` (`session.go:94`) and the launch of the loop (`Launch`, `:98`), since the DIA
goroutine may start a session that the event loop is closing: the loop may then begin after
`Close` has returned, and ends when it finds the context cancelled. `SubscribeFails` is the MAC
of a SUBSCRIBE that cannot be built.

### CallControl

`sess` has every `CallSession` ever made, `byAttempt`, `byCallID`, `pendingByPeer`
are the manager's maps; `dialer`, `loop`, `dia[a]`, `rejecting[a]` say where the
goroutines are. baresip is `events`, `cmds`, `reply`, `calls`: commands in order,
events through a channel that drops when full (`EventCap`). `Emits` is the set of
event types this baresip emits, since the code has a branch for each variety
(`controller.go:269`, `:655`, `:1443`, `:1516`).

Abstractions: of `CallState` only "closed or not" is read by the code modelled here;
what DIA computes is a choice between completing, failing and continuing; a command's
caller goes on at any time after writing it (response or timeout); the lookup by
call-id and the bind are one step because only the event loop binds; `Cleanup` and
`RemoveSession` are one step. There is one dialling goroutine, the command loop or the
experiment. Left to other modules: the inside of `Cleanup` and `Stop` (`Teardown`), the DIA
messages, BYE and the cache (`DiaCall`), ODA (`Oda`), the loss of the control connection
(`BaresipClient`).

### Teardown

`ender[e]` is where each of the five goroutines is that may end the session: the event loop
(CALL_CLOSED), the DIA timer, `Stop`, the DIA goroutine and the callback (`rejectCall` after
an error). `mu` is the session's mutex, `diaState` and `controller` the two fields that
`Cleanup` sets to nil, `relay` and `recv` the relay session and its loop, on which the
callback runs. `Cleanup` holds the mutex while it waits for `Controller.Close`, at most
500 ms: a time-less model lets that wait end at any moment. A field used when it is nil is
the end of the process (`panicked`), after which no action is enabled. The module leaves
the manager's maps to `CallControl` and the queue of the relay session to `ClientSession`.

### DiaCall

Two parties, one call after another. `sess[p]` is a party's `CallSession`, its DIA goroutine
and its callback; `cache[p]` the key of its cached peer session; `at`, `inb`, `log`, `made` an
abstract relay (who listens where, what is on the way, what is kept, which topics
exist), `link` and `out` an abstract relay session. A topic is the AKE topic, the RUA
topic of a call, or the one of a cached key. libdia is not in `src/`: a message is accepted
in the protocol state that expects it and is an error otherwise; whether a party's
credentials verify is fixed by `strangers`. Faults are counted (`MaxFaults`): a broken
stream, a lost event, a failing step or command, a lost cache entry, an abandoned call.
`disturbed` is a history variable: why this call may fail for a reason outside it.
Both users run the program with the integrated mode on; the far end of a call that does
not is `CallControl`'s. A next call starts when both parties are done with the last one, so none
follows a call that leaked its relay session (`controller.go:827` after `Cleanup`; `CallLeak.cfg`).

### Oda and OdaOutcome

One session of either direction, from the moment RUA is all but complete: `sess` has the
ODA fields of `CallSession`, `loop`, `callback`, `asker` and `timer` say where the four
goroutines are, `asked` counts the requests the peer has not answered, `results` is what
was emitted. A step ends where `session.mu` is released or a field is written that is read
without it; the unlocked fields (`DIAComplete`, `AnsweredAt`) are sequentially consistent.
The session is configured for ODA. Left out: a hangup command that fails, nil fields
(`Teardown`), and who else may clean the session up: the dialling goroutine when its dial fails
though the call is up (`controller.go:426`, `:446`), an overdue DIA timer (`:1434`), and `Stop`.
The refinement is of the four goroutines. `ByHand` says whether a user may answer an incoming call at the phone, past
the gate.

`OdaOutcome` is the promise: nobody is asked while the phone rings, a request ends one way,
the ending is reported once, and then the call is over. `Promised` in `Oda` is the
refinement mapping: the request is what `requested` and `outcome` say together, the reports
are the records in `results`. `KeepsPromise` is its safety, `FulfilsPromise` all of it:
requests end, are reported, and end the call.

### Netstring, BaresipClient and Experiment

`Netstring` has `Encode`, `tryParse` and `Decode` over ten digits, two delimiters and a
letter; the signs that `strconv.Atoi` accepts are left out. Two assumptions state what
the codec does, and TLC evaluates them in the `experiment` run: `RoundTrip` (any two of 22
payloads, cut at any byte or at every byte) and `NothingAfterGarbage` (bytes that are no
netstring are never skipped, though `netstring.go:88` speaks of skipping).

`BaresipClient` takes from it that a frame arrives whole and in order, and that a reader
that has met garbage is stuck until the connection ends. `cmd[c]` is the command of a
goroutine with its response channel, `pending` the token table, `wire` and `back` the two
directions of the connection. Responses without a token, which `sendCommandCore` never asks
for, are left out. Whatever goes wrong (a lost connection, garbage, a timeout of a
command that would have been answered, a dropped event or record) is counted in `faults`.

`Experiment` adds baresip, the sessions as far as the records depend on them, the event
loop, ODA as "a record, then a hangup", and `runExperiment` with the rows it writes. An
experiment (`exp`) has a number of attempts, ODA configured or not, and the integrated or the
baseline mode. Of DIA there is `RuaCompletes`, in the integrated mode: it may happen or not, and
whichever of it and the answer comes last asks for ODA, as in
`startODAAfterAnswerForOutgoingIfConfigured`.
`EventCap` and `ResultCap` stand for 100 and 1000. An error of the CSV writer ends the
program and is left out; both of the deferred closes at the end are one step;
`AnsweredAt` and `DialSentAt` are sequentially consistent.


## 3. What the runs check

Every property is stated above its definition; every property of a run has a mutant
of the code (`PROJECT.json`) that violates it. Operators marked "Faulty variant" are
those mutants.

| run | instance | shows |
|---|---|---|
| `relay_delivery` | 2 streams, one without sender_id, 3 payloads of both kinds, history of 1, a relay crash | publisher order, nothing owed twice, no own payload, and what the two reads owe is delivered when the log only grew |
| `relay_faults` | 2 symmetric streams, Redis faults, expiry, a break, queue and history of 1 | types, order, what a terminal payload clears |
| `relay_index` | 2 streams, 2 topics, 1 payload, a refused request, a break | index exact, no bucket leak, returned means detached; broken streams leave, replays end |
| `session_queue` | the callback sends and moves between 2 topics, 3 requests, queue of 2, 2 streams | order, at most once, at most one taken from the queue and lost per stream, topic agreement |
| `session_close` | a caller and the callback, queue of 1, 2 streams, `Start` at any moment | after `Close` no callback, no stream and nothing sent, `Close` returns |
| `call_glare` | 2 attempts and an incoming call of one peer, 2 calls, events dropped at 4 | types, the manager's three indexes agree, a terminal record for every attempt that goes, no answered call without session or hangup |
| `call_end` | an attempt and an incoming call of one peer, with and without DIA, 1 call | sessions of ended calls go away |
| `call_baseline` | an attempt and a baseline call announced by CALL_REMOTE_SDP | the baseline call is hung up |
| `teardown` | the five enders, 2 messages, either direction | every `Cleanup` gets through, the relay session closes; libdia's state is freed once, by who holds the mutex |
| `dia_call` | 2 calls, an old key on either side or both, a caller who may be a stranger, 1 fault | no call up past the gate, undisturbed exchanges complete on one topic and leave one key, no call rings on undecided |
| `oda` | either direction, 1 request of the peer, 1 of the command line | types, one record, the call-id is known, ODA starts; `Oda` implements `OdaOutcome`, safety and liveness |
| `experiment` | one attempt with ODA in either mode or two without, event and result channels of 2, 1 fault | types, responses match commands, rows once and in order, nothing waited for in vain; commands return; experiments end, or stay with an answered call whose DIA does not complete |

The bounds are the smallest at which the race in question exists: two goroutines on
one topic, queue or peer, one more actor that disturbs them, and capacities of one to
four so that full queues, trimmed histories and dropped events happen. One peer is
enough for the calls: sessions of different peers meet in no index entry and no
queue except the event channel, which is exercised by one. In `call_end` and
`call_baseline` the event channel is too large to drop an event, since a dropped
CALL_CLOSED keeps its session for good (`CallDropped.cfg`); in `call_glare` the
attempts run without DIA, whose interleavings `call_end` has. `dia_call` needs the second
call for what the first leaves behind (cached keys, kept requests); `teardown` the second
message for a callback that comes back after the fields were checked once. With ODA
an experiment has one attempt, because the second is refused
(`ExperimentRefused.cfg`), and `oda` has `ByHand = FALSE`, because an answer past the gate may
start no ODA (`OdaByHand.cfg`). `CHECK_DEADLOCK FALSE` is set everywhere because every
instance may come to rest (all bounds used up, or nobody calls).

### Fairness

`Relay!Fairness`: weak fairness of each handler, each writer, and of Recv on a broken
stream; Go schedules runnable goroutines, Redis commands return, Recv on a cancelled
stream fails. `ClientSession!Fairness`: the same of callers that are inside a call,
loop, pumps and closer. `CallControl!Fairness`: goroutines, the command timeout, baresip
handling its commands, the hangup goroutine. Nothing forces a client to send, a
stream to break, a far end to act, a DIA peer to answer, or the DIA timer to fire.

`Teardown!Fairness`: the goroutines, `Close`, and each ender on its own, so that a
starved one would show; no end and no message has to come. `DiaCall!Fairness`: the INVITE
arrives, goroutines run, the relay reads its streams, a client reconnects
(`tunnelLoop` retries for ever), and the DIA timer fires unless stopped.
`Oda!Fairness`: the four goroutines, the delay and the timer; the peer and the
users owe nothing. `Experiment!Fairness`: goroutines, command timeouts, baresip handling and
answering commands, ODA, once asked for, ending with its response or its timeout, and a ringing
call being answered or given up; an answered call may last for ever, the runner or ODA has to
end it. DIA owes nothing (`RuaCompletes` is not fair): it may fail, and the far end may have none.

### What the repository says and the code does not keep

Every statement below is a sentence of the repository, quoted above the definition,
that the code does not keep. The configuration of that name reproduces the
counterexample (`tlc -config <cfg> <module>.tla`, seconds each, `ExitsAfterRuns` a minute). They are not among the
runs: each is one question with one answer, and the model is the same as that of a run.

| configuration | module | property | the code |
|---|---|---|---|
| `RelaySkipped` | `MCRelay` | `SkippedAreCaughtUp` | a payload skipped for a replaying subscriber after the catch-up read is lost (`grpc.go:265`) |
| `RelayCatchUp` | `MCRelay` | `StoredAreCaughtUp` | the catch-up offset is stale after a delete |
| `RelayEcho` | `MCRelay` | `NoSelfEcho` | a client's second stream gets its own payloads |
| `RelayFreshStart` | `MCRelay` | `FreshStart` | a late store survives the BYE's delete |
| `RelayCreates` | `MCRelay` | `PublishNeverCreates` | a publish brings a deleted topic back |
| `SessionPanic` | `ClientSession` | `NoSendOnClosed` | send on the closed queue (`session.go:358`) |
| `SessionBlocked` | `ClientSession` | `SendFailureReconnects` | a callback waiting on the full queue blocks the reconnection |
| `SessionWriters` | `ClientSession` | `SingleWriter` | concurrent sends on one stream |
| `SessionLate` | `ClientSession` | `StoppedTakesNothing` | a stopped pump takes a request |
| `SessionMac` | `ClientSession` | `MacMatchesTopic` | the MAC of one topic on a request for another |
| `SessionLate`, with `CloseWaitsForPumps` as its invariant | `ClientSession` | `CloseWaitsForPumps` | a pump outlives `Close` |
| `CallSilent` | `MCCallControl` | `ClosedStaysSilent` | a closed session is reopened by a later `SetState` (`controller.go:842`) |
| `CallReach` | `MCCallControl` | `Reachable` | a double removal hides a newer session of the call |
| `CallOne` | `MCCallControl` | `OneSessionPerPeer` | two active sessions of one peer |
| `CallTorn` | `MCCallControl` | `ClosedMeansTornDown` | an attempt reported closed by another call's end |
| `CallSelfBusy` | `MCCallControl` | `NotBusyWithItself` | a call rejected as busy because of itself |
| `CallLeak` | `MCCallControl` | `CleanupReleases` | a relay session opened after `Cleanup` |
| `CallOverdue` | `MCCallControl` | `AnswerCancelsTimeout` | a timeout that has started rejects the answered call |
| `CallDropped` | `MCCallControl` | `CloseAlwaysReported` | CALL_CLOSED dropped: no record, the peer stays busy |
| `TeardownPanic` | `Teardown` | `FieldsAreThere` | the fields checked at `controller.go:847` (and `:1620`) are nil when used: `Cleanup` held the mutex the callback then waited for |
| `DiaCache` | `DiaCall` | `CacheIsBestEffort` | two parties with different cache entries wait on different topics until the timeout rejects the call (`controller.go:531`) |
| `DiaDuplicate` | `DiaCall` | `DuplicatesAreNoOps` | a duplicate RUA request after the call is established is an error, which rejects the call (`controller.go:1055`) |
| `OdaRetry` | `Oda` | `UnsentIsRetried` | a request that could not be sent is not retried: it is marked before (`controller.go:1316`) |
| `OdaByHand` | `Oda` | `OdaStarts` | answered at the phone before RUA completes: no later event starts ODA (`controller.go:1240`) |
| `ExperimentRefused` | `MCExperiment` | `WaitsForTearDown` | with ODA the next attempt is dialled before the call is torn down, and refused (`controller.go:1633`); without it too, when a late `SetState` of the dialling goroutine or of DIA reopens the session that is being removed |
| `Experiment`, with `ExitsAfterRuns` as its property | `MCExperiment` | `ExitsAfterRuns` | a baseline experiment with ODA attributes configured never ends an answered call (`main.go:430`; `waitForODA`, `main.go:380`, does not look at the mode) |
| `ExperimentRows` | `MCExperiment` | `PendingRowIsWritten` | the ODA record comes before the answered one: the attempt is complete and neither row is written (`main.go:455`) |

## 4. What is proved

The main theorems about `Spec`, each for every value of the constants that the named
`ASSUME`s of its module allow (`tlapm <module>.tla` checks them; fairness plays no part).

| theorem | module | says |
|---|---|---|
| `TypeCorrect` | `RelayProofs` | `Relay!TypeOK`: every send queue stays within its capacity |
| `IndexAlwaysConsistent` | `RelayProofs` | `IndexConsistent`: `Server.clients` and every `activeTopic` agree |
| `BucketsNeverLeak` | `RelayProofs` | `NoBucketLeak`: an empty topic bucket only while a SUBSCRIBE is about to fill it |
| `ReturnedAlwaysDetached` | `RelayProofs` | `ReturnedDetached`: a handler that returned left no session behind |
| `OwnHistoryStaysCleared` | `RelayProofs` | `OwnHistoryCleared`: what a terminal payload deletes of its own stream stays deleted |
| `EachStreamInOrder` | `RelayDeliveryProofs` | `PublisherOrder`: replay, catch-up and live delivery keep the order of each publisher |
| `OwedAtMostOnce` | `RelayDeliveryProofs` | `OwedOnce`: what a replay owes is handed over at most once |
| `NothingOfItsOwn` | `RelayDeliveryProofs` | `NoOwnPayload`: no stream gets its own payloads |
| `ReplayIsComplete` | `RelayDeliveryProofs` | `ReplayComplete`: what the two reads owe is handed over, or dropped at a full queue |
| `SessionTypes` | `ClientSessionProofs` | `ClientSession!TypeOK` |
| `NothingAfterClose` | `ClientSessionProofs` | `CloseQuiet`, an action property: once `Close` has returned no callback runs, no stream is opened and nothing is sent; a loop launched late only ends |
| `OneRequestLost` | `ClientSessionProofs` | `OneLostPerStream`: at most one request that a pump took is not put on its stream (the relay may also miss what was put on a stream that broke) |
| `QueueInOrder` | `ClientSessionProofs` | `QueueOrder`: queued requests at most once and in order, over reconnections |
| `SubscribedToTopic` | `ClientSessionProofs` | `TopicAgreement`: a settled session listens where it believes it does |
| `CallTypeCorrect` | `CallControlProofs` | `CallControl!TypeOK` |
| `ManagerAlwaysConsistent` | `CallControlProofs` | `ManagerConsistent`: the call-id index and the pending queues only lead to registered sessions, no attempt waits twice |
| `EveryAttemptAccounted` | `CallControlProofs` | `Accounted`: no attempt disappears without a terminal record, none is reported closed twice |
| `AnsweredNeverForgotten` | `CallControlProofs` | `NoForgottenCall`: where calls are announced once, a call answered here is found under its call-id or is being hung up |
| `DiaTypes` | `DiaCallProofs` | `DiaCall!TypeOK` |
| `GateIsHeld` | `DiaCallProofs` | `GateHolds`: a call is up only past the gate, over its own request, with both parties on one RUA topic |
| `ExchangeCompletes` | `DiaCallProofs` | `NeverStuck`: an undisturbed exchange halts only with the call up, DIA complete and the new session cached on both sides |
| `StateFreedOnce` | `TeardownProofs` | `Teardown!FreedOnce`: one goroutine at a time is past the lock of `Cleanup`, libdia's state is closed at most once |
| `OdaTypeCorrect` | `OdaProofs` | `Oda!TypeOK` |
| `OneTerminalRecord` | `OdaProofs` | `OneRecord`: one ODA record at most, of the recorded outcome |
| `CallIdAlwaysKnown` | `OdaProofs` | `CallIdKnown`: a request only runs once the call-id is known |
| `OneTimerAtATime` | `OdaProofs` | `OneTimer`: no request on its way while the timer of another runs |
| `OdaKeepsPromise` | `OdaProofs` | `KeepsPromise`: `Oda` implements the safety part of `OdaOutcome` |
| `OutcomeAlwaysStays` | `OdaProofs` | `OutcomeStays`: the second of response and timeout changes nothing |
| `MatchedAlways` | `ExperimentProofs` | `Matched`: a response reaches the command it answers and no later one, and the table holds the commands that wait |
| `ExperimentTypes` | `ExperimentProofs` | `Experiment!TypeOK`, and with it that the attempts in flight are those started and not completed |
| `RowsAreInOrder` | `ExperimentProofs` | `RowsInOrder`: at most one row of each kind, in order, whoever reports first |
| `NoneForgotten` | `ExperimentProofs` | `NothingIsForgotten`: while nothing fails, what the runner waits for has been reported or has a closing to come |

**Relay.** The assumptions: `SenderOf` maps the sessions to senders
(`SendersAssumption`), both capacities are positive (`CapAssumption`), the bounds are
natural numbers, the switches Booleans, and the null values are outside their sets.
`TypeOK` is not inductive: a publish in progress uses `frames[req[s].msg]` and a fan-out
`aim[s]`. `TypeInv` adds `InFlight`, what a handler holds at each `pc` (a topic, a
payload, a target) and that no request is ahead of the payloads.
The three index theorems come from one invariant, `IndexInv`: a session that leaves its
topic is out of every set, and empties no bucket but its own, only because `subs` and
`activeTopic` agree, so `NoBucketLeak` and `ReturnedDetached` rest on `IndexConsistent`.
The proof is by what a step can do to the index (leave a topic, join one, neither) and
then by action. `HistoryInv` adds to `OwnHistoryCleared`
what makes it inductive: a request in progress is the latest payload of its stream, so
no store can come after a delete that should have covered it.

**Delivery.** Order and at-most-once are one proof, because each needs the other's reasons.
`DeliveryInv` says, of a stream that has subscribed at most once: which payloads are known
(`KnownInv`); that a history, and a copy of one, keeps each publisher's order, and a payload
in it has been stored by a handler that publishes it no earlier (`LogInv`); that nobody
fans out to a stream before it has joined, nor finds it listening before its replay ends
(`ReachInv`); that the handler of an owed payload has passed the stream by (`OwedInv`: this
is why replay and live delivery do not overlap); that what is still to replay comes after
what was handed over (`ReplayInv`); and what all that is for, that any two entries of
what was sent and is queued are in order, and only once if owed (`FeedInv`). A lemma per
kind of step (`FedSteps`, `LogSteps`, `RequestSteps`, `FanSteps`, `SubscribeSteps`, `OwedSteps`) says
what a step can do to one structure, so that each invariant is proved against a
handful of cases and not against 20 actions. `OwnInv` adds to `NoOwnPayload` that a
publisher is in no fan-out of its own. `CompleteInv` adds to `ReplayComplete` what is true on the way: while the
log only grew, what is owed is in it, the first read is a prefix of it, and each
owed payload is handed over, dropped, or still in what is left to replay.

**Session.** Assumptions: the loop is no caller, the first topic a topic, the capacity positive, the
bounds are naturals. `CloseInv` ties the flags to where `Close` is; when
`Close` returns the loop has ended, since it waits for it, or has not been launched, and then it
finds the context cancelled before it opens a stream. `StreamInv`: streams open one after
the other, only the current one can be up, a pump stops for good when it loses a request.
`OrderInv` adds to `QueueOrder` whose each request is (`IdInv`), that the queue is the end of
what was accepted (`QueueInv`) and that the live pump's request was accepted after
everything that is on a stream (`HandInv`): an old pump beside the new one may hold an older
request, but its stream is dead. `TopicAgreement` is about a settled session; `TopicInv`
says why it gets there: of all requests between the session and the relay, in
queue, pump and stream, the last SUBSCRIBE is to the current topic.

**Calls.** The assumptions: there is a peer, the mode is a Boolean, `Emits` consists of
event types, `DialModes` of Booleans, `EventCap` is positive, the bounds are naturals.
`TypeInv` strengthens `TypeOK` with `Held` (the dialling goroutine and the event loop
hold an attempt, or a call, wherever they use one), `Written` (a command is about a
dialled attempt or a call) and `Rooted` (no DIA goroutine before its session; an
incoming session, and with it a timer, a hangup or the gate, has a call).
`ManagerInv` adds the parts of `ManagerConsistent` and one fact that is not in it: a
waiting attempt waits in the queue of its *own* peer. Without it `RemoveSession`, which
filters only that queue, could leave the attempt in another. `RemoveSession` may run
twice for a session, and for one whose call-id another session has taken over; the
step lemmas (`RegisterKeeps`, `BindKeeps`, `RemoveKeeps`, `HandlesKeeps`, `IncomingKeeps`,
`FrameKeeps`) show that none of it breaks the agreement, and `StepManager` goes through the
actions. What does break is the other direction, that a session with a call-id is found
under it: `Reachable`, above.
`ManagerStep` then says that a step registers an attempt, admits a call, removes a session,
binds one, or leaves the indexes alone, and who does which; the two properties that follow
are proved from that and from one lemma per structure (`DialerSteps`, `LoopSteps`, `EmitSteps`,
`RejectSteps`, `CallSteps`, `CmdSteps`, `EventSteps`). `AccountInv` adds to `Accounted` that an attempt
which was reported closed and is still registered is the one the event loop is about to
remove: a second CALL_CLOSED cannot find it. `NoForgottenCall` needs to know why a session
loses the entry of its call: `Owned` says that the call is then over or a hangup for it is
written (`Doomed`; `Ending`: rejections write it first, `handleCallClosed` comes after the end), or
the session is an attempt that is over (`Gone`), which a call that was answered here is not.
`Owned` is only inductive because nothing is found under the call-id of a call that is announced
(`Announced`), neither when it is announced nor while `handleIncomingCall` is between its
lookup and `NewIncomingSession`. A baresip that sends CALL_INCOMING *and* CALL_REMOTE_SDP
breaks that, and the property: the second signal gives the entry to another session, or to a
waiting attempt, whose end clears it (TLC finds it with `Emits = EventTypes`). The code treats the two as
alternatives (`controller.go:269`), hence the condition `OneAnnouncement` in the property.

**DIA.** Assumptions: the bounds are natural numbers, there is a call, and the parties whose
credentials may not verify are parties. `TypeOK` is not inductive: that a message has a call
number and a request a topic rests on `Linked`, which says when a party has a relay session, and
that a goroutine that starts has none. The gate rests on where a RUA request can be. `Clean`
says it, unless the relay kept requests of an earlier call: every message in a log, a queue
or on its way is of this call, and a RUA request is only on the topic the caller has moved to,
on its way there, or with a callee that is on that topic. The callee's stream may lag behind its
session, but only on the AKE topic, where no RUA request is, since neither party leaves a topic
in any other way (`Placed`, and `Moves` for steps). So when the callee
takes a request its topic is the caller's (`Completed`), and stays so, because neither moves again.
Every step is one of three: it only takes from the relay or leaves it alone and edits a session
without touching DIA (`ShrinkStep`), it makes a relay session (`OpenedStep`), or it is a handler
(`HandlerStep`). `ReplayKept` says that what a subscriber is shown is some of what is kept;
`Replay` is written with the index of the n-th message and not with `SelectSeq`, of which the
prover knows nothing, and `NthIsIn` shows that there is one.
`NeverStuck` says of the states in which nothing is left to do that the exchange has
succeeded, and nothing of those on the way, so its invariant `OnCourse` is the whole exchange,
stage by stage, each with what the parties queue, what is on its way to them and what the
relay keeps: `Opens` (each party on its own, in any order; the request is kept for a callee that
comes later), `Agrees` (AKE response, AKE complete), `Departs` (both move to the RUA topic, in any
order) and `Ends`. Beside it `Calls` says what the call may do meanwhile. The stages make
every message that arrives one that is expected (`AllExpected`): an undisturbed exchange drops
nothing, and no handler of it fails unless a fault is counted. Each action takes a stage to the
next, or leaves it (`CourseStays`), or disturbs the exchange (`Disturbs`).

**Teardown.** `Inv` adds to `FreedOnce` the reasons for it: a goroutine begins to end the
session only while it is not ending it (`EndsOnce`: the timer fires once, the DIA goroutine
fails once, there is one callback), and the state of libdia is stored once (`StoredOnce`).
It holds for any number of messages.

**ODA.** Assumptions: `ByHand` is a Boolean, the bounds are naturals. `OdaInv` is `TypeOK`,
`OneRecord` and three facts about who holds what: `Progress` (an answer leaves the call-id,
only an answered session asks, the goroutine that asks does so before there is a timer),
`Announced` (what baresip has announced has happened) and `Recorded` (the session's flags
say what the records say). The refinement is proved action by action: each step is shown to
be one of `Answer`, `HangUp`, `Close`, `Ask`, `End`, `Report` of `OdaOutcome` or a stutter, with
a lemma for each of the parts that several actions share. `OutcomeStays` is then
derived from the refinement, since no step of `OdaOutcome` changes an ending.

**Experiment.** Assumptions: the runner and ODA are callers, an experiment has between one
and `MaxRuns` attempts, capacities and `Concurrency` are positive, `MaxFaults` is a natural.
Any number of callers, attempts and faults, so the connection may break, garble, time out
and drop as it likes; only `NothingIsForgotten` is about behaviours without faults.
`Matched` needs to know what is under way: a token is the property of one command until its
caller is done with it (`OwnToken`), so that the token of anything on the wire, owed or on its way
back says which command it belongs to (`TokenSays`); the table then leads to commands that
wait, all of them (`Table`). Six kinds of steps (`Issues`, `Frees`, `Writes`, `EndsCommand`, `Routes`,
`Answers`) are shown to keep that, and `CmdSteps` that every action of the system is one of
them. `TypeOK` rests on more than types: `Progress` counts the attempts in flight against
`started` and `completed`; `Commanded` says that nobody but the runner dials; `Known` that
commands and events are about calls that exist, in `back`, `wire`, `eventChan` and the commands
alike. Together they are `ExpInv`, inductive for every action, and the base of the rest.
`RowInv` adds to `RowsInOrder` that what `inFlight` says has been written of an attempt is what the
file has of it (`WrittenSays`), and that an error record ends the experiment (`NoError`): only
then does `CSV` write a row that is not there yet, after those it may follow.
`ForgetInv` is about the chain from a dial to the record of its end, each link of which
another goroutine holds. Dial: one at most is on the wire, that of the newest
attempt, which has no call yet (`OneDial`), and a dial answered at all was answered OK and has
made a call (`DialAnswered`). Call: the frames not read and the events not handled are one
`Stream`, in which the closing of a call is last (`ClosingLast`); as long as a call has not ended or its closing
is in that stream it is to close (`ToClose`). Session: each attempt has one call, and is registered
while that call is to close (`Owner`), and the only registered sessions are the newest and one that
is about to be removed (`OneOpen`, `Fresh`). That is why an event finds the attempt that dialled
the call, with or without its call-id (`FoundIs`), though a session is looked up by elimination
when the call-id is not known. Record: an attempt in flight has a call
that is to close or has been reported (`Owing`), since the only step after which a call is not to close is
the one that gives its record (`ClosingReported`), and the runner drops a record only of an attempt
it no longer waits for (`ReportKept`). `StreamSteps` says what a step can do to the stream (nothing, one
less, more of one call, a new call), `AttMoves` what it can do to a session, so
that no invariant is proved against every action of the system.
Two formulas of the model were changed for these proofs, neither in what it
says of the code: what the program itself drops (an event, a record) counts as one fault more than
the environment's `MaxFaults` allow, where the count had no bound of its own, and the table is
written as an explicit function.

Left to TLC: liveness under fairness (`BrokenGoes`, `ReplayEnds`, `CloseReturns`,
`SessionsEnd`, `BaselineCallsEnd`, `TearsDown`, `RingingIsDecided`, `OdaStarts`,
`FulfilsPromise`, `CommandsReturn`, `ExperimentEnds`), which the prover cannot express;
and `RoundTrip` and `NothingAfterGarbage`, which are about recursion over data and evaluated
for bounded streams only. Every other property of the runs that pass is proved.

## 5. Not modelled, and the plan

Not modelled, and why:

- the credential cryptography and what libdia computes: external; the models take from
  `src/` what the code does with each result;
- `cmd/client/callauth`, a second client of DIA without SIP, whose role handlers follow
  those of the SIP controller; the interactive command loop, which only calls the
  controller; the CSV goroutine outside experiments, which writes a row per record;
- enrollment (one stateless handler), benchmarks, configuration parsing, generated
  code, logging: no state that changes, or no behaviour of the repository's own.

Planned, in this order:

1. `TopicFeed`: the abstract specification of a topic (an ordered feed per publisher, with
   loss), implemented by `Relay` under a refinement mapping and used by `DiaCall` in the
   place of its own relay.
2. The demo client as a second instance of `DiaCall`'s parties, without gate and timer.
