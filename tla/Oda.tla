--------------------------------- MODULE Oda ---------------------------------
(***************************************************************************)
(* ODA in one CallSession of either direction, from the moment DIA is all   *)
(* but complete: the ODA parts of internal/sipcontroller/controller.go.     *)
(* Once the call is answered the controller asks its peer to disclose       *)
(* attributes, records the response or a timeout, emits one terminal record *)
(* and hangs up.  Four kinds of goroutine touch the session: the event      *)
(* loop, the DIA callback, the goroutine that asks and the timer; a step    *)
(* ends where the code releases session.mu, or has written a field that is  *)
(* read without it.  Left out is who else may clean the session up: the     *)
(* dialling goroutine when its dial fails though the call is up, an overdue *)
(* DIA timer, and Stop.                                                     *)
(***************************************************************************)
EXTENDS Naturals, Sequences, FiniteSets

CONSTANTS
    ByHand,      \* may an incoming call be answered at the phone, past the gate
    MaxManual,   \* bound: requests the user triggers
    MaxPeer      \* bound: requests of the peer

ASSUME HandAssumption == ByHand \in BOOLEAN
ASSUME BoundAssumption == MaxManual \in Nat /\ MaxPeer \in Nat

VARIABLES
    dir,       \* direction of the call
    phone,     \* the call, as baresip sees it
    events,    \* events the loop has not handled
    sess,      \* the ODA fields of the CallSession
    loop,      \* where the event loop is
    callback,  \* where the DIA callback is
    asker,     \* where the goroutine is that asks
    timer,     \* the ODA timer and its function
    inbox,     \* DIA messages on their way to the callback
    asked,     \* requests the peer has not answered
    peer, manual,  \* requests that the peer, the user, made so far
    results    \* the records emitted

gor  == <<loop, callback, asker, timer>>
call == <<dir, phone, events>>
dia  == <<inbox, asked, peer>>
vars == <<call, sess, gor, dia, manual, results>>

Outcomes == {"oda_done", "oda_timeout"}
SessionType ==
    [answered : BOOLEAN,     \* AnsweredAt is set
     complete : BOOLEAN,     \* DIAComplete
     known : BOOLEAN,        \* the call-id is
     scheduled : BOOLEAN,    \* ODARequestScheduled
     requested : BOOLEAN,    \* ODARequestedAt is set
     outcome : Outcomes \cup {"none"},   \* ODATerminalOutcome, with ODACompletedAt
     emitted : BOOLEAN,      \* ODATerminalEmitted
     deferred : BOOLEAN,     \* HangupAfterODARequested
     sent : BOOLEAN,         \* history: its ODA request was sent
     closed : BOOLEAN,       \* StateClosed
     open : BOOLEAN]         \* DIAController is there and the session is registered

\* The last message of RUA is on its way.  An attempt may have its call-id from an
\* earlier event; an incoming call has it from the start.
Init ==
    /\ dir \in {"outgoing", "incoming"}
    /\ phone = "ringing"
    /\ events = <<>>
    /\ \E known \in BOOLEAN :
          /\ dir = "incoming" => known
          /\ sess = [answered |-> FALSE, complete |-> FALSE, known |-> known,
                     scheduled |-> FALSE, requested |-> FALSE, outcome |-> "none",
                     emitted |-> FALSE, deferred |-> FALSE, sent |-> FALSE,
                     closed |-> FALSE, open |-> TRUE]
    /\ loop = "idle" /\ callback = "idle" /\ asker = "off" /\ timer = "off"
    /\ inbox = <<"rua">>
    /\ asked = 0 /\ peer = 0 /\ manual = 0
    /\ results = <<>>
-----------------------------------------------------------------------------
(* baresip, and the peer. *)

\* The call is answered; not every baresip emits CALL_ANSWERED.
Connected ==
    /\ phone' = "up"
    /\ events' \in {events \o <<"answered", "established">>, Append(events, "established")}

Answered ==
    /\ dir = "outgoing" \/ ByHand
    /\ phone = "ringing" /\ Connected
    /\ UNCHANGED <<dir, sess, gor, dia, manual, results>>

HungUp ==
    IF phone = "over" THEN UNCHANGED <<phone, events>>
    ELSE phone' = "over" /\ events' = Append(events, "closed")

\* A hangup by either user, or by the peer's controller.
UserHangsUp ==
    /\ phone # "over" /\ HungUp
    /\ UNCHANGED <<dir, sess, gor, dia, manual, results>>

PeerResponds ==
    /\ asked > 0
    /\ asked' = asked - 1
    /\ inbox' = Append(inbox, "response")
    /\ UNCHANGED <<call, sess, gor, peer, manual, results>>

PeerAsks ==
    /\ peer < MaxPeer
    /\ peer' = peer + 1
    /\ inbox' = Append(inbox, "request")
    /\ UNCHANGED <<call, sess, gor, asked, manual, results>>
-----------------------------------------------------------------------------
(* The terminal record. *)

\* The lock section of handleODAResponse and of the timer function: the first one to
\* come records.  (Faulty variant: it does not look whether ODA has completed.)
RecordAlways(s) == s.requested
ShouldRecord(s) == s.requested /\ s.outcome = "none"

\* What there is to emit.  (Faulty variant: a request is enough.)
HasRequest(s) == s.requested
HasOutcome(s) == s.outcome # "none" /\ s.requested

\* maybeEmitODATerminalResult.  (Faulty variant: the record is not marked as emitted.)
EmitUnmarked(s) == s
MarkEmitted(s) == [s EXCEPT !.emitted = TRUE]
MaybeEmit ==
    IF ~sess.emitted /\ HasOutcome(sess) /\ sess.known
      THEN sess' = MarkEmitted(sess) /\ results' = Append(results, sess.outcome)
      ELSE UNCHANGED <<sess, results>>
-----------------------------------------------------------------------------
(* The request. *)

\* At most one goroutine asks.
NotScheduled(s) == ~s.scheduled /\ ~s.requested

\* The call must have been answered.  (Faulty variant: RUA is enough.)
AnyTime(s) == TRUE
AfterAnswer(s) == s.answered

\* startODAAfterAnswerForOutgoingIfConfigured.
StartOutgoing ==
    IF sess.complete /\ AfterAnswer(sess) /\ NotScheduled(sess)
      THEN sess' = [sess EXCEPT !.scheduled = TRUE] /\ asker' = "delay"
      ELSE UNCHANGED <<sess, asker>>

\* A timer guards the request.  (Faulty variant: none does.)
Unguarded == UNCHANGED timer
Guarded == timer' = "armed"

\* startODAAfterAnswerIfConfigured, for an incoming call: without delay.
StartIncoming ==
    IF sess.open /\ sess.complete /\ ~sess.requested
      THEN sess' = [sess EXCEPT !.requested = TRUE] /\ Guarded /\ asker' = "trigger"
      ELSE UNCHANGED <<sess, timer, asker>>

\* After the delay, which the end of the call does not cut short: ODARequestedAt ...
DelayOver ==
    /\ asker = "delay" /\ asker' = "arm"
    /\ sess' = [sess EXCEPT !.requested = TRUE]
    /\ UNCHANGED <<call, loop, callback, timer, dia, manual, results>>

\* ... then the timer ...
ArmTimer ==
    /\ asker = "arm" /\ asker' = "trigger"
    /\ Guarded
    /\ UNCHANGED <<call, sess, loop, callback, dia, manual, results>>

\* ... and triggerODA: the request and StateODAActive, unless DIA is gone or a step fails.
TriggerODA ==
    /\ asker = "trigger" /\ asker' = "off"
    /\ \/ UNCHANGED <<sess, asked>>
       \/ /\ sess.open
          /\ sess' = [sess EXCEPT !.sent = TRUE, !.closed = FALSE]
          /\ asked' = asked + 1
    /\ UNCHANGED <<call, loop, callback, timer, inbox, peer, manual, results>>

\* TriggerODAForCall, from the command line: no ODARequestedAt, no timer.
TriggerODAForCall ==
    /\ manual < MaxManual
    /\ sess.known /\ sess.open /\ sess.complete
    /\ manual' = manual + 1
    /\ sess' = [sess EXCEPT !.closed = FALSE]
    /\ asked' = asked + 1
    /\ UNCHANGED <<call, gor, inbox, peer, results>>
-----------------------------------------------------------------------------
(* The timer function, which a Stop that comes too late does not stop. *)

TimerFires ==
    /\ timer = "armed" /\ timer' = "fired"
    /\ UNCHANGED <<call, sess, loop, callback, asker, dia, manual, results>>

TimerRecords ==
    /\ timer = "fired"
    /\ IF ShouldRecord(sess)
         THEN /\ sess' = [sess EXCEPT !.outcome = "oda_timeout", !.deferred = @ \/ ~sess.known]
              /\ timer' = "emit"
         ELSE timer' = "off" /\ UNCHANGED sess
    /\ UNCHANGED <<call, loop, callback, asker, dia, manual, results>>

TimerEmits ==
    /\ timer = "emit" /\ timer' = "hangup"
    /\ MaybeEmit
    /\ UNCHANGED <<call, loop, callback, asker, dia, manual>>

\* (Faulty variant: only a call whose call-id came late.)
HangupLate(s) == s.deferred
HangupNow(s) == s.known
TimerHangsUp ==
    /\ timer = "hangup" /\ timer' = "off"
    /\ IF HangupNow(sess) THEN HungUp ELSE UNCHANGED <<phone, events>>
    /\ UNCHANGED <<dir, sess, loop, callback, asker, dia, manual, results>>

\* CancelODATimeout.
Stopped == timer' = IF timer = "armed" THEN "off" ELSE timer
-----------------------------------------------------------------------------
(* The callback. *)

\* handleDIAMessage takes the next message; one of a closed session is dropped.
HasMessage == callback = "idle" /\ sess.open /\ inbox # <<>>
Takes(message) == HasMessage /\ ~sess.closed /\ Head(inbox) = message
               /\ inbox' = Tail(inbox)

DropsMessage ==
    /\ HasMessage /\ sess.closed
    /\ inbox' = Tail(inbox)
    /\ UNCHANGED <<call, sess, gor, asked, peer, manual, results>>

\* The last message of RUA: DIAComplete ...
RUACompletes ==
    /\ Takes("rua")
    /\ sess' = [sess EXCEPT !.complete = TRUE]
    /\ callback' = "start"
    /\ UNCHANGED <<call, loop, asker, timer, asked, peer, manual, results>>

\* ... and ODA, if the answer came first.  (Faulty variant: only an answer starts it.)
StartLater == UNCHANGED <<sess, asker>>
StartIfAnswered == StartOutgoing
CallerStarts ==
    /\ callback = "start" /\ dir = "outgoing"
    /\ StartIfAnswered
    /\ callback' = "idle"
    /\ UNCHANGED <<call, loop, timer, dia, manual, results>>

\* ... or, at the callee, the gate: the call is answered.
CalleeAnswers ==
    /\ callback = "start" /\ dir = "incoming"
    /\ IF phone = "ringing" THEN Connected ELSE UNCHANGED <<phone, events>>
    /\ callback' = "idle"
    /\ UNCHANGED <<dir, sess, loop, asker, timer, dia, manual, results>>

\* handleODARequest: a response, which only the peer's state sees.
HandleODARequest ==
    /\ Takes("request")
    /\ UNCHANGED <<call, sess, gor, asked, peer, manual, results>>

\* handleODAResponse: it may not verify; if it does, it is recorded ...
HandleODAResponse ==
    /\ Takes("response")
    /\ \/ UNCHANGED <<sess, callback>>
       \/ /\ ShouldRecord(sess)
          /\ sess' = [sess EXCEPT !.outcome = "oda_done"]
          /\ callback' = "cancel"
    /\ UNCHANGED <<call, loop, asker, timer, asked, peer, manual, results>>

\* ... the timer stopped, the record emitted, the call hung up.
CallbackCancels ==
    /\ callback = "cancel" /\ callback' = "emit"
    /\ Stopped
    /\ UNCHANGED <<call, sess, loop, asker, dia, manual, results>>

CallbackEmits ==
    /\ callback = "emit" /\ callback' = "hangup"
    /\ MaybeEmit
    /\ UNCHANGED <<call, loop, asker, timer, dia, manual>>

CallbackHangsUp ==
    /\ callback = "hangup" /\ callback' = "idle"
    /\ IF sess.known
         THEN HungUp /\ UNCHANGED sess
         ELSE sess' = [sess EXCEPT !.deferred = TRUE] /\ UNCHANGED <<phone, events>>
    /\ UNCHANGED <<dir, loop, asker, timer, dia, manual, results>>
-----------------------------------------------------------------------------
(* The event loop. *)

TakesEvent(types) ==
    /\ loop = "idle" /\ events # <<>> /\ Head(events) \in types
    /\ events' = Tail(events)

\* handleCallAnswered and handleCallEstablished: the call-id, AnsweredAt ...
OnAnswered ==
    /\ TakesEvent({"answered", "established"})
    /\ IF sess.open
         THEN sess' = [sess EXCEPT !.answered = TRUE, !.known = TRUE] /\ loop' = "start"
         ELSE UNCHANGED <<sess, loop>>
    /\ UNCHANGED <<dir, phone, callback, asker, timer, dia, manual, results>>

\* ... ODA of the one direction or the other ...
LoopStarts ==
    /\ loop = "start" /\ loop' = "emit"
    /\ IF dir = "outgoing" THEN StartOutgoing /\ UNCHANGED timer ELSE StartIncoming
    /\ UNCHANGED <<call, callback, dia, manual, results>>

\* ... a record and a hangup that waited for the call-id.
LoopEmits ==
    /\ loop = "emit" /\ loop' = "hangup"
    /\ MaybeEmit
    /\ UNCHANGED <<call, callback, asker, timer, dia, manual>>

LoopHangsUp ==
    /\ loop = "hangup" /\ loop' = "idle"
    /\ IF sess.deferred /\ sess.known
         THEN sess' = [sess EXCEPT !.deferred = FALSE] /\ HungUp
         ELSE UNCHANGED <<sess, phone, events>>
    /\ UNCHANGED <<dir, callback, asker, timer, dia, manual, results>>

\* handleCallClosed: StateClosed, the closed record ...
OnClosed ==
    /\ TakesEvent({"closed"}) /\ loop' = "cleanup"
    /\ sess' = [sess EXCEPT !.closed = TRUE]
    /\ results' = Append(results, "closed")
    /\ UNCHANGED <<dir, phone, callback, asker, timer, dia, manual>>

\* ... Cleanup and RemoveSession.
CleansUp ==
    /\ loop = "cleanup" /\ loop' = "idle"
    /\ Stopped
    /\ sess' = [sess EXCEPT !.open = FALSE]
    /\ UNCHANGED <<call, callback, asker, dia, manual, results>>
-----------------------------------------------------------------------------
Asker == DelayOver \/ ArmTimer \/ TriggerODA
Timer == TimerFires \/ TimerRecords \/ TimerEmits \/ TimerHangsUp
Callback == DropsMessage \/ RUACompletes \/ CallerStarts \/ CalleeAnswers
               \/ HandleODARequest \/ HandleODAResponse
               \/ CallbackCancels \/ CallbackEmits \/ CallbackHangsUp
Loop == OnAnswered \/ LoopStarts \/ LoopEmits \/ LoopHangsUp \/ OnClosed \/ CleansUp

Next == \/ Answered \/ UserHangsUp \/ PeerResponds \/ PeerAsks
        \/ Asker \/ Timer \/ Callback \/ Loop \/ TriggerODAForCall

Spec == Init /\ [][Next]_vars

\* Goroutines run on, the delay passes, and a timer that is not stopped fires.
Fairness == WF_vars(Asker) /\ WF_vars(Timer) /\ WF_vars(Callback) /\ WF_vars(Loop)

FairSpec == Spec /\ Fairness
-----------------------------------------------------------------------------
(* Properties. *)

TypeOK ==
    /\ dir \in {"outgoing", "incoming"}
    /\ phone \in {"ringing", "up", "over"}
    /\ events \in Seq({"answered", "established", "closed"})
    /\ sess \in SessionType
    /\ loop \in {"idle", "start", "emit", "hangup", "cleanup"}
    /\ callback \in {"idle", "start", "cancel", "emit", "hangup"}
    /\ asker \in {"off", "delay", "arm", "trigger"}
    /\ timer \in {"off", "armed", "fired", "emit", "hangup"}
    /\ inbox \in Seq({"rua", "request", "response"})
    /\ asked \in Nat /\ peer \in 0 .. MaxPeer /\ manual \in 0 .. MaxManual
    /\ results \in Seq(Outcomes \cup {"closed"})

\* controller.go:1183 to 1228: the response, the timer and the event loop may all come
\* to emit; a session gives one ODA record at most, and it is the outcome recorded.
OneRecord ==
    \A i, j \in DOMAIN results :
        results[i] \in Outcomes => /\ results[i] = sess.outcome
                                   /\ results[j] \in Outcomes => i = j

\* controller.go:1149 and 1254: the response and the timeout race for one lock; who
\* comes second changes nothing.
OutcomeStays == [][sess.outcome # "none" => sess'.outcome = sess.outcome]_vars

\* controller.go:1174 and 1265 prepare for ODA that ends before the call-id is known; it
\* starts after an answer, whose event binds the call-id, whichever goroutine comes first.
CallIdKnown == sess.requested => sess.known /\ ~sess.deferred

\* controller.go:1306: the answer (twice) and the end of RUA may each start ODA; no
\* request is on its way while the timer of another runs or its function does.
OneTimer == asker \in {"delay", "arm"} => timer = "off"

\* controller.go:956, 1480 and 1483: whichever comes last, the answer or the end of RUA,
\* starts ODA.
OdaStarts == sess.answered /\ sess.complete ~> sess.requested \/ ~sess.open

\* The session as OdaOutcome sees it.
Request == IF sess.outcome # "none" THEN sess.outcome
           ELSE IF sess.requested THEN "running" ELSE "none"
Reports == [o \in Outcomes |-> Cardinality({i \in DOMAIN results : results[i] = o})]

Promised == INSTANCE OdaOutcome WITH
    open <- sess.open, request <- Request, reports <- Reports

\* What ODA promises of a call: every step of the event loop, the callback, the timer and
\* the asking goroutine (controller.go:1132 to 1394, 1460 to 1659) is a step of OdaOutcome
\* or none ...
KeepsPromise == Promised!SafeSpec

\* ... and, though the peer may never answer (controller.go:1253, 1342), requests end, are
\* reported, and end the call (controller.go:1165, 1273).
FulfilsPromise == Promised!Spec
-----------------------------------------------------------------------------
(* What comments say; the code does not keep it. *)

\* controller.go:1316 "If we never actually sent an ODA request, allow a retry.":
\* ODARequestedAt is set before the request is sent, so nothing is allowed.
UnsentIsRetried ==
    sess.scheduled /\ ~sess.sent /\ asker = "off" => ~sess.requested
=============================================================================
