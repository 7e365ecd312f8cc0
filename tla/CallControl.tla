----------------------------- MODULE CallControl -----------------------------
(***************************************************************************)
(* The call side of internal/sipcontroller: the CallManager of              *)
(* callmanager.go, the event handlers and InitiateOutgoingCall of           *)
(* controller.go, and the baresip process at the other end of the control   *)
(* connection.                                                              *)
(*                                                                          *)
(* Sessions are shared by the event loop, by the goroutine that dials       *)
(* (there is one: the command loop or the experiment), by one DIA goroutine *)
(* per session (then its relay callback) and by the session's DIA timer.    *)
(* What DIA computes is a choice here; of CallState only Closed matters.    *)
(***************************************************************************)
EXTENDS Integers, Sequences, FiniteSets

CONSTANTS
    Peers,         \* phone numbers
    Integrated,    \* Config.IncomingMode # "baseline"
    Emits,         \* event types this baresip emits
    DialModes,     \* values of protocolEnabled
    EventCap,      \* baresip.go:89, capacity of eventChan
    MaxAttempts,   \* bound: sessions created
    MaxDials,      \* bound: calls of InitiateOutgoingCall
    MaxCalls,      \* bound: SIP calls
    MaxIncoming    \* bound: those started by the peers

EventTypes ==
    {"INCOMING", "REMOTE_SDP", "OUTGOING", "RINGING", "ANSWERED", "ESTABLISHED", "CLOSED"}

ASSUME PeerAssumption == Peers # {}
ASSUME ModeAssumption == Integrated \in BOOLEAN
ASSUME EmitAssumption == Emits \subseteq EventTypes
ASSUME DialAssumption == DialModes \subseteq BOOLEAN
ASSUME CallBoundAssumption ==
    /\ EventCap \in Nat \ {0} /\ MaxAttempts \in Nat /\ MaxDials \in Nat
    /\ MaxCalls \in Nat /\ MaxIncoming \in Nat

VARIABLES
    sess,          \* every CallSession ever created, by attempt ID
    byAttempt, byCallID, pendingByPeer,
    counter,       \* CallManager.attemptCounter
    dialer,        \* where InitiateOutgoingCall is
    loop,          \* where the event loop is
    dia,           \* where the DIA goroutine (then callback) of every session is
    rejecting,     \* per session: how far the goroutines inside rejectCall are
    events,        \* BaresipClient.eventChan
    cmds,          \* commands written and not yet handled by baresip
    reply,         \* per attempt: baresip's answer to its dial command
    calls,         \* baresip's calls
    ncalls,        \* how many there are
    dials,         \* calls of InitiateOutgoingCall so far
    \* history variables
    emitted,       \* per attempt: the outcomes given to emitResult
    accepted,      \* attempts answerCall was called for
    overdue        \* attempts whose DIA timeout rejected them after that

mgr   == <<sess, byAttempt, byCallID, pendingByPeer, counter>>
index == <<byAttempt, byCallID, pendingByPeer, counter>>
procs == <<dialer, loop, dia, rejecting>>
bare  == <<events, cmds, reply, calls, ncalls>>
ghost == <<emitted, accepted, overdue>>
vars  == <<mgr, procs, bare, dials, ghost>>

Attempts == 1 .. MaxAttempts
Calls    == 1 .. MaxCalls
AnyPeer  == CHOOSE p \in Peers : TRUE
Rejecters == {"dia", "timer"}

Session == [peer : Peers, dir : {"outgoing", "incoming"}, proto : BOOLEAN, call : 0 .. MaxCalls,
            closed : BOOLEAN,                 \* State = StateClosed
            dialled : BOOLEAN,                \* DialSentAt is set
            answered : BOOLEAN,               \* AnsweredAt is set
            reported : BOOLEAN,               \* AnsweredResultEmitted
            timer : {"off", "armed", "firing"},
            \* DIAState, DIAController: none, the first, both, only the second, closed
            ctrl : {"none", "state", "open", "deaf", "released"},
            hangup : {"no", "due", "sent"}]   \* BaselineHangupScheduled, then its goroutine

NewCallSession(p, dir, proto, c) ==
    [peer |-> p, dir |-> dir, proto |-> proto, call |-> c, closed |-> FALSE, dialled |-> FALSE,
     answered |-> FALSE, reported |-> FALSE, timer |-> "off", ctrl |-> "none", hangup |-> "no"]

NoneCall == [peer |-> AnyPeer, dir |-> "outgoing", phase |-> "none", by |-> 0]
Call == [peer : Peers, dir : {"outgoing", "incoming"},
         phase : {"none", "new", "ringing", "up", "closed"}, by : 0 .. MaxAttempts]

Init ==
    /\ sess = [a \in Attempts |-> NewCallSession(AnyPeer, "outgoing", FALSE, 0)]
    /\ byAttempt = {}
    /\ byCallID = [c \in Calls |-> 0]
    /\ pendingByPeer = [p \in Peers |-> <<>>]
    /\ counter = 0
    /\ dialer = [pc |-> "idle", att |-> 0, peer |-> AnyPeer]
    /\ loop = [pc |-> "idle", call |-> 0, att |-> 0]
    /\ dia = [a \in Attempts |-> "off"]
    /\ rejecting = [a \in Attempts |-> [who \in Rejecters |-> "no"]]
    /\ events = <<>>
    /\ cmds = <<>>
    /\ reply = [a \in Attempts |-> "none"]
    /\ calls = [c \in Calls |-> NoneCall]
    /\ ncalls = 0
    /\ dials = 0
    /\ emitted = [a \in Attempts |-> <<>>]
    /\ accepted = {}
    /\ overdue = {}
-----------------------------------------------------------------------------
(* CallManager. *)

\* GetActiveSessionByPeer.
Active(p) == {a \in byAttempt : sess[a].peer = p /\ ~sess[a].closed}

\* NewOutgoingAttempt, and the session's own fields.
RegisterOutgoing(p, proto) ==
    /\ counter < MaxAttempts
    /\ counter' = counter + 1
    /\ sess' = [sess EXCEPT ![counter + 1] = NewCallSession(p, "outgoing", proto, 0)]
    /\ byAttempt' = byAttempt \cup {counter + 1}
    /\ pendingByPeer' = [pendingByPeer EXCEPT ![p] = Append(@, counter + 1)]
    /\ UNCHANGED byCallID

\* BindOutgoingCallID: the oldest pending attempt of the peer, if any.
Pending(c) == pendingByPeer[calls[c].peer]
Bindable(c) == Pending(c) # <<>>

BindOutgoing(c) ==
    /\ pendingByPeer' = [pendingByPeer EXCEPT ![calls[c].peer] = Tail(@)]
    /\ byCallID' = [byCallID EXCEPT ![c] = Head(Pending(c))]

\* GetByCallID, or else BindOutgoingCallID: the session an event is about, 0 = nil.
Resolved(c) ==
    IF byCallID[c] # 0 THEN byCallID[c] ELSE IF Bindable(c) THEN Head(Pending(c)) ELSE 0

Resolve(c) ==
    /\ IF byCallID[c] = 0 /\ Bindable(c)
         THEN BindOutgoing(c)
         ELSE UNCHANGED <<pendingByPeer, byCallID>>
    /\ UNCHANGED <<byAttempt, counter>>

\* The session with the call-id Resolve gives it.
ResolvedSession(c) == [sess[Resolved(c)] EXCEPT !.call = c]

\* RemoveSession; an attempt waits at most once in its peer's queue.  (Faulty variants:
\* the attempt stays in byAttempt, or in the queue.)
StillRegistered(a) == byAttempt
Unregistered(a) == byAttempt \ {a}
StillPending(q, a) == q
NotPending(q, a) ==
    IF \E i \in DOMAIN q : q[i] = a
      THEN LET i == CHOOSE i \in DOMAIN q : q[i] = a
           IN  SubSeq(q, 1, i - 1) \o SubSeq(q, i + 1, Len(q))
      ELSE q

RemoveSession(a) ==
    /\ byAttempt' = Unregistered(a)
    /\ byCallID' = [c \in Calls |-> IF sess[a].call = c THEN 0 ELSE byCallID[c]]
    /\ pendingByPeer' = [pendingByPeer EXCEPT ![sess[a].peer] = NotPending(@, a)]
    /\ UNCHANGED counter

\* CancelTimeout: no effect on a timer whose function has started.
TimerCancelled(s) == [s EXCEPT !.timer = IF @ = "armed" THEN "off" ELSE @]

\* Cleanup: the timer, and the DIA state and relay session there are by now.
CleanedUp(s) ==
    [TimerCancelled(s) EXCEPT !.ctrl = CASE @ = "state" -> "none"
                                         [] @ \in {"open", "deaf"} -> "released"
                                         [] OTHER -> @]

Closed(s) == [s EXCEPT !.closed = TRUE]
Emit(a, outcome) == emitted' = [emitted EXCEPT ![a] = Append(@, outcome)]
-----------------------------------------------------------------------------
(* baresip, and the control connection. *)

\* readLoop: what finds eventChan full is dropped.  (Faulty variant: kept.)
FitsAlways(q) == q
Fits(q) == SubSeq(q, 1, IF Len(q) <= EventCap THEN Len(q) ELSE EventCap)

Signal(kind, c) == IF kind \in Emits THEN <<[kind |-> kind, call |-> c]>> ELSE <<>>
Tell(signals) == events' = Fits(events \o signals)
Send(op, n) == cmds' = Append(cmds, [op |-> op, n |-> n])

\* The dial command of attempt a: refused, accepted without a call
\* (controller.go:377), or a new call.
BaresipDials ==
    /\ cmds # <<>> /\ Head(cmds).op = "dial"
    /\ cmds' = Tail(cmds)
    /\ LET a == Head(cmds).n IN
       \/ /\ reply' \in {[reply EXCEPT ![a] = "ok"], [reply EXCEPT ![a] = "rejected"]}
          /\ UNCHANGED <<events, calls, ncalls>>
       \/ /\ ncalls < MaxCalls
          /\ reply' = [reply EXCEPT ![a] = "ok"]
          /\ ncalls' = ncalls + 1
          /\ calls' = [calls EXCEPT ![ncalls + 1] =
                          [peer |-> sess[a].peer, dir |-> "outgoing", phase |-> "new", by |-> a]]
          /\ Tell(Signal("OUTGOING", ncalls + 1))
    /\ UNCHANGED <<mgr, procs, dials, ghost>>

Alive(c) == calls[c].phase \in {"new", "ringing", "up"}
Becomes(c, phase) == calls' = [calls EXCEPT ![c].phase = phase]

BaresipAccepts ==
    /\ cmds # <<>> /\ Head(cmds).op = "accept"
    /\ cmds' = Tail(cmds)
    /\ LET c == Head(cmds).n IN
       IF calls[c].phase = "ringing"
         THEN Becomes(c, "up") /\ Tell(Signal("ANSWERED", c) \o Signal("ESTABLISHED", c))
         ELSE UNCHANGED <<calls, events>>
    /\ UNCHANGED <<mgr, procs, reply, ncalls, dials, ghost>>

BaresipHangsUp ==
    /\ cmds # <<>> /\ Head(cmds).op = "hangup"
    /\ cmds' = Tail(cmds)
    /\ LET c == Head(cmds).n IN
       IF Alive(c)
         THEN Becomes(c, "closed") /\ Tell(Signal("CLOSED", c))
         ELSE UNCHANGED <<calls, events>>
    /\ UNCHANGED <<mgr, procs, reply, ncalls, dials, ghost>>

\* The far end: it calls, rings, answers, hangs up.
PeerCalls(p) ==
    /\ ncalls < MaxCalls
    /\ Cardinality({c \in Calls : calls[c].dir = "incoming"}) < MaxIncoming
    /\ ncalls' = ncalls + 1
    /\ calls' = [calls EXCEPT ![ncalls + 1] =
                    [peer |-> p, dir |-> "incoming", phase |-> "ringing", by |-> 0]]
    /\ Tell(Signal("REMOTE_SDP", ncalls + 1) \o Signal("INCOMING", ncalls + 1)
              \o Signal("RINGING", ncalls + 1))
    /\ UNCHANGED <<mgr, procs, cmds, reply, dials, ghost>>

PeerRings(c) ==
    /\ calls[c].phase = "new"
    /\ Becomes(c, "ringing")
    /\ Tell(Signal("RINGING", c))
    /\ UNCHANGED <<mgr, procs, cmds, reply, ncalls, dials, ghost>>

PeerAnswers(c) ==
    /\ calls[c].dir = "outgoing" /\ calls[c].phase \in {"new", "ringing"}
    /\ Becomes(c, "up")
    /\ Tell(Signal("REMOTE_SDP", c) \o Signal("ANSWERED", c) \o Signal("ESTABLISHED", c))
    /\ UNCHANGED <<mgr, procs, cmds, reply, ncalls, dials, ghost>>

PeerHangsUp(c) ==
    /\ Alive(c)
    /\ Becomes(c, "closed")
    /\ Tell(Signal("CLOSED", c))
    /\ UNCHANGED <<mgr, procs, cmds, reply, ncalls, dials, ghost>>
-----------------------------------------------------------------------------
(* InitiateOutgoingCall. *)

Dialer(from, to) == dialer.pc = from /\ dialer' = [dialer EXCEPT !.pc = to]

InitiateOutgoingCall(p) ==
    /\ dialer.pc = "idle"
    /\ dials < MaxDials
    /\ dials' = dials + 1
    /\ dialer' = [pc |-> IF Active(p) # {} THEN "refuse" ELSE "create", att |-> 0, peer |-> p]
    /\ UNCHANGED <<mgr, loop, dia, rejecting, bare, ghost>>

\* The peer has an active session: the attempt is registered to report an error ...
RefuseOverlapping ==
    /\ dialer.pc = "refuse"
    /\ \E proto \in DialModes : RegisterOutgoing(dialer.peer, proto)
    /\ Emit(counter + 1, "error")
    /\ dialer' = [dialer EXCEPT !.pc = "refused", !.att = counter + 1]
    /\ UNCHANGED <<loop, dia, rejecting, bare, dials, accepted, overdue>>

\* ... and removed.
RefusedEnds ==
    /\ Dialer("refused", "idle")
    /\ sess' = [sess EXCEPT ![dialer.att] = CleanedUp(Closed(@))]
    /\ RemoveSession(dialer.att)
    /\ UNCHANGED <<loop, dia, rejecting, bare, dials, ghost>>

\* The attempt is registered, its DIA goroutine started, the command written.
CreateAndDial ==
    /\ dialer.pc = "create"
    /\ \E proto \in DialModes :
          /\ RegisterOutgoing(dialer.peer, proto)
          /\ dia' = [dia EXCEPT ![counter + 1] = IF proto THEN "starting" ELSE "off"]
    /\ Send("dial", counter + 1)
    /\ dialer' = [dialer EXCEPT !.pc = "wait", !.att = counter + 1]
    /\ UNCHANGED <<loop, rejecting, events, reply, calls, ncalls, dials, ghost>>

\* maybeEmitAnsweredResult, the conditions; AnsweredResultEmitted is set after emitting.
ShouldReport(s) == s.dir = "outgoing" /\ ~s.reported /\ s.dialled /\ s.answered

\* A reply later than the timeout is not seen.
Finish(a) == IF sess[a].dialled /\ reply[a] = "ok" THEN "dialled" ELSE "failed"

\* The response, or the command timeout.
DialReturns ==
    LET a == dialer.att IN
    /\ Dialer("wait", "check")
    /\ sess' = [sess EXCEPT ![a].dialled = reply[a] # "none"]
    /\ UNCHANGED <<index, loop, dia, rejecting, bare, dials, ghost>>

DialerChecks ==
    LET a == dialer.att IN
    /\ Dialer("check", IF ShouldReport(sess[a]) THEN "emit" ELSE Finish(a))
    /\ UNCHANGED <<mgr, loop, dia, rejecting, bare, dials, ghost>>

DialerEmitsAnswered ==
    /\ Dialer("emit", Finish(dialer.att))
    /\ Emit(dialer.att, "answered")
    /\ sess' = [sess EXCEPT ![dialer.att].reported = TRUE]
    /\ UNCHANGED <<index, loop, dia, rejecting, bare, dials, accepted, overdue>>

\* SetState(StateBaresipDialing), whatever has happened to the call since.
DialSucceeds ==
    /\ Dialer("dialled", "idle")
    /\ sess' = [sess EXCEPT ![dialer.att].closed = FALSE]
    /\ UNCHANGED <<index, loop, dia, rejecting, bare, dials, ghost>>

\* (Faulty variant: without the error record.)
DialErrorSilent(a) == UNCHANGED emitted
DialError(a) == Emit(a, "error")

DialFails ==
    /\ Dialer("failed", "idle")
    /\ DialError(dialer.att)
    /\ sess' = [sess EXCEPT ![dialer.att] = CleanedUp(@)]
    /\ RemoveSession(dialer.att)
    /\ UNCHANGED <<loop, dia, rejecting, bare, dials, accepted, overdue>>
-----------------------------------------------------------------------------
(* The event loop: handleBaresipEvent. *)

Event == Head(events)
Ready == loop.pc = "idle" /\ events # <<>>

\* Events that announce an incoming call to handleBaresipEvent.
IncomingSignal ==
    \/ Event.kind = "INCOMING"
    \/ Event.kind = "REMOTE_SDP" /\ byCallID[Event.call] = 0
    \/ /\ Event.kind = "RINGING" /\ calls[Event.call].dir = "incoming"
       /\ byCallID[Event.call] = 0

\* The handler changes no session but the one the event resolves to.
Handles(c, s) ==
    /\ Resolve(c)
    /\ sess' = IF Resolved(c) = 0 THEN sess ELSE [sess EXCEPT ![Resolved(c)] = s]

OnCallOutgoing ==
    /\ Ready /\ Event.kind = "OUTGOING"
    /\ events' = Tail(events)
    /\ Handles(Event.call, ResolvedSession(Event.call))
    /\ UNCHANGED <<procs, cmds, reply, calls, ncalls, dials, ghost>>

OnCallRinging ==
    /\ Ready /\ Event.kind = "RINGING" /\ ~IncomingSignal
    /\ events' = Tail(events)
    /\ Handles(Event.call, [ResolvedSession(Event.call) EXCEPT !.closed = FALSE])
    /\ UNCHANGED <<procs, cmds, reply, calls, ncalls, dials, ghost>>

OnRemoteSDP ==
    /\ Ready /\ Event.kind = "REMOTE_SDP" /\ ~IncomingSignal
    /\ events' = Tail(events)
    /\ UNCHANGED <<mgr, procs, cmds, reply, calls, ncalls, dials, ghost>>

\* CALL_ANSWERED; CALL_ESTABLISHED also sets the state, and schedules the
\* hangup of a baseline call.
\* (Faulty variant: CALL_ESTABLISHED schedules nothing.)
AnsweredSession(s) == [s EXCEPT !.answered = TRUE]
EstablishedOnly(s) == [s EXCEPT !.answered = TRUE, !.closed = FALSE]
EstablishedSession(s) ==
    [s EXCEPT !.answered = TRUE, !.closed = FALSE,
              !.hangup = IF ~Integrated /\ s.dir = "incoming" /\ @ = "no" THEN "due" ELSE @]

OnCallAnswered ==
    LET c == Event.call
        s == IF Event.kind = "ANSWERED" THEN AnsweredSession(ResolvedSession(c))
             ELSE EstablishedSession(ResolvedSession(c)) IN
    /\ Ready /\ Event.kind \in {"ANSWERED", "ESTABLISHED"}
    /\ events' = Tail(events)
    /\ Handles(c, s)
    /\ loop' = IF Resolved(c) # 0 /\ ShouldReport(s)
                 THEN [pc |-> "emit", call |-> c, att |-> Resolved(c)] ELSE loop
    /\ UNCHANGED <<dialer, dia, rejecting, cmds, reply, calls, ncalls, dials, ghost>>

Loop(from) == loop.pc = from /\ loop' = [pc |-> "idle", call |-> 0, att |-> 0]

LoopEmitsAnswered ==
    /\ Loop("emit")
    /\ Emit(loop.att, "answered")
    /\ sess' = [sess EXCEPT ![loop.att].reported = TRUE]
    /\ UNCHANGED <<index, dialer, dia, rejecting, bare, dials, accepted, overdue>>

\* handleCallClosed: the result, then Cleanup and RemoveSession.
OnCallClosed ==
    LET c == Event.call
        a == Resolved(c) IN
    /\ Ready /\ Event.kind = "CLOSED"
    /\ events' = Tail(events)
    /\ Handles(c, Closed(ResolvedSession(c)))
    /\ IF a = 0 THEN UNCHANGED <<loop, emitted>>
       ELSE Emit(a, "closed") /\ loop' = [pc |-> "closed", call |-> c, att |-> a]
    /\ UNCHANGED <<dialer, dia, rejecting, cmds, reply, calls, ncalls, dials, accepted, overdue>>

ClosedEnds ==
    /\ Loop("closed")
    /\ sess' = [sess EXCEPT ![loop.att] = CleanedUp(@)]
    /\ RemoveSession(loop.att)
    /\ UNCHANGED <<dialer, dia, rejecting, bare, dials, ghost>>

\* handleIncomingCall: the event of an outgoing call is ignored; a pending
\* attempt of that peer is bound; otherwise the call is a new one.
OnIncomingCall ==
    LET c == Event.call IN
    /\ Ready /\ IncomingSignal
    /\ events' = Tail(events)
    /\ IF byCallID[c] # 0 /\ sess[byCallID[c]].dir = "outgoing" THEN UNCHANGED <<mgr, loop>>
       ELSE IF Bindable(c)
         THEN /\ BindOutgoing(c)
              /\ sess' = [sess EXCEPT ![Head(Pending(c))].call = c]
              /\ UNCHANGED <<byAttempt, counter, loop>>
         ELSE /\ loop' = [pc |-> "incoming", call |-> c, att |-> 0]
              /\ UNCHANGED mgr
    /\ UNCHANGED <<dialer, dia, rejecting, cmds, reply, calls, ncalls, dials, ghost>>

\* Integrated mode: a second session for the peer is rejected as busy.
RejectBusy ==
    /\ Loop("incoming")
    /\ Integrated /\ Active(calls[loop.call].peer) # {}
    /\ Send("hangup", loop.call)
    /\ UNCHANGED <<mgr, dialer, dia, rejecting, events, reply, calls, ncalls, dials, ghost>>

AdmitIncoming ==
    /\ loop.pc = "incoming"
    /\ Integrated => Active(calls[loop.call].peer) = {}
    /\ loop' = [loop EXCEPT !.pc = "create"]
    /\ UNCHANGED <<mgr, dialer, dia, rejecting, bare, dials, ghost>>

\* NewIncomingSession; then the DIA timer and goroutine, or the baseline answer.
CreateIncoming ==
    LET c == loop.call
        a == counter + 1
        s == NewCallSession(calls[c].peer, "incoming", Integrated, c) IN
    /\ Loop("create")
    /\ counter < MaxAttempts
    /\ counter' = a
    /\ byAttempt' = byAttempt \cup {a}
    /\ byCallID' = [byCallID EXCEPT ![c] = a]
    /\ IF Integrated
         THEN /\ sess' = [sess EXCEPT ![a] = [s EXCEPT !.timer = "armed"]]
              /\ dia' = [dia EXCEPT ![a] = "starting"]
              /\ UNCHANGED <<cmds, accepted>>
         ELSE /\ sess' = [sess EXCEPT ![a] = s]
              /\ Send("accept", c)
              /\ accepted' = accepted \cup {a}
              /\ UNCHANGED dia
    /\ UNCHANGED <<pendingByPeer, dialer, rejecting, events, reply, calls, ncalls, dials, emitted,
                   overdue>>

\* The goroutine of scheduleBaselineHangup.
BaselineHangup(a) ==
    /\ sess[a].hangup = "due"
    /\ sess' = [sess EXCEPT ![a].hangup = "sent"]
    /\ Send("hangup", sess[a].call)
    /\ UNCHANGED <<index, procs, events, reply, calls, ncalls, dials, ghost>>
-----------------------------------------------------------------------------
(* DIA: the goroutine of runOutgoingDIA and runIncomingDIA, then the callback. *)

Dia(a, from, to) == dia[a] = from /\ dia' = [dia EXCEPT ![a] = to]

At(a, who, stage) == [rejecting EXCEPT ![a][who] = stage]

\* rejectCall: the hangup command ...
\* (Faulty variant: the call is left to the far end.)
RejectedNoHangup(a) == UNCHANGED cmds
Rejected(a) == Send("hangup", sess[a].call)

\* ... when it returns, SetState(StateClosed) ...
MarkRejected(a, who) ==
    /\ rejecting[a][who] = "hangup"
    /\ rejecting' = At(a, who, "closed")
    /\ sess' = [sess EXCEPT ![a] = Closed(@)]
    /\ UNCHANGED <<index, dialer, loop, dia, bare, dials, ghost>>

\* ... Cleanup and RemoveSession.
EndReject(a, who) ==
    /\ rejecting[a][who] = "closed"
    /\ rejecting' = At(a, who, "no")
    /\ sess' = [sess EXCEPT ![a] = CleanedUp(@)]
    /\ RemoveSession(a)
    /\ UNCHANGED <<dialer, loop, dia, bare, dials, ghost>>

\* The DIA state is made and the call state set ...
DiaStarts(a) ==
    /\ Dia(a, "starting", "opening")
    /\ sess' = [sess EXCEPT ![a].closed = FALSE, ![a].ctrl = "state"]
    /\ UNCHANGED <<index, dialer, loop, rejecting, bare, dials, ghost>>

\* ... and the relay session opened, whatever has happened to the call meanwhile.
DiaOpens(a) ==
    /\ Dia(a, "opening", "run")
    /\ sess' = [sess EXCEPT ![a].ctrl = IF @ = "state" THEN "open" ELSE "deaf"]
    /\ UNCHANGED <<index, dialer, loop, rejecting, bare, dials, ghost>>

\* handleDIAMessage: dropped if the session is closed or cleaned up.
DiaMessage(a) ==
    /\ ~sess[a].closed /\ sess[a].ctrl = "open"
    /\ Dia(a, "run", "busy")
    /\ UNCHANGED <<mgr, dialer, loop, rejecting, bare, dials, ghost>>

\* A step of the AKE is done, perhaps with a new state.
DiaContinues(a) ==
    /\ Dia(a, "busy", "run")
    /\ sess' \in {sess, [sess EXCEPT ![a].closed = FALSE]}
    /\ UNCHANGED <<index, dialer, loop, rejecting, bare, dials, ghost>>

\* DIA is complete: SetState(StateDIAComplete); the recipient goes on to the gate.
DiaCompletes(a) ==
    /\ Dia(a, "busy", IF sess[a].dir = "incoming" THEN "gate" ELSE "done")
    /\ sess' = [sess EXCEPT ![a].closed = FALSE]
    /\ UNCHANGED <<index, dialer, loop, rejecting, bare, dials, ghost>>

\* An error on the way: the caller gives DIA up, the recipient rejects the call.
CallerFails(a) ==
    /\ sess[a].dir = "outgoing"
    /\ dia[a] \in {"starting", "opening", "busy"}
    /\ dia' = [dia EXCEPT ![a] = "done"]
    /\ UNCHANGED <<mgr, dialer, loop, rejecting, bare, dials, ghost>>

RecipientRejects(a) ==
    /\ sess[a].dir = "incoming"
    /\ dia[a] \in {"starting", "opening", "busy", "gate"}
    /\ dia' = [dia EXCEPT ![a] = "done"]
    /\ rejecting' = At(a, "dia", "hangup")
    /\ sess' = [sess EXCEPT ![a] = TimerCancelled(@)]
    /\ Rejected(a)
    /\ UNCHANGED <<index, dialer, loop, events, reply, calls, ncalls, dials, ghost>>

\* The caller is verified: CancelTimeout and answerCall.
RecipientAnswers(a) ==
    /\ Dia(a, "gate", "done")
    /\ sess' = [sess EXCEPT ![a] = TimerCancelled(@)]
    /\ Send("accept", sess[a].call)
    /\ accepted' = accepted \cup {a}
    /\ UNCHANGED <<index, dialer, loop, rejecting, events, reply, calls, ncalls, dials, emitted,
                   overdue>>

TimerFires(a) ==
    /\ sess[a].timer = "armed"
    /\ sess' = [sess EXCEPT ![a].timer = "firing"]
    /\ UNCHANGED <<index, procs, bare, dials, ghost>>

\* handleDIATimeout.
TimerRejects(a) ==
    /\ sess[a].timer = "firing"
    /\ Rejected(a)
    /\ sess' = [sess EXCEPT ![a].timer = "off"]
    /\ rejecting' = At(a, "timer", "hangup")
    /\ overdue' = IF a \in accepted THEN overdue \cup {a} ELSE overdue
    /\ UNCHANGED <<index, dialer, loop, dia, events, reply, calls, ncalls, dials, emitted,
                   accepted>>
-----------------------------------------------------------------------------
Baresip == BaresipDials \/ BaresipAccepts \/ BaresipHangsUp

Far ==
    \/ \E p \in Peers : PeerCalls(p)
    \/ \E c \in Calls : PeerRings(c) \/ PeerAnswers(c) \/ PeerHangsUp(c)

DialerStep ==
    \/ RefuseOverlapping \/ RefusedEnds \/ CreateAndDial \/ DialReturns \/ DialerChecks
    \/ DialerEmitsAnswered \/ DialSucceeds \/ DialFails

LoopStep ==
    \/ OnCallOutgoing \/ OnCallRinging \/ OnRemoteSDP \/ OnCallAnswered \/ LoopEmitsAnswered
    \/ OnCallClosed \/ ClosedEnds \/ OnIncomingCall \/ RejectBusy \/ AdmitIncoming
    \/ CreateIncoming

DiaStep(a) ==
    \/ DiaStarts(a) \/ DiaOpens(a) \/ DiaContinues(a) \/ DiaCompletes(a) \/ CallerFails(a)
    \/ RecipientRejects(a) \/ RecipientAnswers(a) \/ MarkRejected(a, "dia")
    \/ EndReject(a, "dia")

TimerStep(a) == TimerRejects(a) \/ MarkRejected(a, "timer") \/ EndReject(a, "timer")

Next ==
    \/ \E p \in Peers : InitiateOutgoingCall(p)
    \/ DialerStep \/ LoopStep \/ Baresip \/ Far
    \/ \E a \in Attempts :
          DiaStep(a) \/ DiaMessage(a) \/ TimerFires(a) \/ TimerStep(a) \/ BaselineHangup(a)

Spec == Init /\ [][Next]_vars

\* The goroutines run on, a command returns within its timeout, baresip handles
\* the commands it is given.  The far end and the DIA peer need not do anything.
Fairness ==
    /\ WF_vars(DialerStep)
    /\ WF_vars(LoopStep)
    /\ WF_vars(Baresip)
    /\ \A a \in Attempts :
          WF_vars(DiaStep(a)) /\ WF_vars(TimerStep(a)) /\ WF_vars(BaselineHangup(a))

FairSpec == Spec /\ Fairness
-----------------------------------------------------------------------------
(* Properties. *)

MgrType ==
    /\ sess \in [Attempts -> Session]
    /\ counter \in 0 .. MaxAttempts
    /\ byAttempt \subseteq 1 .. counter
    /\ byCallID \in [Calls -> 0 .. MaxAttempts]
    /\ pendingByPeer \in [Peers -> Seq(Attempts)]

ProcType ==
    /\ dialer \in [pc : {"idle", "refuse", "refused", "create", "wait", "check", "emit", "dialled",
                         "failed"},
                   att : 0 .. MaxAttempts, peer : Peers]
    /\ loop \in [pc : {"idle", "emit", "closed", "incoming", "create"}, call : 0 .. MaxCalls,
                 att : 0 .. MaxAttempts]
    /\ dia \in [Attempts -> {"off", "starting", "opening", "run", "busy", "gate", "done"}]
    /\ rejecting \in [Attempts -> [Rejecters -> {"no", "hangup", "closed"}]]

BareType ==
    /\ events \in Seq([kind : EventTypes, call : Calls]) /\ Len(events) <= EventCap
    /\ cmds \in Seq([op : {"dial", "accept", "hangup"}, n : Nat])
    /\ reply \in [Attempts -> {"none", "ok", "rejected"}]
    /\ calls \in [Calls -> Call]
    /\ ncalls \in 0 .. MaxCalls

GhostType ==
    /\ dials \in 0 .. MaxDials
    /\ emitted \in [Attempts -> Seq({"answered", "closed", "error"})]
    /\ accepted \subseteq Attempts /\ overdue \subseteq Attempts

TypeOK == MgrType /\ ProcType /\ BareType /\ GhostType

\* The call the session is bound to has ended.
Over(a) == sess[a].call # 0 /\ calls[sess[a].call].phase = "closed"

Reported(a, outcome) == \E i \in DOMAIN emitted[a] : emitted[a][i] = outcome
PendingAttempts == {a \in Attempts : \E p \in Peers : \E i \in DOMAIN pendingByPeer[p] :
                                         pendingByPeer[p][i] = a}

\* NewOutgoingAttempt, BindOutgoingCallID and RemoveSession, called by goroutines
\* that do not know of each other: the call-id index and the pending queues only
\* lead to registered sessions, a session is in its own call's entry only, and a
\* pending attempt has no call yet and waits once.
ManagerConsistent ==
    /\ \A c \in Calls : byCallID[c] # 0 => byCallID[c] \in byAttempt /\ sess[byCallID[c]].call = c
    /\ \A a \in PendingAttempts : a \in byAttempt /\ sess[a].dir = "outgoing" /\ sess[a].call = 0
    /\ \A p \in Peers : \A i, j \in DOMAIN pendingByPeer[p] :
          pendingByPeer[p][i] = pendingByPeer[p][j] => i = j

\* InitiateOutgoingCall and handleCallClosed: no outgoing attempt disappears
\* without a terminal record, and none is reported closed twice.
Accounted ==
    \A a \in Attempts :
        /\ \A i, j \in DOMAIN emitted[a] :
              emitted[a][i] = "closed" /\ emitted[a][j] = "closed" => i = j
        /\ (a <= counter /\ sess[a].dir = "outgoing" /\ a \notin byAttempt) =>
               Reported(a, "closed") \/ Reported(a, "error")

\* A setup announces an incoming call by CALL_INCOMING, or else by CALL_REMOTE_SDP
\* (controller.go:269).
OneAnnouncement == ~({"INCOMING", "REMOTE_SDP"} \subseteq Emits)

\* handleIncomingCall, rejectCall: a call that was answered here, is up, and has no
\* session any more is being hung up, if it was announced once.  (An INCOMING after a
\* REMOTE_SDP gives the call's entry to a second session, or to an attempt, whose end
\* clears it.)
NoForgottenCall ==
    OneAnnouncement => \A c \in Calls : calls[c].dir = "incoming" /\ calls[c].phase = "up" =>
        \/ byCallID[c] # 0
        \/ \E i \in DOMAIN cmds : cmds[i] = [op |-> "hangup", n |-> c]

\* handleCallClosed, rejectCall: while no event is dropped, the session of a call
\* that is over goes away, and with it the peer's "active session".
SessionsEnd ==
    \A a \in Attempts : a \in byAttempt /\ Over(a) ~> a \notin byAttempt

\* controller.go:1564, baseline mode: a call that was answered here ends, though
\* the far end never hangs up.
BaselineCallsEnd ==
    \A c \in Calls : calls[c].dir = "incoming" /\ calls[c].phase = "up" ~> calls[c].phase = "closed"
-----------------------------------------------------------------------------
(* What comments and the README say; the code does not keep it. *)

\* callmanager.go:182 "callID -> session": every session that has a call-id is found
\* under it.
Reachable ==
    \A a \in byAttempt : sess[a].call # 0 => byCallID[sess[a].call] = a

\* callmanager.go:193 "avoid running multiple concurrent protocol sessions on the
\* same deterministic DIA topic".
OneSessionPerPeer ==
    \A a, b \in byAttempt :
        sess[a].peer = sess[b].peer /\ sess[a].proto /\ sess[b].proto
            /\ ~sess[a].closed /\ ~sess[b].closed => a = b

\* controller.go:1633 "Always emit a close event for experiments so callers can wait
\* for the call to actually tear down": the attempt's own call.
ClosedMeansTornDown ==
    \A a \in Attempts : Reported(a, "closed") =>
        \A c \in Calls : calls[c].by = a => calls[c].phase = "closed"

\* controller.go:668 "Running multiple concurrent sessions against the same peer can
\* cause duplicate protocol responses": what is rejected as busy is another call.
NotBusyWithItself ==
    [][RejectBusy => \E a \in Active(calls[loop.call].peer) : sess[a].call # loop.call]_vars

\* controller.go:842 "Drop late/stray DIA messages after the SIP call has ended. This
\* prevents closed sessions from responding on the shared topic."
ClosedStaysSilent ==
    [][\A a \in Attempts : DiaMessage(a) => ~Reported(a, "closed")]_vars

\* callmanager.go:150 "Cleanup releases resources associated with the session".
CleanupReleases ==
    \A a \in Attempts : a <= counter /\ a \notin byAttempt => sess[a].ctrl \notin {"open", "deaf"}

\* controller.go:1094 "Cancel timeout and answer the call".
AnswerCancelsTimeout == overdue = {}

\* controller.go:1633 "Always emit a close event", here when a dial error has not
\* already ended the attempt.
CloseAlwaysReported ==
    \A a \in Attempts :
        a \in byAttempt /\ Over(a) ~> Reported(a, "closed") \/ Reported(a, "error")
=============================================================================
