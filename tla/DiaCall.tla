------------------------------- MODULE DiaCall -------------------------------
(***************************************************************************)
(* One SIP call after another between two integrated controllers, from the  *)
(* INVITE to the verdict of the gate: runOutgoingDIA, runIncomingDIA and    *)
(* the DIA message handlers of internal/sipcontroller/controller.go on both *)
(* sides, the peer session cache, and the relay sessions between them.      *)
(*                                                                          *)
(* The AKE runs on a topic both parties know, the RUA on one they derive; a *)
(* party with a cached peer session starts on the RUA topic of that session.*)
(* libdia is outside src/: a message is accepted in the protocol state that *)
(* expects it, anything else is an error of the handler.                    *)
(***************************************************************************)
EXTENDS Integers, Sequences, FiniteSets

CONSTANTS
    OldKeys,       \* cached keys there may be at the start: 1 .. OldKeys
    Unverified,    \* parties whose credentials may not verify
    MaxCalls,      \* bound: calls
    MaxFaults      \* bound: broken streams, lost events, failing steps, abandoned calls

Parties == {"caller", "callee"}

ASSUME BoundAssumption == OldKeys \in Nat /\ MaxCalls \in Nat \ {0} /\ MaxFaults \in Nat
ASSUME PartyAssumption == Unverified \subseteq Parties

VARIABLES
    call,          \* number of the current call
    sip,           \* the call, as the two baresip see it
    events,        \* per party: events its loop has not handled
    sess,          \* per party: its CallSession
    cache,         \* per party: the key of the cached peer session, 0 = none
    link,          \* per party: its relay stream
    out,           \* per party: sendQ of its relay session
    inb,           \* per party: EVENTs on their way to it
    at,            \* per party: the topic the relay delivers to it
    log,           \* relay: payloads kept per topic
    made,          \* relay: topics that exist
    faults,
    strangers,     \* the parties whose credentials do not
    \* history variables
    disturbed,     \* why this call may fail
    verdicts       \* what the callee's controller told baresip, in order

phone == <<sip, events>>
feed  == <<inb, at, log, made>>
net   == <<link, out, feed>>
ghost == <<faults, disturbed, strangers>>
vars  == <<call, phone, sess, cache, net, ghost, verdicts>>

Other(p) == CHOOSE q \in Parties : q # p

\* A key is what an AKE or a RUA leaves both parties with; RUA of call n leaves
\* OldKeys + n.
Keys   == 1 .. OldKeys + MaxCalls
NewKey == OldKeys + call
None   == <<"none", 0>>
AKETopic == <<"ake", 0>>
FreshRUA(n)  == <<"rua", n>>
CachedRUA(k) == <<"kept", k>>
Topics == {AKETopic} \cup {FreshRUA(n) : n \in 1 .. MaxCalls} \cup {CachedRUA(k) : k \in Keys}

Kinds    == {"AKERequest", "AKEResponse", "AKEComplete", "RUARequest", "RUAResponse", "Bye"}
Messages == [kind : Kinds, from : Parties, call : 1 .. MaxCalls]
Msg(kind, p) == [kind |-> kind, from |-> p, call |-> call]

Requests == [op : {"publish", "subscribe"}, topic : Topics, payload : Seq(Messages)]
Publish(t, m)   == [op |-> "publish", topic |-> t, payload |-> <<m>>]
Subscribe(t, s) == [op |-> "subscribe", topic |-> t, payload |-> s]

NoSession == [pc |-> "off", reg |-> "no", state |-> "other", mode |-> "ake", topic |-> None,
              asked |-> 0, complete |-> FALSE, timer |-> FALSE]
SessionType ==
    [pc : {"off", "starting", "idle", "gate", "reject"},   \* DIA goroutine, then callback
     reg : {"no", "yes", "ending"},     \* in the manager; handleCallClosed before Cleanup
     state : {"other", "complete", "closed"},
     mode : {"ake", "rua", "over"},     \* libdia's protocol state
     topic : Topics \cup {None},        \* session.topic of the relay session
     asked : 0 .. MaxCalls,             \* the call whose request the callee answered last
     complete : BOOLEAN,                \* DIAComplete
     timer : BOOLEAN]

Init ==
    /\ call = 0
    /\ sip = "none"
    /\ events = [p \in Parties |-> <<>>]
    /\ sess = [p \in Parties |-> NoSession]
    /\ cache \in [Parties -> 0 .. OldKeys]
    /\ link = [p \in Parties |-> "off"]
    /\ out = [p \in Parties |-> <<>>]
    /\ inb = [p \in Parties |-> <<>>]
    /\ at = [p \in Parties |-> None]
    /\ log = [t \in Topics |-> <<>>]
    /\ made = {}
    /\ faults = 0
    /\ disturbed = {}
    /\ strangers \in SUBSET Unverified
    /\ verdicts = <<>>

Set(p, s) == sess' = [sess EXCEPT ![p] = s]
Fault == /\ faults < MaxFaults /\ faults' = faults + 1
         /\ disturbed' = disturbed \cup {"fault"} /\ UNCHANGED strangers
-----------------------------------------------------------------------------
(* The relay, and the client sessions (ClientSession has their detail). *)

\* What a subscriber is shown of a topic: all that is kept, in order, its own excepted.
Shown(p, t) == {i \in DOMAIN log[t] : ~(log[t][i].from = p /\ log[t][i].call = call)}
Nth(I, n) == CHOOSE i \in I : Cardinality({j \in I : j <= i}) = n
Replay(p, t) == [n \in 1 .. Cardinality(Shown(p, t)) |-> log[t][Nth(Shown(p, t), n)]]

Exists(t) == t \in made \/ log[t] # <<>> \/ \E p \in Parties : at[p] = t

\* handlePublish: to the other party if it listens; kept, or, if terminal, the end of
\* all that was kept.  A topic that does not exist is an ERROR, which is only logged.
Published(p, t, payload, shown) ==
    LET q == Other(p) IN
    /\ inb' = [shown EXCEPT ![q] = IF at[q] = t THEN @ \o payload ELSE @]
    /\ IF payload # <<>> /\ payload[1].kind \in {"AKEComplete", "Bye"}
         THEN log' = [log EXCEPT ![t] = <<>>] /\ made' = made \ {t}
         ELSE log' = [log EXCEPT ![t] = @ \o payload] /\ made' = made \cup {t}

\* The relay handles the next request of p's stream.
RelayTakes(p) ==
    LET r == Head(out[p]) IN
    /\ link[p] = "up" /\ out[p] # <<>>
    /\ out' = [out EXCEPT ![p] = Tail(@)]
    /\ IF r.op = "subscribe"
         THEN /\ at' = [at EXCEPT ![p] = r.topic]
              /\ Published(p, r.topic, r.payload, [inb EXCEPT ![p] = @ \o Replay(p, r.topic)])
         ELSE /\ UNCHANGED at
              /\ IF Exists(r.topic)
                   THEN Published(p, r.topic, r.payload, inb)
                   ELSE UNCHANGED <<inb, log, made>>
    /\ UNCHANGED <<call, phone, sess, cache, link, ghost, verdicts>>

\* tunnelLoop: the stream opens, or opens again, on the session's topic.
Connect(p) ==
    /\ link[p] = "down"
    /\ link' = [link EXCEPT ![p] = "up"]
    /\ at' = [at EXCEPT ![p] = sess[p].topic]
    /\ inb' = [inb EXCEPT ![p] = Replay(p, sess[p].topic)]
    /\ made' = made \cup {sess[p].topic}
    /\ UNCHANGED <<call, phone, sess, cache, out, log, ghost, verdicts>>

\* The stream breaks; a request that was sent may be lost with it.
Break(p) ==
    /\ link[p] = "up" /\ Fault
    /\ link' = [link EXCEPT ![p] = "down"]
    /\ at' = [at EXCEPT ![p] = None]
    /\ inb' = [inb EXCEPT ![p] = <<>>]
    /\ \/ UNCHANGED out
       \/ out[p] # <<>> /\ out' = [out EXCEPT ![p] = Tail(@)]
    /\ UNCHANGED <<call, phone, sess, cache, log, made, verdicts>>

\* The relay drops an EVENT: queue full, or skipped for a replaying subscriber.
Lose(p) ==
    /\ inb[p] # <<>> /\ Fault
    /\ inb' = [inb EXCEPT ![p] = Tail(@)]
    /\ UNCHANGED <<call, phone, sess, cache, link, out, at, log, made, verdicts>>
-----------------------------------------------------------------------------
(* The call, and the baresip on both sides. *)

Quiet(p) == sess[p].reg = "no" /\ sess[p].pc \in {"off", "idle"} /\ link[p] = "off"

\* What a new call starts with: one party may have forgotten the session the other
\* has cached, and the relay may still keep requests of an earlier call.
Inherited == (IF cache["caller"] = cache["callee"] THEN {} ELSE {"caches"})
             \cup (IF \A t \in Topics : log[t] = <<>> THEN {} ELSE {"kept"})

\* InitiateOutgoingCall: the session, its DIA goroutine, the INVITE.  (A next call starts
\* when both parties are done with the last one: none follows a call whose relay session
\* was opened after Cleanup and is never closed.)
Dial ==
    /\ call < MaxCalls
    /\ sip \in {"none", "over"} /\ \A p \in Parties : Quiet(p) /\ events[p] = <<>>
    /\ call' = call + 1
    /\ sip' = "invited"
    /\ sess' = [p \in Parties |-> IF p = "caller"
                                    THEN [NoSession EXCEPT !.pc = "starting", !.reg = "yes"]
                                    ELSE NoSession]
    /\ disturbed' = Inherited
    /\ verdicts' = <<>>
    /\ UNCHANGED <<events, cache, net, faults, strangers>>

\* handleIncomingCall: the session, its timer, its DIA goroutine.
\* (Faulty variant: no timer.)
NoTimer == FALSE
DIATimeout == TRUE
HandleIncomingCall ==
    /\ sip = "invited"
    /\ sip' = "ringing"
    /\ Set("callee", [NoSession EXCEPT !.pc = "starting", !.reg = "yes", !.timer = DIATimeout])
    /\ UNCHANGED <<call, events, cache, net, ghost, verdicts>>

\* A command, or a user, ends the call: CALL_CLOSED on both sides.
Over == /\ sip' = "over"
        /\ events' = IF sip = "over" THEN events
                     ELSE [p \in Parties |-> Append(events[p], "closed")]

UserHangsUp ==
    /\ sip \in {"invited", "ringing", "up"}
    /\ Over
    /\ IF sip = "up" THEN UNCHANGED ghost ELSE Fault
    /\ UNCHANGED <<call, sess, cache, net, verdicts>>

\* handleCallEstablished: SetState(StateBaresipEstablished), whatever the state was.
HandleEstablished(p) ==
    /\ events[p] # <<>> /\ Head(events[p]) = "established"
    /\ events' = [events EXCEPT ![p] = Tail(@)]
    /\ IF sess[p].reg = "yes" THEN Set(p, [sess[p] EXCEPT !.state = "other"]) ELSE UNCHANGED sess
    /\ UNCHANGED <<call, sip, cache, net, ghost, verdicts>>

\* handleCallClosed: BYE if DIA is active, StateClosed ...
HandleClosed(p) ==
    /\ events[p] # <<>> /\ Head(events[p]) = "closed"
    /\ events' = [events EXCEPT ![p] = Tail(@)]
    /\ IF sess[p].reg = "yes"
         THEN /\ Set(p, [sess[p] EXCEPT !.state = "closed", !.reg = "ending"])
              /\ out' = IF link[p] = "off" THEN out
                        ELSE [out EXCEPT ![p] = Append(@, Publish(sess[p].topic, Msg("Bye", p)))]
         ELSE UNCHANGED <<sess, out>>
    /\ UNCHANGED <<call, sip, cache, link, feed, ghost, verdicts>>

\* Cleanup: the timer is stopped, the relay session closed with what it still had
\* to send, the peer's copy in the relay forgotten.
CleanedUp(p) ==
    /\ link' = [link EXCEPT ![p] = "off"]
    /\ out' = [out EXCEPT ![p] = <<>>]
    /\ inb' = [inb EXCEPT ![p] = <<>>]
    /\ at' = [at EXCEPT ![p] = None]
    /\ UNCHANGED <<log, made>>

\* ... then Cleanup and RemoveSession.
EndClosed(p) ==
    /\ sess[p].reg = "ending"
    /\ Set(p, [sess[p] EXCEPT !.reg = "no", !.timer = FALSE])
    /\ CleanedUp(p)
    /\ UNCHANGED <<call, phone, cache, ghost, verdicts>>
-----------------------------------------------------------------------------
(* The gate: answerCall and rejectCall. *)

\* Accept, at the callee's baresip.
Accept ==
    IF sip = "ringing"
      THEN /\ sip' = "up"
           /\ events' = [p \in Parties |-> Append(events[p], "established")]
      ELSE UNCHANGED phone

\* A command that fails is only logged.
AnswerCall == /\ verdicts' = Append(verdicts, "accept")
              /\ \/ Accept /\ UNCHANGED ghost
                 \/ Fault /\ UNCHANGED phone

\* rejectCall, up to the hangup command ...
RejectCall == verdicts' = Append(verdicts, "reject") /\ Over

\* ... SetState(StateClosed), Cleanup, RemoveSession.
EndReject ==
    /\ sess["callee"].pc = "reject"
    /\ Set("callee", [sess["callee"] EXCEPT !.pc = "idle", !.state = "closed", !.reg = "no",
                                            !.timer = FALSE])
    /\ CleanedUp("callee")
    /\ UNCHANGED <<call, phone, cache, ghost, verdicts>>

\* Every error of the recipient's handlers ends here.  (Faulty variant: like the
\* caller's, it only returns.)
RejectNothing(s) == Set("callee", [s EXCEPT !.pc = "idle"]) /\ UNCHANGED <<phone, verdicts>>
RejectOnError(s) ==
    Set("callee", [s EXCEPT !.pc = "reject", !.timer = FALSE]) /\ RejectCall

\* The gate decision.  (Faulty variant: the verification is not looked at.)
Anyone == TRUE
Verified(p) == Other(p) \notin strangers
GateOpen == Verified("callee")

Gate ==
    LET s == sess["callee"] IN
    /\ s.pc = "gate"
    /\ IF GateOpen
         THEN Set("callee", [s EXCEPT !.pc = "idle", !.timer = FALSE]) /\ AnswerCall
         ELSE RejectOnError(s) /\ UNCHANGED ghost
    /\ UNCHANGED <<call, cache, net>>

\* handleDIATimeout.
TimerRejects ==
    /\ sess["callee"].timer
    /\ Set("callee", [sess["callee"] EXCEPT !.timer = FALSE, !.state = "closed", !.reg = "no"])
    /\ RejectCall
    /\ CleanedUp("callee")
    /\ disturbed' = disturbed \cup {"timeout"}
    /\ UNCHANGED <<call, cache, faults, strangers>>
-----------------------------------------------------------------------------
(* DIA. *)

\* The entry of the other party: an absent one and an empty one are the same.
Cached(p) == cache[p] # 0
Remember(p, key) == cache' = [cache EXCEPT ![p] = key]

\* cacheGetPeerSession and ApplyPeerSession: any error is a miss.  (Faulty variant: a
\* miss is taken for a hit.)
AnythingHits(p, hit) == IF hit \/ ~Cached(p) THEN UNCHANGED ghost ELSE Fault
Lookup(p, hit) == IF hit THEN Cached(p) /\ UNCHANGED ghost
                  ELSE IF Cached(p) THEN Fault ELSE UNCHANGED ghost

\* cacheStorePeerSession, of a verified peer only; an error is only logged.
Store(p) == IF Verified(p) THEN Remember(p, NewKey) ELSE UNCHANGED cache

\* The entry's TTL, or ClearAll: one party has forgotten the other.
Forget(p) ==
    /\ Cached(p) /\ Fault
    /\ Remember(p, 0)
    /\ UNCHANGED <<call, phone, sess, net, verdicts>>

\* The relay session is made and started on topic t, with what it is to send first.
Opened(p, t, mode, requests) ==
    /\ Set(p, [sess[p] EXCEPT !.pc = "idle", !.state = "other", !.topic = t, !.mode = mode])
    /\ link' = [link EXCEPT ![p] = "down"]
    /\ out' = [out EXCEPT ![p] = requests]

\* runOutgoingDIA: the RUA at once on the topic of the cached session, or the AKE.
CallerStarts ==
    /\ sess["caller"].pc = "starting"
    /\ \/ LET t == CachedRUA(cache["caller"]) IN
          /\ Lookup("caller", TRUE)
          /\ Opened("caller", t, "rua", <<Publish(t, Msg("RUARequest", "caller"))>>)
       \/ /\ Lookup("caller", FALSE)
          /\ Opened("caller", AKETopic, "ake",
                    <<Publish(AKETopic, Msg("AKERequest", "caller"))>>)
    /\ UNCHANGED <<call, phone, cache, feed, verdicts>>

\* runIncomingDIA: it waits for the RUA request there, or for the AKE request.
\* (Faulty variant: a cache hit leaves the relay session on the AKE topic.)
OnAKETopic(k) == AKETopic
OnCachedTopic(k) == CachedRUA(k)
CalleeStarts ==
    /\ sess["callee"].pc = "starting"
    /\ \/ Lookup("callee", TRUE) /\ Opened("callee", OnCachedTopic(cache["callee"]), "rua", <<>>)
       \/ Lookup("callee", FALSE) /\ Opened("callee", AKETopic, "ake", <<>>)
    /\ UNCHANGED <<call, phone, cache, feed, verdicts>>

\* A step of these fails: the caller gives DIA up, perhaps with its relay session
\* started already, the callee rejects the call.
StartFails(p) ==
    /\ sess[p].pc = "starting" /\ Fault
    /\ IF p = "caller"
         THEN /\ \/ Set(p, [sess[p] EXCEPT !.pc = "idle"]) /\ UNCHANGED <<link, out>>
                 \/ Opened(p, AKETopic, "ake", <<>>)
              /\ UNCHANGED <<phone, verdicts>>
         ELSE RejectOnError(sess[p]) /\ UNCHANGED <<link, out>>
    /\ UNCHANGED <<call, cache, feed>>

\* handleDIAMessage: the callback has an EVENT, for a session that is not closed.
Handles(p) ==
    IF p = "caller" THEN {"AKEResponse", "RUAResponse"}
    ELSE {"AKERequest", "AKEComplete", "RUARequest"}
HasEvent(p) == sess[p].pc = "idle" /\ inb[p] # <<>>
ForHandler(p) == sess[p].state # "closed" /\ Head(inb[p]).kind \in Handles(p)
Consumed(p) == inb' = [inb EXCEPT ![p] = Tail(@)]
Message(p, kind) == HasEvent(p) /\ ForHandler(p) /\ Head(inb[p]).kind = kind

\* BYE, a message of the other role, or a closed session.
DropEvent(p) ==
    /\ HasEvent(p) /\ ~ForHandler(p)
    /\ Consumed(p)
    /\ UNCHANGED <<call, phone, sess, cache, link, out, at, log, made, ghost, verdicts>>

\* What libdia takes in the protocol state it is in.
Expected(p, m) ==
    LET s == sess[p] IN
    CASE m.kind = "AKERequest"  -> s.mode = "ake"
      [] m.kind = "AKEResponse" -> s.mode = "ake" /\ m.call = call
      [] m.kind = "AKEComplete" -> s.mode = "ake" /\ s.asked = m.call
      [] m.kind = "RUARequest"  -> s.mode = "rua"
      [] m.kind = "RUAResponse" -> s.mode = "rua" /\ m.call = call

Then(p, requests) == out' = [out EXCEPT ![p] = @ \o requests]
Rest == UNCHANGED <<call, link, at, log, made, ghost>>

\* MsgAKERequest: the response.
AKEResponds ==
    LET m == Head(inb["callee"]) IN
    /\ Message("callee", "AKERequest") /\ Expected("callee", m)
    /\ Consumed("callee")
    /\ Set("callee", [sess["callee"] EXCEPT !.asked = m.call])
    /\ Then("callee", <<Publish(sess["callee"].topic, [m EXCEPT !.kind = "AKEResponse",
                                                                !.from = "callee"])>>)
    /\ Rest /\ UNCHANGED <<phone, cache, verdicts>>

\* MsgAKEResponse: AKE complete on the old topic, then to the RUA topic with the request.
\* (Faulty variant: AKE complete goes to the topic the session is on by then.)
CompleteOnNewTopic(old, new) == new
CompleteOnOldTopic(old, new) == old
AKECompletes ==
    LET s   == sess["caller"]
        new == FreshRUA(call) IN
    /\ Message("caller", "AKEResponse") /\ Expected("caller", Head(inb["caller"]))
    /\ Consumed("caller")
    /\ Set("caller", [s EXCEPT !.mode = "rua", !.state = "other", !.topic = new])
    /\ Then("caller", <<Publish(CompleteOnOldTopic(s.topic, new), Msg("AKEComplete", "caller")),
                        Subscribe(new, <<Msg("RUARequest", "caller")>>)>>)
    /\ Rest /\ UNCHANGED <<phone, cache, verdicts>>

\* MsgAKEComplete: to the RUA topic, and wait there for the request.
AKEFinalizes ==
    LET m == Head(inb["callee"]) IN
    /\ Message("callee", "AKEComplete") /\ Expected("callee", m)
    /\ Consumed("callee")
    /\ Set("callee", [sess["callee"] EXCEPT !.mode = "rua", !.state = "other",
                                            !.topic = FreshRUA(m.call)])
    /\ Then("callee", <<Subscribe(FreshRUA(m.call), <<>>)>>)
    /\ Rest /\ UNCHANGED <<phone, cache, verdicts>>

\* MsgRUARequest: response, StateDIAComplete, cache; the gate is next.
RUAResponds ==
    LET m == Head(inb["callee"])
        s == sess["callee"] IN
    /\ Message("callee", "RUARequest") /\ s.state # "complete" /\ Expected("callee", m)
    /\ Consumed("callee")
    /\ Set("callee", [s EXCEPT !.mode = "over", !.complete = TRUE, !.state = "complete",
                               !.asked = m.call, !.pc = "gate"])
    /\ Then("callee", <<Publish(s.topic, [m EXCEPT !.kind = "RUAResponse", !.from = "callee"])>>)
    /\ Store("callee")
    /\ Rest /\ UNCHANGED <<phone, verdicts>>

\* The duplicate of a request is ignored in StateDIAComplete.
DuplicateIgnored ==
    /\ Message("callee", "RUARequest") /\ sess["callee"].state = "complete"
    /\ Consumed("callee")
    /\ Rest /\ UNCHANGED <<phone, sess, cache, out, verdicts>>

\* MsgRUAResponse: StateDIAComplete, cache.
RUAFinalizes ==
    LET s == sess["caller"] IN
    /\ Message("caller", "RUAResponse") /\ Expected("caller", Head(inb["caller"]))
    /\ Consumed("caller")
    /\ Set("caller", [s EXCEPT !.mode = "over", !.complete = TRUE, !.state = "complete"])
    /\ Store("caller")
    /\ Rest /\ UNCHANGED <<phone, out, verdicts>>

\* A handler fails: what libdia does not expect, or another error; the caller's may by
\* then have sent AKE complete.
HandlerFails(p) ==
    LET m == Head(inb[p]) IN
    /\ HasEvent(p) /\ ForHandler(p)
    /\ ~(m.kind = "RUARequest" /\ sess[p].state = "complete")
    /\ IF Expected(p, m) THEN Fault ELSE UNCHANGED ghost
    /\ Consumed(p)
    /\ IF p = "callee"
         THEN RejectOnError(sess[p]) /\ UNCHANGED out
         ELSE /\ UNCHANGED <<phone, sess, verdicts>>
              /\ \/ UNCHANGED out
                 \/ /\ m.kind = "AKEResponse" /\ Expected(p, m)
                    /\ Then(p, <<Publish(sess[p].topic, Msg("AKEComplete", p))>>)
    /\ UNCHANGED <<call, cache, link, at, log, made>>
-----------------------------------------------------------------------------
Caller == CallerStarts \/ AKECompletes \/ RUAFinalizes
Callee == CalleeStarts \/ AKEResponds \/ AKEFinalizes \/ RUAResponds \/ DuplicateIgnored
              \/ Gate \/ EndReject
Callback(p) == DropEvent(p) \/ HandlerFails(p)
EventLoop(p) == HandleEstablished(p) \/ HandleClosed(p) \/ EndClosed(p)

Next ==
    \/ Dial \/ HandleIncomingCall \/ UserHangsUp \/ TimerRejects \/ Caller \/ Callee
    \/ \E p \in Parties :
          RelayTakes(p) \/ Connect(p) \/ Break(p) \/ Lose(p) \/ Callback(p) \/ EventLoop(p)
          \/ StartFails(p) \/ Forget(p)

Spec == Init /\ [][Next]_vars

\* The INVITE arrives, goroutines run on, the relay reads its streams, a client
\* reconnects, and the DIA timer, if nothing stops it, fires.
Fairness ==
    /\ WF_vars(HandleIncomingCall) /\ WF_vars(TimerRejects)
    /\ WF_vars(Caller) /\ WF_vars(Callee)
    /\ \A p \in Parties :
          /\ WF_vars(RelayTakes(p)) /\ WF_vars(Connect(p))
          /\ WF_vars(Callback(p)) /\ WF_vars(EventLoop(p))

FairSpec == Spec /\ Fairness
-----------------------------------------------------------------------------
(* Properties. *)

RelayType ==
    /\ link \in [Parties -> {"off", "down", "up"}]
    /\ out \in [Parties -> Seq(Requests)]
    /\ inb \in [Parties -> Seq(Messages)]
    /\ at \in [Parties -> Topics \cup {None}]
    /\ log \in [Topics -> Seq(Messages)]
    /\ made \subseteq Topics

TypeOK ==
    /\ call \in 0 .. MaxCalls
    /\ sip \in {"none", "invited", "ringing", "up", "over"}
    /\ events \in [Parties -> Seq({"established", "closed"})]
    /\ sess \in [Parties -> SessionType]
    /\ cache \in [Parties -> 0 .. OldKeys + MaxCalls]
    /\ RelayType
    /\ faults \in 0 .. MaxFaults /\ strangers \subseteq Unverified
    /\ disturbed \subseteq {"caches", "kept", "fault", "timeout"}
    /\ verdicts \in Seq({"accept", "reject"})

\* controller.go:1094 to 1103, the gate: a call is only ever up because DIA completed
\* with a caller whose credentials verify; unless the relay kept requests of an earlier
\* call, the request was this call's and the parties share a RUA topic.
GateHolds ==
    LET s == sess["callee"] IN
    sip = "up" => /\ s.complete /\ Verified("callee")
                  /\ "kept" \notin disturbed => /\ s.asked = call
                                                /\ s.topic = sess["caller"].topic

\* The verdict has been given or the call has ended.
Decided == verdicts # <<>> \/ sip = "over"

\* runIncomingDIA and the handlers, whatever fails or gets lost, and also when the
\* parties wait on different topics: an incoming call does not ring on undecided.
RingingIsDecided == sip = "ringing" ~> Decided

\* What is still on the way or being worked on.
Working ==
    \E p \in Parties :
        \/ sess[p].pc \in {"starting", "gate", "reject"}
        \/ link[p] = "down" \/ out[p] # <<>> \/ inb[p] # <<>> \/ events[p] # <<>>

\* The order of requests on the two topics (AKE complete before the topic is left,
\* the RUA request with the subscription, the replay on subscribing): an exchange
\* that meets no fault, between parties that cached the same session or none, does
\* not come to a halt before the call is up, both parties have completed DIA, and
\* both have cached the session it made.
NeverStuck ==
    (sip \in {"ringing", "up"} /\ disturbed = {} /\ ~Working) =>
        /\ sip = "up" /\ \A p \in Parties : sess[p].complete
        /\ strangers = {} => \A p \in Parties : cache[p] = NewKey
-----------------------------------------------------------------------------
(* What comments say; the code does not keep it. *)

\* controller.go:1055 "Treat duplicates as no-ops once we have completed DIA": no call
\* is rejected over a RUA request after that.
DuplicatesAreNoOps ==
    [][HandlerFails("callee") /\ sess["callee"].complete
           => Head(inb["callee"]).kind # "RUARequest"]_vars

\* controller.go:531 "Cache lookup and apply (best-effort)": a cached session that the
\* peer does not have, or no longer has, is no reason to reject a call.
CacheIsBestEffort ==
    [][TimerRejects => disturbed \cap {"kept", "fault"} # {} \/ Working]_vars
=============================================================================
