------------------------------ MODULE OdaProofs ------------------------------
(* Theorems about Oda, for either direction of the call and any number of      *)
(* requests of the peer and of the command line.                               *)
EXTENDS Oda, SequenceTheorems, FiniteSetTheorems, TLAPS

USE DEF gor, call, dia, vars

\* Who holds what: an answer leaves the call-id, only an answered session asks, the one
\* goroutine that asks for an outgoing call does so before there is a timer, and only a
\* recorded outcome is emitted or hangs up.
Progress ==
    /\ sess.answered => sess.known
    /\ sess.requested => sess.answered
    /\ sess.outcome # "none" => sess.requested
    /\ ~sess.deferred
    /\ asker # "off" \/ loop = "start" => sess.answered
    /\ asker \in {"delay", "arm"} => dir = "outgoing" /\ timer = "off"
    /\ asker = "delay" => ~sess.requested
    /\ asker \in {"arm", "trigger"} => sess.requested
    /\ timer # "off" => sess.requested
    /\ callback \in {"cancel", "emit", "hangup"} => sess.requested

\* What baresip announced has happened: nothing is handled of a call that rings, and a
\* session is cleaned up once its call is over.
Announced ==
    /\ sess.answered \/ loop \in {"start", "emit", "hangup"} => phone # "ringing"
    /\ \A i \in DOMAIN events : /\ phone # "ringing"
                                /\ events[i] = "closed" => phone = "over"
    /\ loop = "cleanup" => phone = "over"

\* The records say what the session says.
Recorded ==
    /\ sess.emitted => sess.outcome # "none"
    /\ ~sess.emitted => \A i \in DOMAIN results : results[i] \notin Outcomes

OdaInv == TypeOK /\ Progress /\ Announced /\ Recorded /\ OneRecord
-----------------------------------------------------------------------------
\* What a sequence holds once its head is taken, or an element added.
LEMMA TailElements ==
    ASSUME NEW S, NEW s \in Seq(S), s # <<>>
    PROVE  /\ Tail(s) \in Seq(S) /\ Head(s) \in S /\ Head(s) = s[1] /\ 1 \in DOMAIN s
           /\ \A i \in DOMAIN Tail(s) : i + 1 \in DOMAIN s /\ Tail(s)[i] = s[i + 1]
BY HeadTailProperties

LEMMA AppendElements ==
    ASSUME NEW S, NEW s \in Seq(S), NEW x \in S
    PROVE  /\ Append(s, x) \in Seq(S)
           /\ DOMAIN Append(s, x) = DOMAIN s \cup {Len(s) + 1}
           /\ Len(s) + 1 \notin DOMAIN s
           /\ Append(s, x)[Len(s) + 1] = x
           /\ \A i \in DOMAIN s : Append(s, x)[i] = s[i]
BY AppendProperties

LEMMA InitInv == Init => OdaInv
<1> SUFFICES ASSUME Init PROVE OdaInv
  OBVIOUS
<1>1. PICK known \in BOOLEAN :
         sess = [answered |-> FALSE, complete |-> FALSE, known |-> known,
                 scheduled |-> FALSE, requested |-> FALSE, outcome |-> "none",
                 emitted |-> FALSE, deferred |-> FALSE, sent |-> FALSE,
                 closed |-> FALSE, open |-> TRUE]
  BY DEF Init
<1>2. sess \in SessionType
  BY <1>1 DEF SessionType
<1>3. /\ events = <<>> /\ results = <<>> /\ inbox = <<"rua">>
      /\ DOMAIN events = {} /\ DOMAIN results = {}
  BY EmptySeq DEF Init
<1>4. TypeOK
  BY <1>2, <1>3, BoundAssumption DEF Init, TypeOK
<1>5. Progress /\ Announced /\ Recorded /\ OneRecord
  BY <1>1, <1>3 DEF Init, Progress, Announced, Recorded, OneRecord
<1> QED
  BY <1>4, <1>5 DEF OdaInv
-----------------------------------------------------------------------------
(* The shared pieces. *)

\* A call that is hung up, or connected: what is announced has happened.
LEMMA HungUpKeeps ==
    ASSUME TypeOK, HungUp
    PROVE  /\ phone' = "over" /\ events' \in Seq({"answered", "established", "closed"})
<1> DEFINE E == {"answered", "established", "closed"}
<1>1. events \in Seq(E) /\ "closed" \in E
  BY DEF TypeOK
<1>2. Append(events, "closed") \in Seq(E)
  BY <1>1, AppendElements
<1> QED
  BY <1>1, <1>2 DEF HungUp

LEMMA ConnectedKeeps ==
    ASSUME TypeOK, Connected
    PROVE  /\ phone' = "up" /\ events' \in Seq({"answered", "established", "closed"})
           /\ (\A i \in DOMAIN events : events[i] # "closed")
                 => \A i \in DOMAIN events' : events'[i] # "closed"
<1> DEFINE E == {"answered", "established", "closed"}
<1>1. events \in Seq(E) /\ "answered" \in E /\ "established" \in E
  BY DEF TypeOK
<1>2. CASE events' = Append(events, "established")
  BY <1>1, <1>2, AppendElements DEF Connected
<1>3. CASE events' = events \o <<"answered", "established">>
  <2> DEFINE first == Append(events, "answered")
  <2>1. /\ first \in Seq(E)
        /\ DOMAIN first = DOMAIN events \cup {Len(events) + 1}
        /\ first[Len(events) + 1] = "answered"
        /\ \A i \in DOMAIN events : first[i] = events[i]
    BY <1>1, AppendElements
  <2>2. events' = Append(first, "established")
    BY <1>1, <1>3
  <2> HIDE DEF first
  <2>3. /\ events' \in Seq(E)
        /\ DOMAIN events' = DOMAIN first \cup {Len(first) + 1}
        /\ events'[Len(first) + 1] = "established"
        /\ \A i \in DOMAIN first : events'[i] = first[i]
    BY <1>1, <2>1, <2>2, AppendElements
  <2> QED
    BY <2>1, <2>3 DEF Connected
<1> QED
  BY <1>2, <1>3 DEF Connected

\* A terminal record is given once, of what is recorded.
LEMMA MaybeEmitKeeps ==
    ASSUME TypeOK, Recorded, OneRecord, MaybeEmit
    PROVE  /\ sess' \in SessionType /\ results' \in Seq(Outcomes \cup {"closed"})
           /\ sess' = [sess EXCEPT !.emitted = sess'.emitted]
           /\ Recorded' /\ OneRecord'
<1>1. CASE UNCHANGED <<sess, results>>
  BY <1>1 DEF TypeOK, SessionType, Recorded, OneRecord
<1>2. CASE /\ ~sess.emitted /\ sess.outcome # "none"
           /\ sess' = [sess EXCEPT !.emitted = TRUE]
           /\ results' = Append(results, sess.outcome)
  <2>1. sess.outcome \in Outcomes
    BY <1>2 DEF TypeOK, SessionType
  <2>2. /\ results' \in Seq(Outcomes \cup {"closed"})
        /\ DOMAIN results' = DOMAIN results \cup {Len(results) + 1}
        /\ results'[Len(results) + 1] = sess.outcome
        /\ \A i \in DOMAIN results : results'[i] = results[i] /\ results[i] \notin Outcomes
    BY <1>2, <2>1, AppendElements DEF TypeOK, Recorded
  <2>3. sess' \in SessionType /\ sess'.emitted /\ sess'.outcome = sess.outcome
    BY <1>2 DEF TypeOK, SessionType
  <2> QED
    BY <1>2, <2>1, <2>2, <2>3 DEF Recorded, OneRecord
<1> QED
  BY <1>1, <1>2 DEF MaybeEmit, MarkEmitted, HasOutcome
\* The goroutine that asks starts before there is a timer.
LEMMA StartOutgoingKeeps ==
    ASSUME TypeOK, Progress, StartOutgoing
    PROVE  /\ sess' \in SessionType
           /\ \A f \in {"answered", "known", "requested", "outcome", "emitted", "deferred"} :
                sess'[f] = sess[f]
           /\ \/ asker' = asker
              \/ asker' = "delay" /\ sess.answered /\ ~sess.requested /\ timer = "off"
<1>1. CASE UNCHANGED <<sess, asker>>
  BY <1>1 DEF TypeOK
<1>2. CASE /\ sess.answered /\ ~sess.requested
           /\ sess' = [sess EXCEPT !.scheduled = TRUE] /\ asker' = "delay"
  BY <1>2 DEF TypeOK, SessionType, Progress
<1> QED
  BY <1>1, <1>2 DEF StartOutgoing, AfterAnswer, NotScheduled
-----------------------------------------------------------------------------
(* The steps. *)

\* What baresip, the asking goroutine, the timer, the callback and the event loop do.
LEMMA StepInv == OdaInv /\ [Next]_vars => OdaInv'
<1> SUFFICES ASSUME OdaInv, [Next]_vars PROVE OdaInv'
  OBVIOUS
<1> USE DEF OdaInv
<1>1. CASE UNCHANGED vars
  BY <1>1 DEF TypeOK, Progress, Announced, Recorded, OneRecord
<1>2. CASE DelayOver
  BY <1>2 DEF DelayOver, TypeOK, SessionType, Progress, Announced, Recorded, OneRecord
<1>3. CASE ArmTimer
  BY <1>3 DEF ArmTimer, Guarded, TypeOK, SessionType, Progress, Announced, Recorded, OneRecord
<1>4. CASE TriggerODA
  <2>1. /\ sess' \in SessionType
        /\ sess' = [sess EXCEPT !.sent = sess'.sent, !.closed = sess'.closed]
    BY <1>4 DEF TriggerODA, TypeOK, SessionType
  <2>2. asked' \in Nat
    BY <1>4 DEF TriggerODA, TypeOK
  <2>3. asker' = "off" /\ UNCHANGED <<call, loop, callback, timer, inbox, peer, manual, results>>
    BY <1>4 DEF TriggerODA
  <2>4. /\ \A f \in {"answered", "known", "requested", "outcome", "emitted", "deferred"} :
             sess'[f] = sess[f]
    BY <1>4 DEF TriggerODA, TypeOK, SessionType
  <2>5. TypeOK'
    BY <2>1, <2>2, <2>3 DEF TypeOK
  <2> QED
    BY <2>3, <2>4, <2>5 DEF Progress, Announced, Recorded, OneRecord
<1>5. CASE TriggerODAForCall
  <2>1. /\ sess' \in SessionType
        /\ sess' = [sess EXCEPT !.closed = FALSE]
    BY <1>5 DEF TriggerODAForCall, TypeOK, SessionType
  <2>2. asked' \in Nat /\ manual' \in 0 .. MaxManual
    BY <1>5, BoundAssumption DEF TriggerODAForCall, TypeOK
  <2> QED
    BY <1>5, <2>1, <2>2
       DEF TriggerODAForCall, TypeOK, SessionType, Progress, Announced, Recorded, OneRecord
<1>6. CASE TimerFires
  BY <1>6 DEF TimerFires, TypeOK, SessionType, Progress, Announced, Recorded, OneRecord
<1>7. CASE TimerRecords
  <2>1. CASE ShouldRecord(sess)
    <3>1. sess.known /\ ~sess.deferred
      BY <2>1 DEF ShouldRecord, Progress
    <3>2. /\ sess' \in SessionType /\ ~sess'.deferred
          /\ sess' = [sess EXCEPT !.outcome = "oda_timeout", !.deferred = sess'.deferred]
      BY <1>7, <2>1, <3>1 DEF TimerRecords, TypeOK, SessionType, Outcomes
    <3>3. sess.requested /\ ~sess.emitted
      BY <2>1 DEF ShouldRecord, Recorded
    <3> QED
      BY <1>7, <2>1, <3>2, <3>3
         DEF TimerRecords, TypeOK, SessionType, Progress, Announced, Recorded, OneRecord
  <2>2. CASE ~ShouldRecord(sess)
    BY <1>7, <2>2 DEF TimerRecords, TypeOK, Progress, Announced, Recorded, OneRecord
  <2> QED
    BY <2>1, <2>2
<1>8. CASE TimerEmits
  BY <1>8, MaybeEmitKeeps DEF TimerEmits, TypeOK, SessionType, Progress, Announced
<1>9. CASE TimerHangsUp
  BY <1>9, HungUpKeeps DEF TimerHangsUp, TypeOK, Progress, Announced, Recorded, OneRecord
<1>10. CASE DropsMessage
  BY <1>10, TailElements
     DEF DropsMessage, HasMessage, TypeOK, Progress, Announced, Recorded, OneRecord
<1>11. CASE RUACompletes
  BY ZenonT(40), <1>11, TailElements
     DEF RUACompletes, Takes, HasMessage, TypeOK, SessionType, Progress, Announced, Recorded,
         OneRecord
<1>12. CASE CallerStarts
  BY <1>12, StartOutgoingKeeps
     DEF CallerStarts, StartIfAnswered, TypeOK, Progress, Announced, Recorded, OneRecord
<1>13. CASE CalleeAnswers
  BY <1>13, ConnectedKeeps
     DEF CalleeAnswers, TypeOK, Progress, Announced, Recorded, OneRecord
<1>14. CASE HandleODARequest
  BY <1>14, TailElements
     DEF HandleODARequest, Takes, HasMessage, TypeOK, Progress, Announced, Recorded, OneRecord
<1>15. CASE HandleODAResponse
  <2>1. inbox' \in Seq({"rua", "request", "response"})
    BY <1>15, TailElements DEF HandleODAResponse, Takes, HasMessage, TypeOK
  <2>2. CASE UNCHANGED <<sess, callback>>
    BY <1>15, <2>1, <2>2
       DEF HandleODAResponse, TypeOK, Progress, Announced, Recorded, OneRecord
  <2>3. CASE /\ ShouldRecord(sess)
             /\ sess' = [sess EXCEPT !.outcome = "oda_done"]
             /\ callback' = "cancel"
    <3>1. sess' \in SessionType
      BY <2>3 DEF TypeOK, SessionType, Outcomes
    <3>2. sess.requested /\ ~sess.emitted
      BY <2>3 DEF ShouldRecord, Recorded
    <3> QED
      BY <1>15, <2>1, <2>3, <3>1, <3>2
         DEF HandleODAResponse, TypeOK, SessionType, Progress, Announced, Recorded, OneRecord
  <2> QED
    BY <1>15, <2>2, <2>3 DEF HandleODAResponse
<1>16. CASE CallbackCancels
  BY <1>16 DEF CallbackCancels, Stopped, TypeOK, Progress, Announced, Recorded, OneRecord
<1>17. CASE CallbackEmits
  BY <1>17, MaybeEmitKeeps DEF CallbackEmits, TypeOK, SessionType, Progress, Announced
<1>18. CASE CallbackHangsUp
  <2>1. sess.known
    BY <1>18 DEF CallbackHangsUp, Progress
  <2>2. /\ HungUp
        /\ callback' = "idle" /\ UNCHANGED <<sess, dir, loop, asker, timer, dia, manual, results>>
    BY <1>18, <2>1 DEF CallbackHangsUp
  <2> QED
    BY <2>2, HungUpKeeps DEF TypeOK, Progress, Announced, Recorded, OneRecord
<1>19. CASE OnAnswered
  <2>1. /\ events' \in Seq({"answered", "established", "closed"}) /\ phone # "ringing"
        /\ \A i \in DOMAIN events' : i + 1 \in DOMAIN events /\ events'[i] = events[i + 1]
    BY <1>19, TailElements DEF OnAnswered, TakesEvent, TypeOK, Announced
  <2>2. /\ sess' \in SessionType
        /\ sess' = sess \/ (sess'.answered /\ sess'.known)
        /\ \A f \in {"requested", "outcome", "emitted", "deferred"} : sess'[f] = sess[f]
    BY <1>19 DEF OnAnswered, TypeOK, SessionType
  <2>3. loop' = "idle" \/ (loop' = "start" /\ sess'.answered)
    <3>1. CASE sess.open
      BY <1>19, <3>1 DEF OnAnswered, TypeOK, SessionType
    <3>2. CASE ~sess.open
      BY <1>19, <3>2 DEF OnAnswered, TakesEvent
    <3> QED
      BY <3>1, <3>2
  <2>4. UNCHANGED <<dir, phone, callback, asker, timer, dia, manual, results>>
    BY <1>19 DEF OnAnswered
  <2> QED
    BY <2>1, <2>2, <2>3, <2>4 DEF TypeOK, Progress, Announced, Recorded, OneRecord
<1>20. CASE LoopStarts
  <2>1. CASE dir = "outgoing"
    BY <1>20, <2>1, StartOutgoingKeeps
       DEF LoopStarts, TypeOK, Progress, Announced, Recorded, OneRecord
  <2>2. CASE dir # "outgoing" /\ UNCHANGED <<sess, timer, asker>>
    BY <1>20, <2>2 DEF LoopStarts, TypeOK, Progress, Announced, Recorded, OneRecord
  <2>3. CASE /\ dir # "outgoing" /\ ~sess.requested
             /\ sess' = [sess EXCEPT !.requested = TRUE]
             /\ timer' = "armed" /\ asker' = "trigger"
    BY <1>20, <2>3
       DEF LoopStarts, TypeOK, SessionType, Progress, Announced, Recorded, OneRecord
  <2> QED
    BY <1>20, <2>1, <2>2, <2>3 DEF LoopStarts, StartIncoming, Guarded
<1>21. CASE LoopEmits
  BY <1>21, MaybeEmitKeeps DEF LoopEmits, TypeOK, SessionType, Progress, Announced
<1>22. CASE LoopHangsUp
  BY <1>22 DEF LoopHangsUp, TypeOK, Progress, Announced, Recorded, OneRecord
<1>23. CASE OnClosed
  <2>1. /\ events' \in Seq({"answered", "established", "closed"}) /\ phone = "over"
        /\ \A i \in DOMAIN events' : i + 1 \in DOMAIN events /\ events'[i] = events[i + 1]
    BY <1>23, TailElements DEF OnClosed, TakesEvent, TypeOK, Announced
  <2>2. /\ results' \in Seq(Outcomes \cup {"closed"})
        /\ DOMAIN results' = DOMAIN results \cup {Len(results) + 1}
        /\ results'[Len(results) + 1] \notin Outcomes
        /\ \A i \in DOMAIN results : results'[i] = results[i]
    BY <1>23, AppendElements DEF OnClosed, TypeOK, Outcomes
  <2>3. sess' \in SessionType /\ sess' = [sess EXCEPT !.closed = TRUE]
    BY <1>23 DEF OnClosed, TypeOK, SessionType
  <2> QED
    BY <1>23, <2>1, <2>2, <2>3
       DEF OnClosed, TypeOK, SessionType, Progress, Announced, Recorded, OneRecord
<1>24. CASE CleansUp
  BY <1>24 DEF CleansUp, Stopped, TypeOK, SessionType, Progress, Announced, Recorded, OneRecord
<1>25. CASE Answered
  BY <1>25, ConnectedKeeps
     DEF Answered, TypeOK, Progress, Announced, Recorded, OneRecord
<1>26. CASE UserHangsUp
  BY <1>26, HungUpKeeps DEF UserHangsUp, TypeOK, Progress, Announced, Recorded, OneRecord
<1>27. CASE PeerResponds
  BY <1>27, AppendElements DEF PeerResponds, TypeOK, Progress, Announced, Recorded, OneRecord
<1>28. CASE PeerAsks
  BY <1>28, AppendElements, BoundAssumption
     DEF PeerAsks, TypeOK, Progress, Announced, Recorded, OneRecord
<1> QED
  BY <1>1, <1>2, <1>3, <1>4, <1>5, <1>6, <1>7, <1>8, <1>9, <1>10, <1>11, <1>12, <1>13, <1>14,
     <1>15, <1>16, <1>17, <1>18, <1>19, <1>20, <1>21, <1>22, <1>23, <1>24, <1>25, <1>26, <1>27,
     <1>28 DEF Next, Asker, Timer, Callback, Loop
-----------------------------------------------------------------------------
(* The theorems. *)

LEMMA InvAlways == Spec => []OdaInv
<1> QED
  BY InitInv, StepInv, PTL DEF Spec

\* Every value of the session, of the goroutines' places and of the queues is one the code
\* can give it; in particular an emitted record has an outcome.
THEOREM OdaTypeCorrect == Spec => []TypeOK
<1>1. OdaInv => TypeOK
  BY DEF OdaInv
<1> QED
  BY <1>1, InvAlways, PTL

\* maybeEmitODATerminalResult: however the response, the timer and the event loop come to
\* it, one record, of the outcome recorded.
THEOREM OneTerminalRecord == Spec => []OneRecord
<1>1. OdaInv => OneRecord
  BY DEF OdaInv
<1> QED
  BY <1>1, InvAlways, PTL

\* controller.go:1174 and 1265: ODA never ends before the call-id is known, so the hangup
\* that waits for the call-id is never left waiting.
THEOREM CallIdAlwaysKnown == Spec => []CallIdKnown
<1>1. OdaInv => CallIdKnown
  BY DEF OdaInv, Progress, CallIdKnown
<1> QED
  BY <1>1, InvAlways, PTL

\* controller.go:1306: one request, one timer.
THEOREM OneTimerAtATime == Spec => []OneTimer
<1>1. OdaInv => OneTimer
  BY DEF OdaInv, Progress, OneTimer
<1> QED
  BY <1>1, InvAlways, PTL

-----------------------------------------------------------------------------
(* Oda implements OdaOutcome. *)

\* A step that touches nothing the promise speaks of.
LEMMA StutterStep ==
    ASSUME UNCHANGED <<phone, results>>, sess'.open = sess.open,
           sess'.outcome = sess.outcome, sess'.requested = sess.requested
    PROVE  UNCHANGED Promised!ovars
BY DEF Promised!ovars, Request, Reports

\* A record that is not of ODA.
LEMMA OtherRecord ==
    ASSUME TypeOK, NEW r \in {"closed"}, results' = Append(results, r)
    PROVE  Reports' = Reports
<1>1. /\ DOMAIN results' = DOMAIN results \cup {Len(results) + 1}
      /\ results'[Len(results) + 1] \notin Outcomes
      /\ \A i \in DOMAIN results : results'[i] = results[i]
  BY AppendElements DEF TypeOK, Outcomes
<1>2. \A o \in Outcomes : {i \in DOMAIN results' : results'[i] = o}
                        = {i \in DOMAIN results : results[i] = o}
  BY <1>1
<1> QED
  BY <1>2 DEF Reports

\* The first record, and the count it makes.
LEMMA FirstRecord ==
    ASSUME TypeOK, \A i \in DOMAIN results : results[i] \notin Outcomes,
           NEW r \in Outcomes, results' = Append(results, r)
    PROVE  /\ Reports = [o \in Outcomes |-> 0]
           /\ Reports' = [Reports EXCEPT ![r] = 1]
<1>1. /\ DOMAIN results' = DOMAIN results \cup {Len(results) + 1}
      /\ results'[Len(results) + 1] = r
      /\ \A i \in DOMAIN results : results'[i] = results[i]
  BY AppendElements DEF TypeOK
<1>2. \A o \in Outcomes : {i \in DOMAIN results : results[i] = o} = {}
  OBVIOUS
<1>3. Reports = [o \in Outcomes |-> 0]
  BY <1>2, FS_EmptySet DEF Reports
<1>4. /\ {i \in DOMAIN results' : results'[i] = r} = {Len(results) + 1}
      /\ \A o \in Outcomes \ {r} : {i \in DOMAIN results' : results'[i] = o} = {}
  BY <1>1
<1>5. Cardinality({Len(results) + 1}) = 1
  BY FS_Singleton
<1>6. ASSUME NEW o \in Outcomes PROVE Reports'[o] = IF o = r THEN 1 ELSE 0
  <2>1. Reports'[o] = Cardinality({i \in DOMAIN results' : results'[i] = o})
    BY DEF Reports
  <2>2. CASE o = r
    BY <1>4, <1>5, <2>1, <2>2
  <2>3. CASE o # r
    BY <1>4, <2>1, <2>3, FS_EmptySet
  <2> QED
    BY <2>2, <2>3
<1>7. Reports' = [o \in Outcomes |-> IF o = r THEN 1 ELSE 0]
  BY <1>6 DEF Reports
<1> QED
  BY <1>3, <1>7

LEMMA InitPromise == Init => Promised!Init
<1> SUFFICES ASSUME Init PROVE Promised!Init
  OBVIOUS
<1>1. phone = "ringing" /\ sess.open = TRUE /\ sess.outcome = "none" /\ sess.requested = FALSE
  BY DEF Init
<1>2. Reports = [o \in Outcomes |-> 0]
  <2>1. \A o \in Outcomes : {i \in DOMAIN results : results[i] = o} = {}
    BY DEF Init
  <2> QED
    BY <2>1, FS_EmptySet DEF Reports
<1> QED
  BY <1>1, <1>2 DEF Promised!Init, Promised!Endings, Outcomes, Request, Reports

\* maybeEmitODATerminalResult reports, or does nothing.
LEMMA MaybeEmitReports ==
    ASSUME TypeOK, Progress, Recorded, MaybeEmit, phone' = phone
    PROVE  Promised!Report \/ UNCHANGED Promised!ovars
<1>1. CASE UNCHANGED <<sess, results>>
  BY <1>1, StutterStep
<1>2. CASE /\ ~sess.emitted /\ sess.outcome # "none"
           /\ sess' = [sess EXCEPT !.emitted = TRUE]
           /\ results' = Append(results, sess.outcome)
  <2>1. sess.outcome \in Outcomes
    BY <1>2 DEF TypeOK, SessionType
  <2>2. sess'.open = sess.open /\ sess'.outcome = sess.outcome
        /\ sess'.requested = sess.requested
    BY <1>2 DEF TypeOK, SessionType
  <2>3. /\ Reports = [o \in Outcomes |-> 0]
        /\ Reports' = [Reports EXCEPT ![sess.outcome] = 1]
    BY <1>2, <2>1, FirstRecord DEF Recorded
  <2>4. Request = sess.outcome /\ Request' = Request
    BY <1>2, <2>2 DEF Request
  <2>5. Promised!Report
    BY <2>1, <2>2, <2>3, <2>4
       DEF Promised!Report, Promised!Endings, Outcomes, Request, Reports
  <2> QED
    BY <2>5
<1> QED
  BY <1>1, <1>2 DEF MaybeEmit, MarkEmitted, HasOutcome

\* A hangup ends the call, or finds it over.
LEMMA HungUpHangsUp ==
    ASSUME HungUp, UNCHANGED <<sess, results>>
    PROVE  Promised!HangUp \/ UNCHANGED Promised!ovars
BY DEF HungUp, Promised!HangUp, Promised!ovars, Request, Reports

LEMMA ConnectedAnswers ==
    ASSUME Connected, phone = "ringing", UNCHANGED <<sess, results>>
    PROVE  Promised!Answer
BY DEF Connected, Promised!Answer, Request, Reports

\* The request starts: the call was answered.
LEMMA RequestAsks ==
    ASSUME TypeOK, Progress, Announced, sess.answered, ~sess.requested,
           sess' = [sess EXCEPT !.requested = TRUE], UNCHANGED <<phone, results>>
    PROVE  Promised!Ask
<1>1. /\ phone # "ringing" /\ sess.outcome = "none"
      /\ sess'.open = sess.open /\ sess'.outcome = "none" /\ sess'.requested = TRUE
  BY DEF TypeOK, SessionType, Progress, Announced
<1> QED
  BY <1>1 DEF Promised!Ask, Request, Reports

\* The request ends.
LEMMA RecordEnds ==
    ASSUME TypeOK, ShouldRecord(sess), NEW o \in Outcomes, UNCHANGED <<phone, results>>,
           sess'.outcome = o, sess'.open = sess.open, sess'.requested = sess.requested
    PROVE  Promised!End
<1>1. o # "none" /\ sess.requested /\ sess.outcome = "none"
  BY DEF Outcomes, ShouldRecord
<1> QED
  BY <1>1 DEF Promised!End, Promised!Endings, Outcomes, Request, Reports

LEMMA StepPromise == OdaInv /\ [Next]_vars => [Promised!Next]_(Promised!ovars)
<1> SUFFICES ASSUME OdaInv, [Next]_vars PROVE Promised!Next \/ UNCHANGED Promised!ovars
  OBVIOUS
<1> USE DEF OdaInv
<1>1. CASE UNCHANGED vars
  BY <1>1, StutterStep
<1>2. CASE DelayOver
  BY <1>2, RequestAsks DEF DelayOver, Progress, Promised!Next
<1>3. CASE TimerRecords
  <2>1. CASE ShouldRecord(sess)
    <3>1. /\ sess'.outcome = "oda_timeout" /\ sess'.open = sess.open
          /\ sess'.requested = sess.requested /\ UNCHANGED <<phone, results>>
      BY <1>3, <2>1 DEF TimerRecords, TypeOK, SessionType
    <3> QED
      BY <2>1, <3>1, RecordEnds DEF Outcomes, Promised!Next
  <2>2. CASE ~ShouldRecord(sess)
    BY <1>3, <2>2, StutterStep DEF TimerRecords
  <2> QED
    BY <2>1, <2>2
<1>4. CASE HandleODAResponse
  <2>1. CASE UNCHANGED sess
    BY <1>4, <2>1, StutterStep DEF HandleODAResponse
  <2>2. CASE ShouldRecord(sess) /\ sess' = [sess EXCEPT !.outcome = "oda_done"]
    <3>1. /\ sess'.outcome = "oda_done" /\ sess'.open = sess.open
          /\ sess'.requested = sess.requested /\ UNCHANGED <<phone, results>>
      BY <1>4, <2>2 DEF HandleODAResponse, TypeOK, SessionType
    <3> QED
      BY <2>2, <3>1, RecordEnds DEF Outcomes, Promised!Next
  <2> QED
    BY <1>4, <2>1, <2>2 DEF HandleODAResponse
<1>5. CASE TimerEmits \/ CallbackEmits \/ LoopEmits
  BY <1>5, MaybeEmitReports DEF TimerEmits, CallbackEmits, LoopEmits, Promised!Next
<1>6. CASE TimerHangsUp
  <2>1. CASE HungUp
    BY <1>6, <2>1, HungUpHangsUp DEF TimerHangsUp, Promised!Next
  <2>2. CASE UNCHANGED phone
    BY <1>6, <2>2, StutterStep DEF TimerHangsUp
  <2> QED
    BY <1>6, <2>1, <2>2 DEF TimerHangsUp
<1>7. CASE CallbackHangsUp
  <2>1. HungUp /\ UNCHANGED <<sess, results>>
    BY <1>7 DEF CallbackHangsUp, Progress
  <2> QED
    BY <2>1, HungUpHangsUp DEF Promised!Next
<1>8. CASE LoopHangsUp
  <2>1. UNCHANGED <<sess, phone, results>>
    BY <1>8 DEF LoopHangsUp, Progress
  <2> QED
    BY <2>1, StutterStep
<1>9. CASE UserHangsUp
  BY <1>9, HungUpHangsUp DEF UserHangsUp, Promised!Next
<1>10. CASE Answered
  BY <1>10, ConnectedAnswers DEF Answered, Promised!Next
<1>11. CASE CalleeAnswers
  <2>1. CASE phone = "ringing"
    BY <1>11, <2>1, ConnectedAnswers DEF CalleeAnswers, Promised!Next
  <2>2. CASE phone # "ringing"
    BY <1>11, <2>2, StutterStep DEF CalleeAnswers
  <2> QED
    BY <2>1, <2>2
<1>12. CASE LoopStarts
  <2>1. CASE dir = "outgoing"
    <3>1. UNCHANGED <<phone, results>>
      BY <1>12 DEF LoopStarts
    <3>2. /\ sess'.open = sess.open /\ sess'.outcome = sess.outcome
          /\ sess'.requested = sess.requested
      BY <1>12, <2>1 DEF LoopStarts, StartOutgoing, TypeOK, SessionType
    <3> QED
      BY <3>1, <3>2, StutterStep
  <2>2. CASE dir # "outgoing" /\ UNCHANGED sess
    BY <1>12, <2>2, StutterStep DEF LoopStarts
  <2>3. CASE /\ ~sess.requested /\ sess' = [sess EXCEPT !.requested = TRUE]
    BY <1>12, <2>3, RequestAsks DEF LoopStarts, Progress, Promised!Next
  <2> QED
    BY <1>12, <2>1, <2>2, <2>3 DEF LoopStarts, StartIncoming
<1>13. CASE OnClosed
  <2>1. UNCHANGED phone /\ Reports' = Reports
    BY <1>13, OtherRecord DEF OnClosed
  <2>2. /\ sess'.open = sess.open /\ sess'.outcome = sess.outcome
        /\ sess'.requested = sess.requested
    BY <1>13 DEF OnClosed, TypeOK, SessionType
  <2> QED
    BY <2>1, <2>2 DEF Promised!ovars, Request, Reports
<1>14. CASE CleansUp
  <2>1. phone = "over" /\ UNCHANGED <<phone, results>>
    BY <1>14 DEF CleansUp, Announced
  <2>2. sess'.open = FALSE /\ sess'.outcome = sess.outcome /\ sess'.requested = sess.requested
    BY <1>14 DEF CleansUp, TypeOK, SessionType
  <2>3. Promised!Close
    BY <2>1, <2>2 DEF Promised!Close, Request, Reports
  <2> QED
    BY <2>3 DEF Promised!Next
<1>15. CASE \/ ArmTimer \/ TimerFires \/ DropsMessage \/ HandleODARequest
            \/ CallbackCancels \/ PeerResponds \/ PeerAsks
  BY <1>15, StutterStep
     DEF ArmTimer, TimerFires, DropsMessage, HandleODARequest, CallbackCancels, PeerResponds,
         PeerAsks
<1>16. CASE \/ TriggerODA \/ TriggerODAForCall \/ RUACompletes \/ OnAnswered
  <2>1. UNCHANGED <<phone, results>>
    BY <1>16 DEF TriggerODA, TriggerODAForCall, RUACompletes, OnAnswered
  <2>2. /\ sess'.open = sess.open /\ sess'.outcome = sess.outcome
        /\ sess'.requested = sess.requested
    BY <1>16 DEF TriggerODA, TriggerODAForCall, RUACompletes, OnAnswered, TypeOK, SessionType
  <2> QED
    BY <2>1, <2>2, StutterStep
<1>17. CASE CallerStarts
  <2>1. UNCHANGED <<phone, results>>
    BY <1>17 DEF CallerStarts
  <2>2. /\ sess'.open = sess.open /\ sess'.outcome = sess.outcome
        /\ sess'.requested = sess.requested
    BY <1>17 DEF CallerStarts, StartIfAnswered, StartOutgoing, TypeOK, SessionType
  <2> QED
    BY <2>1, <2>2, StutterStep
<1> QED
  BY <1>1, <1>2, <1>3, <1>4, <1>5, <1>6, <1>7, <1>8, <1>9, <1>10, <1>11, <1>12, <1>13, <1>14,
     <1>15, <1>16, <1>17 DEF Next, Asker, Timer, Callback, Loop

\* Every step of the event loop, the callback, the timer and the asking goroutine, whatever
\* their order, is a step of OdaOutcome or leaves what it speaks of alone.
THEOREM OdaKeepsPromise == Spec => KeepsPromise
<1> QED
  BY InitPromise, StepPromise, InvAlways, PTL DEF Spec, KeepsPromise, Promised!SafeSpec

\* controller.go:1149 and 1254: what comes second, the response or the timeout, changes
\* nothing; it follows from the promise.
THEOREM OutcomeAlwaysStays == Spec => OutcomeStays
<1>1. OdaInv /\ [Next]_vars => [sess.outcome # "none" => sess'.outcome = sess.outcome]_vars
  <2> SUFFICES ASSUME OdaInv, [Next]_vars, sess.outcome # "none"
               PROVE  sess'.outcome = sess.outcome
    OBVIOUS
  <2>1. OdaInv' /\ (Promised!Next \/ UNCHANGED Promised!ovars)
    BY StepInv, StepPromise
  <2>2. Request = sess.outcome /\ Request \in Outcomes
    BY DEF OdaInv, TypeOK, SessionType, Request
  <2>3. Request' = Request
    BY <2>1, <2>2
       DEF Promised!Next, Promised!Answer, Promised!HangUp, Promised!Close, Promised!Ask,
           Promised!End, Promised!Report, Promised!ovars, Request, Outcomes
  <2> QED
    BY <2>2, <2>3 DEF Request, Outcomes
<1> QED
  BY <1>1, InvAlways, PTL DEF Spec, OutcomeStays
=============================================================================
