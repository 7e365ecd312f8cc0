----------------------------- MODULE Experiment -----------------------------
(***************************************************************************)
(* runExperiment of cmd/sipcontroller/main.go, from the dial of each attempt*)
(* over baresip and the event loop to the records in the CSV file.  The     *)
(* runner dials and waits for terminal records; the event loop and, with    *)
(* ODA, its callback give them.  Of the controller there is what these      *)
(* records and the busy check depend on (CallControl, Oda and DiaCall have  *)
(* the rest); the callee's side is what happens to a call.                  *)
(***************************************************************************)
EXTENDS BaresipClient

CONSTANTS
    MaxRuns,       \* bound: attempts of an experiment
    Experiments,   \* the experiments: how many attempts, is ODA configured, is the mode
                   \* integrated, with DIA, or baseline
    Concurrency,   \* how many are started at first
    ResultCap      \* capacity of the results channel (1000 in the code)

ASSUME ExperimentAssumption ==
    /\ {"runner", "oda"} \subseteq Callers
    /\ MaxRuns \in Nat \ {0} /\ Concurrency \in Nat \ {0} /\ ResultCap \in Nat \ {0}
    /\ Experiments \subseteq [runs : 1 .. MaxRuns, oda : BOOLEAN, dia : BOOLEAN]
    /\ Experiments # {}

VARIABLES
    exp,        \* the experiment
    calls,      \* per call: its state in baresip, and the attempt whose dial made it
    owed,       \* responses baresip has not sent yet
    att,        \* per attempt: its session
    results,    \* the results channel
    runner,     \* runExperiment, which also runs InitiateOutgoingCall
    inFlight,   \* per attempt: is it in flight, and what has been written of it
    rows,       \* the CSV file
    loop,       \* the event loop
    oda         \* per attempt: where ODA is; "ready": DIA complete, ODA not asked for

phone == <<calls, owed>>
control == <<att, results, loop, oda>>
main  == <<exp, runner, inFlight, rows>>
evars == <<client, phone, control, main>>

waitForODA == exp.oda
Attempts == 1 .. MaxRuns
Callees  == 1 .. Len(calls)
NoSession == [reg |-> FALSE, open |-> TRUE, call |-> 0, sent |-> FALSE, answered |-> FALSE,
              emitted |-> FALSE]
NotInFlight == [here |-> FALSE, answered |-> FALSE, oda |-> FALSE, terminal |-> FALSE,
                pending |-> FALSE, hangup |-> FALSE]
\* An attempt in flight.  (Faulty variant: startOne does not put it there.)
NotRecorded == NotInFlight
JustStarted == [NotInFlight EXCEPT !.here = TRUE]

Init ==
    /\ ClientInit
    /\ exp \in Experiments
    /\ calls = <<>> /\ owed = {}
    /\ att = [a \in Attempts |-> NoSession]
    /\ results = <<>>
    /\ runner = [pc |-> "start", started |-> 0, completed |-> 0, att |-> 0, res |-> <<>>]
    /\ inFlight = [a \in Attempts |-> NotInFlight]
    /\ rows = <<>>
    /\ loop = [pc |-> "idle", att |-> 0]
    /\ oda = [a \in Attempts |-> "off"]
-----------------------------------------------------------------------------
(* baresip, its user, and the callee. *)

Event(type, n) == [kind |-> "event", type |-> type, call |-> n]
Emit(q, type, n) == IF link = "up" THEN Append(q, Event(type, n)) ELSE q

\* A command: a dial makes a call, or is refused, or is accepted without a call; a
\* hangup ends one, and is answered before the event of it or after.
HandleCommand ==
    /\ wire # <<>>
    /\ wire' = Tail(wire)
    /\ LET k == Head(wire)
           n == Len(calls) + 1
           Reply(ok) == [kind |-> "response", token |-> k.token, op |-> k.op, arg |-> k.arg,
                         ok |-> ok]
       IN \/ /\ k.op = "dial"
             /\ calls' = Append(calls, [state |-> "ringing", att |-> k.arg])
             /\ back' = Emit(back, "outgoing", n)
             /\ owed' = owed \cup {Reply(TRUE)} /\ UNCHANGED faults
          \/ /\ k.op = "dial" /\ Fault
             /\ \E ok \in BOOLEAN : owed' = owed \cup {Reply(ok)}
             /\ UNCHANGED <<calls, back>>
          \/ /\ k.op = "hangup" /\ calls[k.arg].state = "over"
             /\ back' = Append(back, Reply(TRUE))
             /\ UNCHANGED <<calls, owed, faults>>
          \/ /\ k.op = "hangup" /\ calls[k.arg].state # "over"
             /\ calls' = [calls EXCEPT ![k.arg].state = "over"]
             /\ back' \in {Append(Emit(back, "closed", k.arg), Reply(TRUE)),
                           Emit(Append(back, Reply(TRUE)), "closed", k.arg)}
             /\ UNCHANGED <<owed, faults>>
    /\ UNCHANGED <<commands, link, reader, eventChan, errorChan, closed, control, main>>

\* The response to a dial, at once or after some of the call's events.
Respond ==
    /\ \E r \in owed :
          /\ owed' = owed \ {r}
          /\ back' = IF link = "up" THEN Append(back, r) ELSE back
    /\ UNCHANGED <<commands, wire, link, reader, eventChan, errorChan, closed, faults, calls,
                   control, main>>

\* The callee answers; not every baresip emits CALL_ANSWERED before CALL_ESTABLISHED.
Answered(n) ==
    /\ calls[n].state = "ringing"
    /\ calls' = [calls EXCEPT ![n].state = "up"]
    /\ \/ back' = Emit(back, "answered", n)
       \/ back' = Emit(Emit(back, "answered", n), "answered", n)
    /\ UNCHANGED <<commands, wire, link, reader, eventChan, errorChan, closed, faults, owed,
                   control, main>>

\* The callee, or the network, ends the call.
Ended(n) ==
    /\ calls[n].state \in {"ringing", "up"}
    /\ calls' = [calls EXCEPT ![n].state = "over"]
    /\ back' = Emit(back, "closed", n)
    /\ UNCHANGED <<commands, wire, link, reader, eventChan, errorChan, closed, faults, owed,
                   control, main>>
-----------------------------------------------------------------------------
(* Records. *)

Record(a, outcome) == [att |-> a, outcome |-> outcome]

\* emitResult: a record that finds the channel full is dropped.
EmitResult(r) ==
    IF Len(results) < ResultCap
      THEN results' = Append(results, r) /\ UNCHANGED faults
      ELSE Noted /\ UNCHANGED results

\* maybeEmitAnsweredResult, by the dialling goroutine and by the event loop; the flag is
\* set after the record is given.
MayEmit(s) == ~s.emitted /\ s.sent /\ s.answered
MarkEmitted(a) == att' = [att EXCEPT ![a].emitted = TRUE]

\* GetActiveSessionByPeer: the attempts all call the same phone.
Busy == \E a \in Attempts : att[a].reg /\ att[a].open
-----------------------------------------------------------------------------
(* The runner: startOne and InitiateOutgoingCall. *)

Runner(pc) == runner.pc = pc

\* An experiment that was refused a dial ends with an error.
Aborts == runner' = [runner EXCEPT !.pc = "aborted"]

\* The attempt, its session and the dial command; or the peer is busy.
StartOne ==
    LET a == runner.att + 1 IN
    /\ Runner("start")
    /\ IF Busy
         THEN /\ EmitResult(Record(a, "error"))
              /\ Aborts
              /\ UNCHANGED <<commands, att>>
         ELSE /\ att' = [att EXCEPT ![a].reg = TRUE]
              /\ Issue("runner", "dial", a)
              /\ runner' = [runner EXCEPT !.pc = "dial", !.att = a]
              /\ UNCHANGED <<results, faults>>
    /\ UNCHANGED <<wire, link, reading, closed, phone, loop, oda, exp, inFlight, rows>>

\* The dial returns, with the time it was sent at, which a dial that failed has not ...
Dialled ==
    /\ Runner("dial") /\ cmd["runner"].pc = "done"
    /\ att' = [att EXCEPT ![runner.att].sent = cmd["runner"].result # "failed"]
    /\ runner' = [runner EXCEPT !.pc = "answer"]
    /\ UNCHANGED <<client, phone, results, loop, oda, exp, inFlight, rows>>

\* ... the call may have been answered by now ...  (Faulty variant: the event loop will
\* look.)
LeaveItToLoop(s) == FALSE
LookAgain(s) == MayEmit(s)
DialerEmits ==
    /\ Runner("answer")
    /\ IF LookAgain(att[runner.att])
         THEN /\ EmitResult(Record(runner.att, "answered"))
              /\ runner' = [runner EXCEPT !.pc = "mark"]
         ELSE /\ runner' = [runner EXCEPT !.pc = "dialled"]
              /\ UNCHANGED <<results, faults>>
    /\ UNCHANGED <<commands, wire, link, reading, closed, phone, att, loop, oda, exp,
                   inFlight, rows>>

DialerMarks ==
    /\ Runner("mark")
    /\ MarkEmitted(runner.att)
    /\ runner' = [runner EXCEPT !.pc = "dialled"]
    /\ UNCHANGED <<client, phone, results, loop, oda, exp, inFlight, rows>>

\* ... and the attempt is StateBaresipDialing, and in flight; or it failed, and is removed.
Dials(a) == att' = [att EXCEPT ![a].open = TRUE]
InitiateReturns ==
    LET a == runner.att
        n == runner.started + 1 IN
    /\ Runner("dialled")
    /\ cmd' = [cmd EXCEPT !["runner"] = NoCommand]
    /\ IF cmd["runner"].result = "ok"
         THEN /\ Dials(a)
              /\ inFlight' = [inFlight EXCEPT ![a] = JustStarted]
              /\ runner' = [runner EXCEPT !.started = n,
                                          !.pc = IF n < exp.runs /\ n < Concurrency THEN "start"
                                                 ELSE "wait"]
              /\ UNCHANGED <<results, faults>>
         ELSE /\ EmitResult(Record(a, "error"))
              /\ att' = [att EXCEPT ![a].reg = FALSE]
              /\ Aborts
              /\ UNCHANGED inFlight
    /\ UNCHANGED <<tokens, pending, wire, link, reading, closed, phone, loop, oda, exp,
                   rows>>
-----------------------------------------------------------------------------
(* The runner: its loop over the results. *)

Outcome == runner.res.outcome
Written == inFlight[runner.res.att]

\* The next result; one of an attempt not in flight is ignored.
TakeResult ==
    /\ Runner("wait") /\ results # <<>>
    /\ results' = Tail(results)
    /\ LET r == Head(results) IN
       IF ~inFlight[r.att].here THEN UNCHANGED runner
       ELSE runner' = [runner EXCEPT !.res = r, !.pc = "handle"]
    /\ UNCHANGED <<client, phone, att, loop, oda, exp, inFlight, rows>>

\* Without ODA an answered call is hung up, once.
HangsUp == ~waitForODA /\ Outcome = "answered" /\ ~Written.hangup

HangupCall ==
    /\ Runner("handle") /\ HangsUp
    /\ Issue("runner", "hangup", att[runner.res.att].call)
    /\ runner' = [runner EXCEPT !.pc = "hangup"]
    /\ UNCHANGED <<wire, link, reading, closed, faults, phone, control, exp, inFlight, rows>>

\* An error of the command changes nothing.
HangupReturns ==
    /\ Runner("hangup") /\ cmd["runner"].pc = "done"
    /\ cmd' = [cmd EXCEPT !["runner"] = NoCommand]
    /\ inFlight' = [inFlight EXCEPT ![runner.res.att].hangup = TRUE]
    /\ runner' = [runner EXCEPT !.pc = "handle"]
    /\ UNCHANGED <<tokens, pending, wire, link, reading, closed, faults, phone, control,
                   exp, rows>>

Row(kind) == Record(runner.res.att, kind)

\* The row of the call setup is not there yet.  (Faulty variant: each answer has a row.)
EachAnswer(w) == TRUE
FirstAnswer(w) == ~w.answered

\* The rows a result adds, and what is written then.
CSV(w) ==
    CASE Outcome = "answered" /\ FirstAnswer(w) ->
           [add |-> <<Row("answered")>> \o IF w.pending /\ ~w.oda THEN <<Row("oda")>> ELSE <<>>,
            w |-> [w EXCEPT !.answered = TRUE, !.oda = @ \/ w.pending, !.pending = FALSE]]
      [] Outcome = "oda" /\ ~w.oda ->
           IF w.answered THEN [add |-> <<Row("oda")>>, w |-> [w EXCEPT !.oda = TRUE]]
           ELSE [add |-> <<>>, w |-> [w EXCEPT !.pending = TRUE]]
      [] Outcome = "closed" ->
           LET late == w.pending /\ ~w.oda
               alone == ~w.answered /\ ~w.oda /\ ~late /\ ~w.terminal IN
           [add |-> IF late THEN <<Row("oda")>> ELSE IF alone THEN <<Row("closed")>> ELSE <<>>,
            w |-> [w EXCEPT !.oda = @ \/ late, !.pending = FALSE, !.terminal = @ \/ alone]]
      [] Outcome = "error" /\ ~w.terminal ->
           [add |-> <<Row("error")>>, w |-> [w EXCEPT !.terminal = TRUE]]
      [] OTHER -> [add |-> <<>>, w |-> w]

\* What an attempt is complete with.  (Faulty variant: with ODA, nothing else.)
OnlyOda(outcome) == IF waitForODA THEN outcome = "oda" ELSE outcome \in {"closed", "error"}
Completes(outcome) == outcome \in {"closed", "error"} \/ (waitForODA /\ outcome = "oda")

\* The rows; then the attempt is complete, and the next one starts, or it is not.
HandleResult ==
    LET csv == CSV(Written)
        n == runner.completed + 1 IN
    /\ Runner("handle") /\ ~HangsUp
    /\ rows' = rows \o csv.add
    /\ IF Completes(Outcome)
         THEN /\ inFlight' = [inFlight EXCEPT ![runner.res.att] = NotInFlight]
              /\ runner' = [runner EXCEPT !.completed = n, !.res = <<>>,
                                          !.pc = IF n >= exp.runs THEN "done"
                                                 ELSE IF runner.started < exp.runs THEN "start"
                                                 ELSE "wait"]
         ELSE /\ inFlight' = [inFlight EXCEPT ![runner.res.att] = csv.w]
              /\ runner' = [runner EXCEPT !.pc = "wait", !.res = <<>>]
    /\ UNCHANGED <<client, phone, control, exp>>

\* Controller.Stop, at the end: the sessions are cleaned up and the client closed.
Stop ==
    /\ Runner("done") /\ ~closed
    /\ Close
    /\ UNCHANGED <<commands, wire, link, reading, faults, phone, control, main>>
-----------------------------------------------------------------------------
(* The event loop. *)

\* The session of a call, or the attempt that has waited longest for its call-id.
Of(n) == {a \in Attempts : att[a].reg /\ att[a].call = n}
Waiting == {a \in Attempts : att[a].reg /\ att[a].call = 0}
Found(n) == IF Of(n) # {} THEN Of(n)
            ELSE {a \in Waiting : \A b \in Waiting : a <= b}

NextEvent(type) ==
    /\ loop.pc = "idle" /\ eventChan # <<>> /\ Head(eventChan).type = type
    /\ eventChan' = Tail(eventChan)

\* CALL_OUTGOING binds the call-id.
OnOutgoing ==
    /\ NextEvent("outgoing")
    /\ LET n == Head(eventChan).call IN
       att' = [a \in Attempts |-> IF a \in Found(n) THEN [att[a] EXCEPT !.call = n] ELSE att[a]]
    /\ UNCHANGED <<commands, wire, link, back, reader, errorChan, closed, faults, phone, results,
                   loop, oda, main>>

\* CALL_ANSWERED and CALL_ESTABLISHED: AnsweredAt ...
OnAnswered ==
    /\ NextEvent("answered")
    /\ LET n == Head(eventChan).call IN
       IF Found(n) = {} THEN UNCHANGED <<att, loop>>
       ELSE \E a \in Found(n) :
              /\ att' = [att EXCEPT ![a].call = n, ![a].answered = TRUE, ![a].open = TRUE]
              /\ loop' = [pc |-> "answer", att |-> a]
    /\ UNCHANGED <<commands, wire, link, back, reader, errorChan, closed, faults, phone, results,
                   oda, main>>

\* ... the record, if the dial has returned, and ODA, if that is configured ...
LoopEmits ==
    /\ loop.pc = "answer"
    /\ IF MayEmit(att[loop.att])
         THEN EmitResult(Record(loop.att, "answered")) /\ loop' = [loop EXCEPT !.pc = "mark"]
         ELSE loop' = [loop EXCEPT !.pc = "ask"] /\ UNCHANGED <<results, faults>>
    /\ UNCHANGED <<commands, wire, link, reading, closed, phone, att, oda, main>>

LoopMarks ==
    /\ loop.pc = "mark"
    /\ MarkEmitted(loop.att)
    /\ loop' = [loop EXCEPT !.pc = "ask"]
    /\ UNCHANGED <<client, phone, results, oda, main>>

\* ... once, and only after DIA has completed.
LoopAsks ==
    /\ loop.pc = "ask" /\ loop' = [pc |-> "idle", att |-> 0]
    /\ oda' = IF waitForODA /\ oda[loop.att] = "ready"
              THEN [oda EXCEPT ![loop.att] = "asked"] ELSE oda
    /\ UNCHANGED <<client, phone, att, results, main>>

\* CALL_CLOSED: StateClosed and the record ...
OnClosed ==
    /\ NextEvent("closed")
    /\ LET n == Head(eventChan).call IN
       IF Found(n) = {} THEN UNCHANGED <<att, loop, results, faults>>
       ELSE \E a \in Found(n) :
              /\ att' = [att EXCEPT ![a].call = n, ![a].open = FALSE]
              /\ loop' = [pc |-> "cleanup", att |-> a]
              /\ EmitResult(Record(a, "closed"))
    /\ UNCHANGED <<commands, wire, link, back, reader, errorChan, closed, phone, oda, main>>

\* ... Cleanup and RemoveSession.
CleansUp ==
    /\ loop.pc = "cleanup" /\ loop' = [pc |-> "idle", att |-> 0]
    /\ att' = [att EXCEPT ![loop.att].reg = FALSE]
    /\ UNCHANGED <<client, phone, results, oda, main>>

\* A read error is logged; a closed channel, or Stop, ends the loop, which looks at both
\* channels in no order.
TakesError ==
    /\ loop.pc = "idle" /\ errorChan # <<>>
    /\ errorChan' = Tail(errorChan)
    /\ UNCHANGED <<commands, wire, link, back, reader, eventChan, closed, faults, phone, control,
                   main>>

LoopEnds ==
    /\ loop.pc = "idle"
    /\ closed \/ (reader = "stopped" /\ (errorChan = <<>> \/ eventChan = <<>>))
    /\ loop' = [loop EXCEPT !.pc = "ended"]
    /\ UNCHANGED <<client, phone, att, results, oda, main>>
-----------------------------------------------------------------------------
(* DIA and ODA, as far as the experiment sees them: RUA may complete, in the integrated  *)
(* mode; ODA's record comes first, then the hangup.                                      *)

\* Whichever of the answer and the end of RUA comes last asks for ODA.  (DIAComplete is set
\* before AnsweredAt is read, and AnsweredAt before DIAComplete in the event loop: one of
\* them sees both, and ODARequestScheduled lets one ask.)
RuaCompletes(a) ==
    /\ exp.dia /\ a <= runner.att /\ oda[a] = "off"
    /\ att' = [att EXCEPT ![a].open = TRUE]
    /\ oda' = [oda EXCEPT ![a] = IF waitForODA /\ att[a].answered THEN "asked" ELSE "ready"]
    /\ UNCHANGED <<client, phone, results, loop, main>>

OdaRecords(a) ==
    /\ oda[a] = "asked"
    /\ EmitResult(Record(a, "oda"))
    /\ oda' = [oda EXCEPT ![a] = "hangup"]
    /\ UNCHANGED <<commands, wire, link, reading, closed, phone, att, loop, main>>

\* A session that is cleaned up first gives none.
OdaDropped(a) ==
    /\ oda[a] = "asked" /\ ~att[a].reg
    /\ oda' = [oda EXCEPT ![a] = "over"]
    /\ UNCHANGED <<client, phone, att, results, loop, main>>

OdaHangsUp(a) ==
    /\ oda[a] = "hangup"
    /\ Issue("oda", "hangup", att[a].call)
    /\ oda' = [oda EXCEPT ![a] = "wait"]
    /\ UNCHANGED <<wire, link, reading, closed, faults, phone, att, results, loop, main>>

OdaReturns(a) ==
    /\ oda[a] = "wait" /\ cmd["oda"].pc = "done"
    /\ cmd' = [cmd EXCEPT !["oda"] = NoCommand]
    /\ oda' = [oda EXCEPT ![a] = "over"]
    /\ UNCHANGED <<tokens, pending, wire, link, reading, closed, faults, phone, att, results,
                   loop, main>>
-----------------------------------------------------------------------------
Rest == UNCHANGED <<phone, control, main>>

Baresip == HandleCommand \/ Respond
Callee == \E n \in Callees : Answered(n) \/ Ended(n)
Client == (ReaderSteps \/ \E c \in Callers : CallerSteps(c)) /\ Rest
Faults == (LoseLink \/ Garble) /\ Rest
Run == StartOne \/ Dialled \/ DialerEmits \/ DialerMarks \/ InitiateReturns
           \/ TakeResult \/ HangupCall \/ HangupReturns \/ HandleResult \/ Stop
Loop == OnOutgoing \/ OnAnswered \/ LoopEmits \/ LoopMarks \/ LoopAsks \/ OnClosed \/ CleansUp
            \/ TakesError \/ LoopEnds
OdaSteps(a) == OdaRecords(a) \/ OdaDropped(a) \/ OdaHangsUp(a) \/ OdaReturns(a)
ODA(a) == RuaCompletes(a) \/ OdaSteps(a)

Next == Baresip \/ Callee \/ Client \/ Faults \/ Run \/ Loop \/ \E a \in Attempts : ODA(a)

Spec == Init /\ [][Next]_evars

\* Goroutines run on, baresip answers its commands, a ringing call is answered or ends,
\* and ODA, once asked for, gets its answer or its timeout.  DIA owes nothing: it may fail,
\* or wait for a peer that has none.
Fairness ==
    /\ WF_evars(HandleCommand) /\ WF_evars(Respond)
    /\ \A c \in Callers : WF_evars(CallerSteps(c) /\ Rest)
    /\ WF_evars(ReaderSteps /\ Rest) /\ WF_evars(Run) /\ WF_evars(Loop)
    /\ \A a \in Attempts : WF_evars(OdaSteps(a))
    /\ WF_evars(\E n \in Callees : calls[n].state = "ringing" /\ (Answered(n) \/ Ended(n)))

FairSpec == Spec /\ Fairness
-----------------------------------------------------------------------------
(* Properties. *)

TypeOK ==
    /\ ClientTypeOK
    /\ exp \in Experiments
    /\ calls \in Seq([state : {"ringing", "up", "over"}, att : Attempts])
    /\ att \in [Attempts -> [reg : BOOLEAN, open : BOOLEAN, call : 0 .. Len(calls),
                             sent : BOOLEAN, answered : BOOLEAN, emitted : BOOLEAN]]
    /\ results \in Seq([att : Attempts, outcome : {"answered", "oda", "closed", "error"}])
    /\ runner.started \in 0 .. exp.runs /\ runner.completed \in 0 .. runner.started
    /\ inFlight \in [Attempts -> [here : BOOLEAN, answered : BOOLEAN, oda : BOOLEAN,
                                  terminal : BOOLEAN, pending : BOOLEAN, hangup : BOOLEAN]]
    /\ Cardinality({a \in Attempts : inFlight[a].here}) = runner.started - runner.completed
    /\ oda \in [Attempts -> {"off", "ready", "asked", "hangup", "wait", "over"}]

\* Where a final record of an attempt may still come from: the channel, the runner's
\* hands, or its session, whose call has a closing to come.
OnItsWay(a) ==
    \/ \E i \in DOMAIN results : results[i].att = a /\ Completes(results[i].outcome)
    \/ runner.res # <<>> /\ runner.res.att = a /\ Completes(Outcome)
    \/ /\ att[a].reg
       /\ \E n \in Callees :
             /\ calls[n].att = a
             /\ \/ calls[n].state # "over"
                \/ Event("closed", n) \in {back[i] : i \in DOMAIN back}
                                           \cup {eventChan[i] : i \in DOMAIN eventChan}

\* main.go:494: unless baresip, the connection or a full channel fails it, the runner never
\* waits for an attempt whose end has been reported, or will not be.
NothingIsForgotten ==
    faults = 0 => \A a \in Attempts : inFlight[a].here => OnItsWay(a)

\* main.go:437 to 490, though the answer is reported by two goroutines and results come in
\* any order: of each kind an attempt has at most one row; ODA comes after the setup, and a
\* row for the end of the call only if there is none for the call.
RowsInOrder ==
    \A i, j \in DOMAIN rows : (i < j /\ rows[i].att = rows[j].att)
        => rows[i].outcome = "answered" /\ rows[j].outcome = "oda"

\* With ODA configured the runner hangs nothing up, whatever the mode is (main.go:380, :432),
\* and without DIA there is no ODA: an answered call whose RUA does not complete is left to
\* the far end.
WaitsForDia ==
    waitForODA /\ \E a \in Attempts :
        /\ inFlight[a].here /\ oda[a] = "off"
        /\ \E n \in Callees : calls[n].att = a /\ calls[n].state = "up"

\* main.go:391 to 524: unless something fails, the experiment ends, or stays with an answered
\* call that has no ODA because its DIA does not complete.
ExperimentEnds ==
    \/ <>(runner.pc \in {"done", "aborted"} \/ faults # 0)
    \/ <>[]WaitsForDia
-----------------------------------------------------------------------------
(* What comments say; the code does not keep it. *)

\* controller.go:1633 "Always emit a close event for experiments so callers can wait for
\* the call to actually tear down before starting the next attempt.": with ODA the runner
\* does not wait for it, and the next attempt is refused.  (Without it too, when the dialling
\* goroutine or DIA sets the state of a session that was closed and is being removed.)
WaitsForTearDown == Runner("aborted") => faults # 0

\* main.go:430 "For non-ODA experiments, end answered calls so the attempt reaches CLOSED and
\* the process exits after n runs": a baseline experiment has no ODA, but where ODA
\* attributes and a delay are configured its calls are not ended.
ExitsAfterRuns == ~exp.dia => <>(runner.pc \in {"done", "aborted"} \/ faults # 0)

\* main.go:455 "Ensure the call setup row is written first.": an ODA record that comes
\* first completes the attempt, and neither row is written.
PendingRowIsWritten ==
    \A a \in Attempts : (~inFlight[a].here /\ a <= runner.att /\ runner.pc = "done")
        => \E i \in DOMAIN rows : rows[i].att = a
=============================================================================
