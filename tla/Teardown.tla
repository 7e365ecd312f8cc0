------------------------------ MODULE Teardown ------------------------------
(***************************************************************************)
(* The end of one CallSession: CallSession.Cleanup of callmanager.go, called*)
(* by the event loop, the DIA timer, Controller.Stop, the DIA goroutine and *)
(* the relay callback, while that callback handles messages.  Cleanup holds *)
(* the session's mutex while it waits for the relay session to close, the   *)
(* relay session closes when its loop ends, and the callback, which runs on *)
(* that loop, needs the mutex.                                              *)
(***************************************************************************)
EXTENDS Naturals

CONSTANT MaxMessages    \* bound: messages the relay delivers

ASSUME BoundAssumption == MaxMessages \in Nat

VARIABLES
    incoming,     \* direction of the call
    mu,           \* CallSession.mu: its holder, or "free"
    closed,       \* state = StateClosed
    diaState,     \* DIAState is set ...
    controller,   \* ... and so is DIAController
    freed,        \* how often DIAState.Close was called
    relay,        \* the relay session: none, open, closing (Close waits), closed
    recv,         \* its tunnelLoop, and the callback on it
    dia,          \* runIncomingDIA, runOutgoingDIA
    timer,        \* the DIA timer of an incoming call has neither fired nor been stopped
    ender,        \* per goroutine that ends the session: where it is
    messages,
    panicked      \* a nil field was used: the process is gone

fields == <<diaState, controller, freed>>
vars == <<incoming, mu, closed, fields, relay, recv, dia, timer, ender, messages, panicked>>

Enders == {"loop", "timer", "stop", "dia", "callback"}

Init ==
    /\ incoming \in BOOLEAN
    /\ mu = "free"
    /\ closed = FALSE
    /\ diaState = FALSE /\ controller = FALSE
    /\ freed = 0
    /\ relay = "none"
    /\ recv = "off"
    /\ dia = "start"
    /\ timer = incoming
    /\ ender = [e \in Enders |-> "off"]
    /\ messages = 0
    /\ panicked = FALSE

At(e, place) == ender[e] = place
Moves(e, place) == ender' = [ender EXCEPT ![e] = place]

\* A step that takes the mutex and gives it back.
Unlocked == mu = "free" /\ UNCHANGED mu

\* The fields are used unlocked, long after the check that they are there.
UsesFields == panicked' = ~(diaState /\ controller)
-----------------------------------------------------------------------------
(* The DIA goroutine. *)

StoreState ==
    /\ dia = "start" /\ dia' = "init"
    /\ diaState' = TRUE
    /\ UNCHANGED <<incoming, timer, mu, closed, controller, freed, relay, recv, ender, messages,
                   panicked>>

\* An error of DIA: the recipient rejects the call, the caller gives up.
DiaFails ==
    /\ dia \in {"init", "made"} /\ dia' = "over"
    /\ IF incoming THEN Moves("dia", "state") ELSE UNCHANGED ender
    /\ UNCHANGED <<incoming, timer, mu, closed, fields, relay, recv, messages, panicked>>

\* SetState, then the relay session is made ...
SetInProgress ==
    /\ dia = "init" /\ dia' = "made"
    /\ Unlocked
    /\ closed' = FALSE
    /\ UNCHANGED <<incoming, timer, fields, relay, recv, ender, messages, panicked>>

StoreController ==
    /\ dia = "made" /\ dia' = "run"
    /\ controller' = TRUE
    /\ relay' = "open"
    /\ UNCHANGED <<incoming, timer, mu, closed, diaState, freed, recv, ender, messages, panicked>>

\* ... and started, unless it has been closed.
StartRelay ==
    /\ dia = "run" /\ dia' = "over"
    /\ recv' = IF relay = "open" THEN "recv" ELSE recv
    /\ UNCHANGED <<incoming, timer, mu, closed, fields, relay, ender, messages, panicked>>
-----------------------------------------------------------------------------
(* The loop of the relay session, and handleDIAMessage on it. *)

Callback(from, to) == recv = from /\ recv' = to

Receives ==
    /\ messages < MaxMessages /\ messages' = messages + 1
    /\ Callback("recv", "state")
    /\ UNCHANGED <<incoming, timer, mu, closed, fields, relay, dia, ender, panicked>>

\* Recv on a cancelled stream fails.
LoopEnds ==
    /\ relay = "closing" /\ Callback("recv", "ended")
    /\ UNCHANGED <<incoming, timer, mu, closed, fields, relay, dia, ender, messages, panicked>>

\* GetState ...
ChecksState ==
    /\ Unlocked
    /\ Callback("state", IF closed THEN "recv" ELSE "fields")
    /\ UNCHANGED <<incoming, timer, closed, fields, relay, dia, ender, messages, panicked>>

\* ... and the nil checks.
ChecksFields ==
    /\ Callback("fields", IF diaState /\ controller THEN "use" ELSE "recv")
    /\ UNCHANGED <<incoming, timer, mu, closed, fields, relay, dia, ender, messages, panicked>>

\* The handler: an error rejects an incoming call, some messages end in SetState, after
\* which the fields may be used again.
Handles(from, next) ==
    /\ UsesFields
    /\ \E to \in next : Callback(from, to)
    /\ IF recv' = "reject" THEN incoming /\ Moves("callback", "state") ELSE UNCHANGED ender
    /\ UNCHANGED <<incoming, timer, mu, closed, fields, relay, dia, messages>>

HandlesMessage == Handles("use", {"recv", "reject", "set"}) \/ Handles("last", {"recv", "reject"})

\* SetState overwrites StateClosed.
SetsState ==
    /\ Unlocked
    /\ \E to \in {"recv", "last"} : Callback("set", to)
    /\ closed' = FALSE
    /\ UNCHANGED <<incoming, timer, fields, relay, dia, ender, messages, panicked>>

\* rejectCall returns to the handler.
Rejected ==
    /\ At("callback", "over") /\ Moves("callback", "off")
    /\ Callback("reject", "recv")
    /\ UNCHANGED <<incoming, timer, mu, closed, fields, relay, dia, messages, panicked>>
-----------------------------------------------------------------------------
(* The ends: handleCallClosed, handleDIATimeout, Stop, and rejectCall. *)

CallClosed ==
    /\ At("loop", "off")
    /\ Moves("loop", IF diaState /\ controller THEN "bye" ELSE "state")
    /\ UNCHANGED <<incoming, timer, mu, closed, fields, relay, recv, dia, messages, panicked>>

SendsBye ==
    /\ At("loop", "bye") /\ Moves("loop", "state")
    /\ UsesFields
    /\ UNCHANGED <<incoming, timer, mu, closed, fields, relay, recv, dia, messages>>

\* The hangup of rejectCall comes first.
TimeoutFires ==
    /\ timer /\ timer' = FALSE
    /\ Moves("timer", "state")
    /\ UNCHANGED <<incoming, mu, closed, fields, relay, recv, dia, messages, panicked>>

\* Stop calls Cleanup alone.
Stops ==
    /\ At("stop", "off") /\ Moves("stop", "timers")
    /\ UNCHANGED <<incoming, timer, mu, closed, fields, relay, recv, dia, messages, panicked>>

\* SetState(StateClosed).
SetsClosed(e) ==
    /\ At(e, "state") /\ Moves(e, "timers")
    /\ Unlocked
    /\ closed' = TRUE
    /\ UNCHANGED <<incoming, timer, fields, relay, recv, dia, messages, panicked>>
-----------------------------------------------------------------------------
(* Cleanup. *)

\* CancelTimeout and CancelODATimeout.
CancelsTimers(e) ==
    /\ At(e, "timers") /\ Moves(e, "lock")
    /\ Unlocked
    /\ timer' = FALSE
    /\ UNCHANGED <<incoming, closed, fields, relay, recv, dia, messages, panicked>>

\* The mutex; DIAController.Close on a goroutine of its own.
Locks(e) ==
    /\ At(e, "lock") /\ Moves(e, "wait")
    /\ mu = "free" /\ mu' = e
    /\ relay' = IF controller /\ relay = "open" THEN "closing" ELSE relay
    /\ UNCHANGED <<incoming, timer, closed, fields, recv, dia, messages, panicked>>

\* Close returns when the loop has ended.
CloseReturns ==
    /\ relay = "closing" /\ recv \in {"off", "ended"}
    /\ relay' = "closed"
    /\ UNCHANGED <<incoming, timer, mu, closed, fields, recv, dia, ender, messages, panicked>>

\* Its end, or 500 ms.  (Faulty variant: only its end.)
WaitsForClose == controller => relay = "closed"
WaitEnds == TRUE

\* DIAState is closed and forgotten.  (Faulty variant: it is not forgotten.)
KeepState == UNCHANGED diaState
ForgetState == diaState' = FALSE

Releases(e) ==
    /\ At(e, "wait") /\ Moves(e, "over")
    /\ WaitEnds
    /\ controller' = FALSE
    /\ freed' = IF diaState THEN freed + 1 ELSE freed
    /\ ForgetState
    /\ mu' = "free"
    /\ UNCHANGED <<incoming, timer, closed, relay, recv, dia, messages, panicked>>
-----------------------------------------------------------------------------
DIA == StoreState \/ DiaFails \/ SetInProgress \/ StoreController \/ StartRelay
RecvLoop == LoopEnds \/ ChecksState \/ ChecksFields \/ HandlesMessage \/ SetsState \/ Rejected
Ends(e) == SetsClosed(e) \/ CancelsTimers(e) \/ Locks(e) \/ Releases(e)

Alive == ~panicked
Next == /\ Alive
        /\ \/ DIA \/ Receives \/ RecvLoop \/ CallClosed \/ SendsBye \/ TimeoutFires \/ Stops
           \/ CloseReturns \/ \E e \in Enders : Ends(e)

Spec == Init /\ [][Next]_vars

\* Goroutines run on, and Recv on a cancelled stream fails; no message and no end of the
\* call has to come.
Fairness ==
    /\ WF_vars(Alive /\ DIA) /\ WF_vars(Alive /\ RecvLoop)
    /\ WF_vars(Alive /\ SendsBye) /\ WF_vars(Alive /\ CloseReturns)
    /\ \A e \in Enders : WF_vars(Alive /\ Ends(e))

FairSpec == Spec /\ Fairness
-----------------------------------------------------------------------------
(* Properties. *)

\* callmanager.go:151 to 175: whoever ends the session, the callback included, gets through
\* Cleanup; and the relay session it closes does close, though the callback may have been
\* waiting for the mutex, or have called Cleanup.
TearsDown ==
    /\ \A e \in Enders : ~At(e, "off") ~> ender[e] \in {"off", "over"} \/ panicked
    /\ relay = "closing" ~> relay = "closed" \/ panicked

\* callmanager.go:171: the five may end the session at once; the state of libdia is closed
\* once, and by who holds the mutex.
FreedOnce ==
    /\ freed <= 1
    /\ \A e \in Enders : At(e, "wait") <=> mu = e
-----------------------------------------------------------------------------
(* What a check in the code says; the code does not keep it. *)

\* controller.go:847 "if session.DIAState == nil || session.DIAController == nil" (and
\* controller.go:1620): the fields are there when they are used.  Cleanup sets them to nil
\* while the callback waits for its mutex.
FieldsAreThere == ~panicked
=============================================================================
