--------------------------- MODULE TeardownProofs ---------------------------
(***************************************************************************)
(* That the five ends of a session of Teardown exclude each other in the    *)
(* part of Cleanup that holds the mutex, and free the state of libdia once. *)
(***************************************************************************)
EXTENDS Teardown, TLAPS

Places == {"off", "bye", "state", "timers", "lock", "wait", "over"}

Typed ==
    /\ mu \in Enders \cup {"free"}
    /\ ender \in [Enders -> Places]
    /\ freed \in Nat /\ diaState \in BOOLEAN

\* Who is past the lock holds it.
Exclusive == \A e \in Enders : At(e, "wait") <=> mu = e

\* The state is stored once, and counted when it is forgotten.
StoredOnce ==
    /\ dia = "start" => ~diaState /\ freed = 0
    /\ diaState => freed = 0
    /\ freed <= 1

\* No goroutine begins to end the session while it is ending it: the timer fires once, the
\* DIA goroutine fails once, and the callback is one.
EndsOnce ==
    /\ timer => At("timer", "off")
    /\ dia # "over" => At("dia", "off") /\ recv = "off"
    /\ recv # "reject" => At("callback", "off")

Inv == Typed /\ Exclusive /\ StoredOnce /\ EndsOnce
-----------------------------------------------------------------------------
LEMMA InitInv == Init => Inv
<1> SUFFICES ASSUME Init PROVE Inv
  OBVIOUS
<1> USE DEF Init, At, Enders, Places
<1>1. \A e \in Enders : ender[e] = "off" /\ e # mu
  OBVIOUS
<1>2. Typed BY DEF Typed
<1>3. Exclusive BY <1>1 DEF Exclusive
<1>4. StoredOnce BY DEF StoredOnce
<1>5. EndsOnce BY <1>1 DEF EndsOnce
<1> QED BY <1>2, <1>3, <1>4, <1>5 DEF Inv

\* The DIA goroutine stores the state once, and may begin one end.
LEMMA DiaKeeps == Inv /\ DIA => Inv'
<1> SUFFICES ASSUME Inv, DIA PROVE Inv'
  OBVIOUS
<1> USE DEF Inv, Typed, Exclusive, StoredOnce, EndsOnce, At, Moves, Enders, Places, fields,
            Unlocked
<1>1. CASE StoreState BY <1>1 DEF StoreState
<1>2. CASE DiaFails BY <1>2 DEF DiaFails
<1>3. CASE SetInProgress BY <1>3 DEF SetInProgress
<1>4. CASE StoreController BY <1>4 DEF StoreController
<1>5. CASE StartRelay BY <1>5 DEF StartRelay
<1> QED BY <1>1, <1>2, <1>3, <1>4, <1>5 DEF DIA

\* The callback is in Cleanup only while its handler rejects the call.
LEMMA CallbackKeeps == Inv /\ (Receives \/ RecvLoop) => Inv'
<1> SUFFICES ASSUME Inv, Receives \/ RecvLoop PROVE Inv'
  OBVIOUS
<1> USE DEF Inv, Typed, Exclusive, StoredOnce, EndsOnce, At, Moves, Enders, Places, fields,
            Unlocked, Callback
<1>1. CASE Receives BY <1>1 DEF Receives
<1>2. CASE LoopEnds BY <1>2 DEF LoopEnds
<1>3. CASE ChecksState BY <1>3 DEF ChecksState
<1>4. CASE ChecksFields BY <1>4 DEF ChecksFields
<1>5. CASE HandlesMessage BY <1>5 DEF HandlesMessage, Handles
<1>6. CASE SetsState BY <1>6 DEF SetsState
<1>7. CASE Rejected BY <1>7 DEF Rejected
<1> QED BY <1>1, <1>2, <1>3, <1>4, <1>5, <1>6, <1>7 DEF RecvLoop

\* Nobody begins to end the session with the mutex in hand.
LEMMA BeginningsKeep ==
    Inv /\ (CallClosed \/ SendsBye \/ TimeoutFires \/ Stops \/ CloseReturns) => Inv'
<1> SUFFICES ASSUME Inv, CallClosed \/ SendsBye \/ TimeoutFires \/ Stops \/ CloseReturns
             PROVE Inv'
  OBVIOUS
<1> USE DEF Inv, Typed, Exclusive, StoredOnce, EndsOnce, At, Moves, Enders, Places, fields
<1>1. CASE CallClosed BY <1>1 DEF CallClosed
<1>2. CASE SendsBye BY <1>2 DEF SendsBye
<1>3. CASE TimeoutFires BY <1>3 DEF TimeoutFires
<1>4. CASE Stops BY <1>4 DEF Stops
<1>5. CASE CloseReturns BY <1>5 DEF CloseReturns
<1> QED BY <1>1, <1>2, <1>3, <1>4, <1>5

\* The mutex is taken when free and given back by its holder, who forgets the state it closed.
LEMMA CleanupKeeps == ASSUME NEW e \in Enders PROVE Inv /\ Ends(e) => Inv'
<1> SUFFICES ASSUME Inv, Ends(e) PROVE Inv'
  OBVIOUS
<1> USE DEF Inv, Typed, Exclusive, StoredOnce, EndsOnce, At, Moves, Places, fields, Unlocked
<1>0. e # "free" /\ "timer" \in Enders /\ "dia" \in Enders /\ "callback" \in Enders
  BY DEF Enders
<1>1. CASE SetsClosed(e) BY <1>0, <1>1 DEF SetsClosed
<1>2. CASE CancelsTimers(e) BY <1>0, <1>2 DEF CancelsTimers
<1>3. CASE Locks(e)
  <2>0. \A d \in Enders : ~At(d, "wait")
    <3>1. mu = "free" BY <1>3 DEF Locks
    <3> QED BY <3>1 DEF Enders
  <2>1. \A d \in Enders : At(d, "wait")' <=> d = e
    BY <1>3, <2>0 DEF Locks
  <2>2. Typed' /\ Exclusive' BY <1>0, <1>3, <2>1 DEF Locks
  <2>3. StoredOnce' /\ EndsOnce' BY <1>0, <1>3 DEF Locks
  <2> QED BY <2>2, <2>3
<1>4. CASE Releases(e)
  <2>1. \A d \in Enders : ~At(d, "wait")'
    BY <1>0, <1>4 DEF Releases
  <2>2. freed' \in Nat /\ freed' <= 1 /\ diaState' = FALSE
    <3>1. CASE diaState BY <1>4, <3>1 DEF Releases, ForgetState
    <3>2. CASE ~diaState BY <1>4, <3>2 DEF Releases, ForgetState
    <3> QED BY <3>1, <3>2
  <2>3. Typed' BY <1>4, <2>2 DEF Releases
  <2>4. Exclusive'
    <3>1. mu' = "free" BY <1>4 DEF Releases
    <3> QED BY <3>1, <2>1 DEF Enders
  <2>5. StoredOnce' /\ EndsOnce' BY <1>0, <1>4, <2>2 DEF Releases, ForgetState
  <2> QED BY <2>3, <2>4, <2>5
<1> QED BY <1>1, <1>2, <1>3, <1>4 DEF Ends

\* Inv is an invariant of every step.
LEMMA StepInv == Inv /\ [Next]_vars => Inv'
<1> SUFFICES ASSUME Inv, [Next]_vars PROVE Inv'
  OBVIOUS
<1>1. CASE UNCHANGED vars
  BY <1>1 DEF Inv, Typed, Exclusive, StoredOnce, EndsOnce, At, vars, fields
<1>2. CASE Next
  BY <1>2, DiaKeeps, CallbackKeeps, BeginningsKeep, CleanupKeeps DEF Next
<1> QED BY <1>1, <1>2

\* callmanager.go:171: whatever the order in which the event loop, the DIA timer, Stop, the
\* DIA goroutine and the callback end a session, for any number of messages, the state of
\* libdia is closed at most once, by who holds the mutex.
THEOREM StateFreedOnce == Spec => []FreedOnce
<1>1. Inv => FreedOnce
  BY DEF Inv, StoredOnce, Exclusive, FreedOnce
<1> QED BY InitInv, StepInv, <1>1, PTL DEF Spec
=============================================================================
