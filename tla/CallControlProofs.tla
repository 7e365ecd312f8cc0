-------------------------- MODULE CallControlProofs --------------------------
(* Theorems about CallControl, for every number of peers, attempts and calls,  *)
(* every set of emitted events, and with or without DIA.                      *)
EXTENDS CallControl, SequenceTheorems, TLAPS

USE DEF mgr, index, procs, bare, ghost, vars

\* What the goroutines and the commands work on: the dialling goroutine and the event
\* loop hold an attempt, or a call, where they use one; a command is about a dialled
\* attempt or a call; a DIA goroutine has a session; a session that has a timer, a
\* scheduled hangup or reached the gate came with a call.
Held ==
    /\ dialer.pc \notin {"idle", "refuse", "create"} => dialer.att \in Attempts
    /\ loop.pc \in {"emit", "closed"} => loop.att \in Attempts
    /\ loop.pc \in {"incoming", "create"} => loop.call \in Calls

Written ==
    \A i \in DOMAIN cmds : cmds[i].n \in IF cmds[i].op = "dial" THEN Attempts ELSE Calls

Rooted ==
    \A a \in Attempts :
       /\ a > counter => dia[a] = "off"
       /\ sess[a].dir = "incoming" => sess[a].call # 0
       /\ sess[a].timer # "off" \/ sess[a].hangup = "due" \/ dia[a] = "gate"
             => sess[a].dir = "incoming"

TypeInv == TypeOK /\ Held /\ Written /\ Rooted
-----------------------------------------------------------------------------
(* Sessions, queues, events and commands. *)

\* A new session.
LEMMA NewSessionType ==
    ASSUME NEW p \in Peers, NEW dir \in {"outgoing", "incoming"}, NEW proto \in BOOLEAN,
           NEW c \in 0 .. MaxCalls
    PROVE  NewCallSession(p, dir, proto, c) \in Session
BY DEF NewCallSession, Session

\* What ends a session leaves it one, and changes neither whose it is nor its call.
LEMMA EndSessionType ==
    ASSUME NEW s \in Session
    PROVE  /\ TimerCancelled(s) \in Session /\ CleanedUp(s) \in Session /\ Closed(s) \in Session
           /\ \A t \in {TimerCancelled(s), CleanedUp(s), Closed(s)} :
                 /\ t.peer = s.peer /\ t.dir = s.dir /\ t.call = s.call /\ t.hangup = s.hangup
                 /\ t.timer # "off" => s.timer # "off"
<1>1. /\ TimerCancelled(s) \in Session
      /\ TimerCancelled(s).peer = s.peer /\ TimerCancelled(s).dir = s.dir
      /\ TimerCancelled(s).call = s.call /\ TimerCancelled(s).hangup = s.hangup
      /\ TimerCancelled(s).timer # "off" => s.timer # "off"
  BY DEF TimerCancelled, Session
<1>2. ASSUME NEW t \in Session
      PROVE  LET u == [t EXCEPT !.ctrl = CASE @ = "state" -> "none"
                                           [] @ \in {"open", "deaf"} -> "released"
                                           [] OTHER -> @]
             IN  /\ u \in Session /\ u.peer = t.peer /\ u.dir = t.dir /\ u.call = t.call
                 /\ u.hangup = t.hangup /\ u.timer = t.timer
  BY DEF Session
<1>3. /\ Closed(s) \in Session /\ Closed(s).peer = s.peer /\ Closed(s).dir = s.dir
      /\ Closed(s).call = s.call /\ Closed(s).hangup = s.hangup /\ Closed(s).timer = s.timer
  BY DEF Closed, Session
<1> QED
  BY <1>1, <1>2, <1>3 DEF CleanedUp

\* The filter of RemoveSession closes the gap a leaves.
LEMMA NotPendingPlaces ==
    ASSUME NEW q \in Seq(Attempts), NEW a, \E i \in DOMAIN q : q[i] = a
    PROVE  \E k \in 1 .. Len(q) :
              /\ q[k] = a
              /\ NotPending(q, a) \in Seq(Attempts)
              /\ Len(NotPending(q, a)) = Len(q) - 1
              /\ \A i \in 1 .. Len(q) - 1 :
                    NotPending(q, a)[i] = IF i < k THEN q[i] ELSE q[i + 1]
<1> DEFINE k == CHOOSE i \in DOMAIN q : q[i] = a
           before == SubSeq(q, 1, k - 1)
           after == SubSeq(q, k + 1, Len(q))
<1>1. NotPending(q, a) = before \o after
  BY Zenon DEF NotPending
<1>2. k \in 1 .. Len(q) /\ q[k] = a
  OBVIOUS
<1> HIDE DEF k
<1>3. /\ before \in Seq(Attempts) /\ Len(before) = k - 1
      /\ \A i \in 1 .. k - 1 : before[i] = q[i]
  BY <1>2
<1>4. /\ after \in Seq(Attempts) /\ Len(after) = Len(q) - k
      /\ \A i \in 1 .. Len(q) - k : after[i] = q[k + i]
  BY <1>2
<1> HIDE DEF before, after
<1>5. /\ before \o after \in Seq(Attempts)
      /\ Len(before \o after) = Len(q) - 1
      /\ \A i \in 1 .. Len(before) + Len(after) :
            (before \o after)[i] = IF i <= Len(before) THEN before[i] ELSE after[i - Len(before)]
  <2>1. Len(before \o after) = Len(before) + Len(after)
    BY <1>3, <1>4, ConcatProperties
  <2>2. Len(before) + Len(after) = Len(q) - 1
    BY <1>2, <1>3, <1>4
  <2> QED
    BY <1>3, <1>4, <2>1, <2>2, ConcatProperties
<1>6. ASSUME NEW i \in 1 .. Len(q) - 1
      PROVE  (before \o after)[i] = IF i < k THEN q[i] ELSE q[i + 1]
  <2>1. CASE i < k
    BY <2>1, <1>2, <1>3, <1>4, <1>5
  <2>2. CASE ~ i < k
    <3>1. i - Len(before) \in 1 .. Len(q) - k /\ k + (i - Len(before)) = i + 1
      BY <2>2, <1>2, <1>3
    <3>2. (before \o after)[i] = after[i - Len(before)]
      BY <2>2, <1>2, <1>3, <1>4, <1>5
    <3> QED
      BY <2>2, <3>1, <3>2, <1>4
  <2> QED
    BY <2>1, <2>2
<1>7. /\ NotPending(q, a) \in Seq(Attempts)
      /\ Len(NotPending(q, a)) = Len(q) - 1
      /\ \A i \in 1 .. Len(q) - 1 : NotPending(q, a)[i] = IF i < k THEN q[i] ELSE q[i + 1]
  BY <1>1, <1>5, <1>6
<1> QED
  BY <1>2, <1>7

\* It adds nothing to the queue.
LEMMA NotPendingType ==
    ASSUME NEW q \in Seq(Attempts), NEW a
    PROVE  /\ NotPending(q, a) \in Seq(Attempts)
           /\ \A i \in DOMAIN NotPending(q, a) : \E j \in DOMAIN q : q[j] = NotPending(q, a)[i]
<1>1. CASE \E i \in DOMAIN q : q[i] = a
  <2>1. PICK k \in 1 .. Len(q) :
              /\ q[k] = a
              /\ NotPending(q, a) \in Seq(Attempts)
              /\ Len(NotPending(q, a)) = Len(q) - 1
              /\ \A i \in 1 .. Len(q) - 1 :
                    NotPending(q, a)[i] = IF i < k THEN q[i] ELSE q[i + 1]
    BY <1>1, NotPendingPlaces
  <2> DEFINE new == NotPending(q, a)
  <2> HIDE DEF new
  <2>2. ASSUME NEW i \in DOMAIN new
        PROVE  \E j \in DOMAIN q : q[j] = new[i]
    <3>1. i \in 1 .. Len(q) - 1 /\ i \in DOMAIN q /\ i + 1 \in DOMAIN q
      BY <2>1 DEF new
    <3> QED
      BY <2>1, <3>1 DEF new
  <2> QED
    BY <2>1, <2>2 DEF new
<1>2. CASE ~ \E i \in DOMAIN q : q[i] = a
  BY <1>2 DEF NotPending
<1> QED
  BY <1>1, <1>2

\* If a waits once, it waits no more, and the others still wait once.
LEMMA NotPendingOnce ==
    ASSUME NEW q \in Seq(Attempts), NEW a,
           \A i, j \in DOMAIN q : q[i] = q[j] => i = j
    PROVE  LET new == NotPending(q, a)
           IN  /\ \A i \in DOMAIN new : new[i] # a
               /\ \A i, j \in DOMAIN new : new[i] = new[j] => i = j
<1>1. CASE \E i \in DOMAIN q : q[i] = a
  <2>1. PICK k \in 1 .. Len(q) :
              /\ q[k] = a
              /\ NotPending(q, a) \in Seq(Attempts)
              /\ Len(NotPending(q, a)) = Len(q) - 1
              /\ \A i \in 1 .. Len(q) - 1 :
                    NotPending(q, a)[i] = IF i < k THEN q[i] ELSE q[i + 1]
    BY <1>1, NotPendingPlaces
  <2> DEFINE new == NotPending(q, a)
  <2>2. DOMAIN new = 1 .. Len(q) - 1 /\ DOMAIN q = 1 .. Len(q) /\ Len(q) \in Nat
    BY <2>1
  <2>3. \A i \in 1 .. Len(q) - 1 : new[i] = IF i < k THEN q[i] ELSE q[i + 1]
    BY <2>1
  <2> HIDE DEF new
  <2>4. ASSUME NEW i \in DOMAIN new PROVE new[i] # a
    BY SMTT(30), <2>1, <2>2, <2>3
  <2>5. ASSUME NEW i \in DOMAIN new, NEW j \in DOMAIN new, new[i] = new[j] PROVE i = j
    BY SMTT(30), <2>2, <2>3, <2>5
  <2> QED
    BY <2>4, <2>5 DEF new
<1>2. CASE ~ \E i \in DOMAIN q : q[i] = a
  BY <1>2 DEF NotPending
<1> QED
  BY <1>1, <1>2

EventRecords == [kind : EventTypes, call : Calls]

\* At most one event, if baresip emits its kind.
LEMMA SignalType ==
    ASSUME NEW kind \in EventTypes, NEW c \in Calls
    PROVE  Signal(kind, c) \in Seq(EventRecords)
<1> DEFINE e == [kind |-> kind, call |-> c]
<1>1. e \in EventRecords
  BY DEF EventRecords
<1>2. Signal(kind, c) = IF kind \in Emits THEN <<e>> ELSE <<>>
  BY DEF Signal
<1> HIDE DEF e
<1> QED
  BY <1>1, <1>2

\* readLoop keeps the channel a sequence of events within its capacity.
LEMMA TellType ==
    ASSUME BareType, NEW told \in Seq(EventRecords), Tell(told)
    PROVE  events' \in Seq(EventRecords) /\ Len(events') <= EventCap
<1>1. events \o told \in Seq(EventRecords)
  BY DEF BareType, EventRecords
<1>2. ASSUME NEW q \in Seq(EventRecords)
      PROVE  Fits(q) \in Seq(EventRecords) /\ Len(Fits(q)) <= EventCap
  BY CallBoundAssumption DEF Fits
<1> QED
  BY <1>1, <1>2 DEF Tell

\* The event loop takes the first event.
LEMMA EventType ==
    ASSUME BareType, Ready
    PROVE  /\ Event \in EventRecords /\ Event.call \in Calls
           /\ events' = Tail(events) => events' \in Seq(EventRecords) /\ Len(events') <= EventCap
<1>1. events \in Seq(EventRecords) /\ events # <<>> /\ Len(events) <= EventCap
  BY DEF BareType, Ready, EventRecords
<1>2. /\ Head(events) \in EventRecords /\ Tail(events) \in Seq(EventRecords)
      /\ Len(Tail(events)) = Len(events) - 1
  BY <1>1
<1>3. Len(Tail(events)) <= EventCap
  BY <1>1, <1>2, CallBoundAssumption
<1>4. ASSUME NEW e \in EventRecords PROVE e.call \in Calls
  BY DEF EventRecords
<1> QED
  BY <1>2, <1>3, <1>4 DEF Event

\* A command is written: to dial an attempt, or about a call.
LEMMA SendType ==
    ASSUME BareType, Written, NEW op \in {"dial", "accept", "hangup"}, NEW n \in Nat, Send(op, n),
           n \in IF op = "dial" THEN Attempts ELSE Calls
    PROVE  /\ cmds' \in Seq([op : {"dial", "accept", "hangup"}, n : Nat])
           /\ Written'
<1> DEFINE new == [op |-> op, n |-> n]
<1>1. new \in [op : {"dial", "accept", "hangup"}, n : Nat] /\ new.op = op /\ new.n = n
  OBVIOUS
<1>2. cmds \in Seq([op : {"dial", "accept", "hangup"}, n : Nat]) /\ cmds' = Append(cmds, new)
  BY DEF BareType, Send
<1> HIDE DEF new
<1>3. /\ cmds' \in Seq([op : {"dial", "accept", "hangup"}, n : Nat])
      /\ DOMAIN cmds' = 1 .. Len(cmds) + 1
      /\ \A i \in DOMAIN cmds' : cmds'[i] = IF i <= Len(cmds) THEN cmds[i] ELSE new
  BY <1>1, <1>2
<1> QED
  BY <1>1, <1>2, <1>3 DEF Written, Send

\* A command is taken by baresip.
LEMMA TakeType ==
    ASSUME BareType, Written, cmds # <<>>, cmds' = Tail(cmds)
    PROVE  /\ Head(cmds).n \in IF Head(cmds).op = "dial" THEN Attempts ELSE Calls
           /\ cmds' \in Seq([op : {"dial", "accept", "hangup"}, n : Nat])
           /\ Written'
<1>1. cmds \in Seq([op : {"dial", "accept", "hangup"}, n : Nat])
  BY DEF BareType
<1>2. /\ Head(cmds) = cmds[1] /\ 1 \in DOMAIN cmds
      /\ cmds' \in Seq([op : {"dial", "accept", "hangup"}, n : Nat])
      /\ \A i \in DOMAIN cmds' : i + 1 \in DOMAIN cmds /\ cmds'[i] = cmds[i + 1]
  BY <1>1
<1> QED
  BY <1>2 DEF Written
-----------------------------------------------------------------------------
(* The manager. *)

\* NewOutgoingAttempt: the next attempt ID, with a fresh session under it.
LEMMA RegisterType ==
    ASSUME MgrType, NEW p \in Peers, NEW proto \in DialModes, RegisterOutgoing(p, proto)
    PROVE  /\ MgrType'
           /\ counter + 1 \in Attempts /\ counter' = counter + 1
           /\ sess'[counter + 1] = NewCallSession(p, "outgoing", proto, 0)
           /\ \A a \in Attempts : a # counter + 1 => sess'[a] = sess[a]
<1>1. counter + 1 \in Attempts
  BY CallBoundAssumption DEF RegisterOutgoing, MgrType, Attempts
<1>2. NewCallSession(p, "outgoing", proto, 0) \in Session
  BY DialAssumption, CallBoundAssumption, NewSessionType
<1>3. sess' \in [Attempts -> Session]
  BY <1>1, <1>2 DEF RegisterOutgoing, MgrType
<1>4. pendingByPeer' \in [Peers -> Seq(Attempts)]
  BY <1>1 DEF RegisterOutgoing, MgrType
<1>5. /\ counter' \in 0 .. MaxAttempts /\ byAttempt' \subseteq 1 .. counter'
      /\ byCallID' \in [Calls -> 0 .. MaxAttempts]
  BY <1>1 DEF RegisterOutgoing, MgrType, Attempts
<1> QED
  BY <1>1, <1>3, <1>4, <1>5 DEF RegisterOutgoing, MgrType

\* RemoveSession leaves the indexes maps to attempts.
LEMMA RemoveType ==
    ASSUME MgrType, NEW a \in Attempts, RemoveSession(a), sess' \in [Attempts -> Session]
    PROVE  MgrType'
<1>1. byCallID' \in [Calls -> 0 .. MaxAttempts]
  BY CallBoundAssumption DEF RemoveSession, MgrType
<1>2. pendingByPeer' \in [Peers -> Seq(Attempts)]
  <2>1. sess[a].peer \in Peers
    BY DEF MgrType, Session
  <2>2. NotPending(pendingByPeer[sess[a].peer], a) \in Seq(Attempts)
    BY <2>1, NotPendingType DEF MgrType
  <2> QED
    BY <2>1, <2>2 DEF RemoveSession, MgrType
<1> QED
  BY <1>1, <1>2 DEF RemoveSession, MgrType, Unregistered

\* The session of an event is an attempt, or nil.
LEMMA ResolvedType ==
    ASSUME MgrType, BareType, NEW c \in Calls
    PROVE  /\ Resolved(c) \in 0 .. MaxAttempts
           /\ Resolved(c) # 0 => Resolved(c) \in Attempts
           /\ calls[c].peer \in Peers /\ Pending(c) \in Seq(Attempts)
           /\ Bindable(c) => Head(Pending(c)) \in Attempts /\ Tail(Pending(c)) \in Seq(Attempts)
<1>1. calls[c].peer \in Peers /\ Pending(c) \in Seq(Attempts)
  BY DEF MgrType, BareType, Call, Pending
<1>2. Bindable(c) => Head(Pending(c)) \in Attempts /\ Tail(Pending(c)) \in Seq(Attempts)
  BY <1>1 DEF Bindable
<1> QED
  BY <1>1, <1>2, CallBoundAssumption DEF Resolved, MgrType, Attempts

\* BindOutgoingCallID binds an attempt that waits.
LEMMA BindType ==
    ASSUME MgrType, BareType, NEW c \in Calls, Bindable(c), BindOutgoing(c)
    PROVE  /\ byCallID' \in [Calls -> 0 .. MaxAttempts]
           /\ pendingByPeer' \in [Peers -> Seq(Attempts)]
<1>1. /\ calls[c].peer \in Peers
      /\ Head(Pending(c)) \in Attempts /\ Tail(Pending(c)) \in Seq(Attempts)
  BY ResolvedType
<1>2. Head(Pending(c)) \in 0 .. MaxAttempts
  BY <1>1, CallBoundAssumption DEF Attempts
<1> QED
  BY <1>1, <1>2 DEF BindOutgoing, MgrType, Pending

\* A handler leaves the session it is about a session.
LEMMA HandlesType ==
    ASSUME MgrType, BareType, NEW c \in Calls, NEW s, Handles(c, s),
           Resolved(c) # 0 => s \in Session
    PROVE  /\ MgrType'
           /\ \A a \in Attempts : sess'[a] = IF a = Resolved(c) THEN s ELSE sess[a]
           /\ counter' = counter
<1>1. /\ sess' \in [Attempts -> Session]
      /\ \A a \in Attempts : sess'[a] = IF a = Resolved(c) THEN s ELSE sess[a]
  <2>1. CASE Resolved(c) = 0
    BY <2>1 DEF Handles, MgrType, Attempts
  <2>2. CASE Resolved(c) # 0
    BY <2>2, ResolvedType DEF Handles, MgrType
  <2> QED BY <2>1, <2>2
<1>2. /\ byCallID' \in [Calls -> 0 .. MaxAttempts]
      /\ pendingByPeer' \in [Peers -> Seq(Attempts)]
  BY BindType DEF Handles, Resolve, MgrType
<1> QED
  BY <1>1, <1>2 DEF Handles, Resolve, MgrType

\* With the call-id Resolve gives it.
LEMMA ResolvedSessionType ==
    ASSUME MgrType, BareType, NEW c \in Calls, Resolved(c) # 0
    PROVE  LET s == sess[Resolved(c)]
               t == ResolvedSession(c)
           IN  /\ t \in Session /\ t.call = c /\ t.peer = s.peer /\ t.dir = s.dir
               /\ t.timer = s.timer /\ t.hangup = s.hangup
<1>1. sess[Resolved(c)] \in Session
  BY ResolvedType DEF MgrType
<1>2. c \in 0 .. MaxCalls
  BY DEF Calls
<1> QED
  BY <1>1, <1>2 DEF ResolvedSession, Session

\* A field of a session is set.
LEMMA FieldType ==
    ASSUME NEW s \in Session, NEW b \in BOOLEAN
    PROVE  /\ [s EXCEPT !.closed = b] \in Session /\ [s EXCEPT !.dialled = b] \in Session
           /\ [s EXCEPT !.answered = b] \in Session /\ [s EXCEPT !.reported = b] \in Session
           /\ \A c \in 0 .. MaxCalls : [s EXCEPT !.call = c] \in Session
           /\ \A t \in {"off", "armed", "firing"} : [s EXCEPT !.timer = t] \in Session
           /\ \A t \in {"none", "state", "open", "deaf", "released"} :
                 [s EXCEPT !.ctrl = t] \in Session
           /\ \A t \in {"no", "due", "sent"} : [s EXCEPT !.hangup = t] \in Session
<1>1. [s EXCEPT !.closed = b] \in Session
  BY DEF Session
<1>2. [s EXCEPT !.dialled = b] \in Session
  BY DEF Session
<1>3. [s EXCEPT !.answered = b] \in Session
  BY DEF Session
<1>4. [s EXCEPT !.reported = b] \in Session
  BY DEF Session
<1>5. ASSUME NEW c \in 0 .. MaxCalls PROVE [s EXCEPT !.call = c] \in Session
  BY DEF Session
<1>6. ASSUME NEW t \in {"off", "armed", "firing"} PROVE [s EXCEPT !.timer = t] \in Session
  BY DEF Session
<1>7. ASSUME NEW t \in {"none", "state", "open", "deaf", "released"}
      PROVE  [s EXCEPT !.ctrl = t] \in Session
  BY DEF Session
<1>8. ASSUME NEW t \in {"no", "due", "sent"} PROVE [s EXCEPT !.hangup = t] \in Session
  BY DEF Session
<1> QED
  BY <1>1, <1>2, <1>3, <1>4, <1>5, <1>6, <1>7, <1>8

\* Session t may take the place of s: it is of the same attempt, has a call if it is
\* incoming, and nothing is pending if it is not.
Sound(t, s) ==
    /\ t \in Session /\ t.peer = s.peer /\ t.dir = s.dir
    /\ t.dir = "incoming" => t.call # 0
    /\ t.timer # "off" \/ t.hangup = "due" => t.dir = "incoming"

\* ... and is still bound as s is.
Same(t, s) == Sound(t, s) /\ t.call = s.call

\* One session changes, and the manager's maps do not.
LEMMA UpdateType ==
    ASSUME TypeInv, NEW a \in Attempts, NEW t, Sound(t, sess[a]),
           sess' = [sess EXCEPT ![a] = t], UNCHANGED index
    PROVE  MgrType' /\ (UNCHANGED dia => Rooted')
<1> USE DEF TypeInv, TypeOK
<1>1. MgrType'
  BY DEF MgrType, Sound
<1>2. ASSUME UNCHANGED dia PROVE Rooted'
  BY <1>2 DEF MgrType, Rooted, Sound
<1> QED
  BY <1>1, <1>2

\* The events' handlers: so does the session the event is about.
LEMMA HandlesRooted ==
    ASSUME TypeInv, NEW c \in Calls, NEW s, Handles(c, s), UNCHANGED dia,
           Resolved(c) # 0 => Sound(s, sess[Resolved(c)])
    PROVE  MgrType' /\ Rooted'
<1> USE DEF TypeInv, TypeOK
<1>1. Resolved(c) # 0 => s \in Session
  BY DEF Sound
<1>2. /\ MgrType' /\ counter' = counter
      /\ \A a \in Attempts : sess'[a] = IF a = Resolved(c) THEN s ELSE sess[a]
  BY <1>1, HandlesType
<1>3. Resolved(c) # 0 => Resolved(c) \in Attempts
  BY ResolvedType
<1>4. ASSUME NEW a \in Attempts PROVE Rooted!(a)'
  BY <1>2, <1>3 DEF Rooted, Sound, Attempts
<1> QED
  BY <1>2, <1>4 DEF Rooted

\* The changes the goroutines make to a session.
LEMMA SoundFields ==
    ASSUME TypeInv, NEW a \in Attempts
    PROVE  LET s == sess[a] IN
           /\ s \in Session /\ Same(s, s)
           /\ \A b \in BOOLEAN :
                 /\ Same([s EXCEPT !.closed = b], s) /\ Same([s EXCEPT !.dialled = b], s)
                 /\ Same([s EXCEPT !.answered = b], s) /\ Same([s EXCEPT !.reported = b], s)
           /\ \A t \in {"none", "state", "open", "deaf", "released"} :
                 /\ Same([s EXCEPT !.ctrl = t], s)
                 /\ Same([s EXCEPT !.closed = FALSE, !.ctrl = t], s)
           /\ \A t \in {"off", "armed", "firing"} :
                 s.timer # "off" => Same([s EXCEPT !.timer = t], s)
           /\ Same([s EXCEPT !.hangup = "sent"], s)
           /\ Same(TimerCancelled(s), s) /\ Same(CleanedUp(s), s) /\ Same(Closed(s), s)
           /\ Same(CleanedUp(Closed(s)), s)
<1> DEFINE s == sess[a]
<1>1. s \in Session /\ Same(s, s)
  BY DEF TypeInv, TypeOK, MgrType, Rooted, Sound, Same
<1> HIDE DEF s
<1>2. ASSUME NEW b \in BOOLEAN
      PROVE  /\ Same([s EXCEPT !.closed = b], s) /\ Same([s EXCEPT !.dialled = b], s)
             /\ Same([s EXCEPT !.answered = b], s) /\ Same([s EXCEPT !.reported = b], s)
  <2>1. /\ [s EXCEPT !.closed = b] \in Session /\ [s EXCEPT !.dialled = b] \in Session
        /\ [s EXCEPT !.answered = b] \in Session /\ [s EXCEPT !.reported = b] \in Session
    BY <1>1, FieldType
  <2> QED
    BY <1>1, <2>1 DEF Sound, Same, Session
<1>3. ASSUME NEW t \in {"none", "state", "open", "deaf", "released"}
      PROVE  /\ Same([s EXCEPT !.ctrl = t], s)
             /\ Same([s EXCEPT !.closed = FALSE, !.ctrl = t], s)
  BY <1>1 DEF Sound, Same, Session
<1>4. ASSUME NEW t \in {"off", "armed", "firing"}, s.timer # "off"
      PROVE  Same([s EXCEPT !.timer = t], s)
  BY <1>1, <1>4 DEF Sound, Same, Session
<1>5. Same([s EXCEPT !.hangup = "sent"], s)
  BY <1>1 DEF Sound, Same, Session
<1>6. /\ Same(TimerCancelled(s), s) /\ Same(CleanedUp(s), s) /\ Same(Closed(s), s)
      /\ Same(CleanedUp(Closed(s)), s)
  <2>1. ASSUME NEW t \in Session, Same(t, s)
        PROVE  Same(TimerCancelled(t), s) /\ Same(CleanedUp(t), s) /\ Same(Closed(t), s)
    BY <2>1, EndSessionType DEF Sound, Same
  <2> QED
    BY <1>1, <2>1 DEF Same, Sound
<1> QED
  BY <1>1, <1>2, <1>3, <1>4, <1>5, <1>6 DEF s

\* The changes the event handlers make to the session an event is about.
LEMMA SoundHandled ==
    ASSUME TypeInv, NEW c \in Calls, Resolved(c) # 0
    PROVE  LET s == sess[Resolved(c)]
               t == ResolvedSession(c)
           IN  /\ Sound(t, s) /\ t.call = c
               /\ \A u \in {[t EXCEPT !.closed = FALSE], Closed(t), AnsweredSession(t),
                            EstablishedSession(t)} : Sound(u, s) /\ u.call = c
<1> DEFINE s == sess[Resolved(c)]
           t == ResolvedSession(c)
<1>1. /\ s \in Session /\ t \in Session
      /\ s.dir = "incoming" => s.call # 0
      /\ s.timer # "off" \/ s.hangup = "due" => s.dir = "incoming"
      /\ t.call = c /\ t.peer = s.peer /\ t.dir = s.dir
      /\ t.timer = s.timer /\ t.hangup = s.hangup
  BY ResolvedType, ResolvedSessionType DEF TypeInv, TypeOK, MgrType, Rooted
<1>2. c # 0
  BY DEF Calls
<1> HIDE DEF s, t
<1>3. Sound([t EXCEPT !.closed = FALSE], s) /\ [t EXCEPT !.closed = FALSE].call = c
  BY <1>1, <1>2 DEF Sound, Session
<1>4. Sound(Closed(t), s) /\ Closed(t).call = c
  BY <1>1, <1>2, EndSessionType DEF Sound
<1>5. Sound(AnsweredSession(t), s) /\ AnsweredSession(t).call = c
  BY <1>1, <1>2 DEF Sound, Session, AnsweredSession
<1>6. Sound(EstablishedSession(t), s) /\ EstablishedSession(t).call = c
  BY <1>1, <1>2, ModeAssumption DEF Sound, Session, EstablishedSession
<1>7. Sound(t, s)
  BY <1>1, <1>2 DEF Sound
<1> QED
  BY <1>1, <1>3, <1>4, <1>5, <1>6, <1>7 DEF s, t
-----------------------------------------------------------------------------
(* baresip. *)

\* A call changes its phase.
LEMMA BecomesType ==
    ASSUME BareType, NEW c \in Calls,
           Becomes(c, "up") \/ Becomes(c, "closed") \/ Becomes(c, "ringing")
    PROVE  calls' \in [Calls -> Call]
<1>1. ASSUME NEW phase \in {"ringing", "up", "closed"}
      PROVE  [calls[c] EXCEPT !.phase = phase] \in Call
  BY DEF BareType, Call
<1> QED
  BY <1>1 DEF BareType, Becomes

\* Every sequence of events baresip tells of a call.
LEMMA ToldType ==
    ASSUME NEW c \in Calls
    PROVE  /\ \A k \in EventTypes : Signal(k, c) \in Seq(EventRecords)
           /\ \A k, l \in EventTypes : Signal(k, c) \o Signal(l, c) \in Seq(EventRecords)
           /\ \A k, l, m \in EventTypes :
                 Signal(k, c) \o Signal(l, c) \o Signal(m, c) \in Seq(EventRecords)
<1>1. ASSUME NEW k \in EventTypes PROVE Signal(k, c) \in Seq(EventRecords)
  BY SignalType
<1>2. ASSUME NEW q \in Seq(EventRecords), NEW r \in Seq(EventRecords)
      PROVE  q \o r \in Seq(EventRecords)
  OBVIOUS
<1> QED
  BY <1>1, <1>2

\* baresip has events for a call that changed.
LEMMA BareStep ==
    ASSUME BareType, NEW c \in Calls, NEW told \in Seq(EventRecords), Tell(told),
           calls' \in [Calls -> Call], ncalls' \in 0 .. MaxCalls,
           reply' \in [Attempts -> {"none", "ok", "rejected"}],
           cmds' \in Seq([op : {"dial", "accept", "hangup"}, n : Nat])
    PROVE  BareType'
BY TellType DEF BareType, EventRecords
-----------------------------------------------------------------------------
\* Every action keeps the types, and what the goroutines hold.
LEMMA StepType == TypeInv /\ [Next]_vars => TypeInv'
<1> SUFFICES ASSUME TypeInv, [Next]_vars PROVE TypeInv'
  OBVIOUS
<1> USE DEF TypeInv, TypeOK
<1>1. ASSUME NEW p \in Peers, InitiateOutgoingCall(p)
      PROVE  TypeInv'
  <2>1. ProcType'
    <3>1. (IF Active(p) # {} THEN "refuse" ELSE "create") \in {"refuse", "create"}
      OBVIOUS
    <3> QED
      BY <1>1, <3>1, CallBoundAssumption DEF InitiateOutgoingCall, ProcType
  <2>2. GhostType'
    BY <1>1, CallBoundAssumption DEF InitiateOutgoingCall, GhostType
  <2>3. Held'
    BY <1>1 DEF InitiateOutgoingCall, Held
  <2>4. MgrType' /\ BareType' /\ Written' /\ Rooted'
    BY <1>1 DEF InitiateOutgoingCall, MgrType, BareType, Written, Rooted
  <2> QED
    BY <2>1, <2>2, <2>3, <2>4
<1>2. CASE RefuseOverlapping
  <2>1. MgrType'
    <3>1. dialer.peer \in Peers
      BY DEF ProcType
    <3> QED
      BY <1>2, <3>1, RegisterType DEF RefuseOverlapping
  <2>2. ProcType'
    <3>1. dialer.peer \in Peers
      BY DEF ProcType
    <3>2. counter + 1 \in Attempts
      BY <1>2, <3>1, RegisterType DEF RefuseOverlapping
    <3>3. counter + 1 \in 0 .. MaxAttempts
      BY <3>2, CallBoundAssumption DEF Attempts
    <3> QED
      BY <1>2, <3>2, <3>3 DEF RefuseOverlapping, ProcType
  <2>3. GhostType'
    BY <1>2, RegisterType DEF RefuseOverlapping, GhostType, Emit, MgrType, ProcType
  <2>4. Held'
    BY <1>2, RegisterType DEF RefuseOverlapping, Held, ProcType
  <2>5. Rooted'
    <3>1. dialer.peer \in Peers
      BY DEF ProcType
    <3>2. PICK proto \in DialModes : RegisterOutgoing(dialer.peer, proto)
      BY <1>2 DEF RefuseOverlapping
    <3>3. /\ counter' = counter + 1 /\ counter \in Nat /\ counter + 1 > counter
          /\ sess'[counter + 1] = NewCallSession(dialer.peer, "outgoing", proto, 0)
          /\ \A x \in Attempts : x # counter + 1 => sess'[x] = sess[x]
      <4>1. counter \in Nat /\ counter + 1 > counter
        BY DEF MgrType
      <4> QED
        BY <3>1, <3>2, <4>1, RegisterType
    <3>4. /\ \A x \in Attempts : x # counter + 1 => dia'[x] = dia[x]
          /\ counter + 1 \in Attempts => dia'[counter + 1] # "gate"
      BY <1>2, <3>3 DEF RefuseOverlapping, ProcType, Rooted
    <3>5. ASSUME NEW x \in Attempts PROVE Rooted!(x)'
      BY <3>3, <3>4 DEF Rooted, Attempts, NewCallSession
    <3> QED
      BY <3>5 DEF Rooted
  <2>6. BareType' /\ Written'
    BY <1>2 DEF RefuseOverlapping, BareType, Written
  <2> QED
    BY <2>1, <2>2, <2>3, <2>4, <2>5, <2>6
<1>3. CASE RefusedEnds
  <2>1. MgrType'
    BY <1>3, EndSessionType, RemoveType DEF RefusedEnds, MgrType, Held, Dialer
  <2>2. ProcType'
    BY <1>3 DEF RefusedEnds, ProcType, Dialer
  <2>3. Held'
    BY <1>3 DEF RefusedEnds, Held, Dialer, ProcType
  <2>4. Rooted'
    BY <1>3, EndSessionType DEF RefusedEnds, Rooted, MgrType, Held, Dialer, RemoveSession
  <2>5. BareType' /\ GhostType' /\ Written'
    BY <1>3 DEF RefusedEnds, BareType, GhostType, Written
  <2> QED
    BY <2>1, <2>2, <2>3, <2>4, <2>5
<1>4. CASE CreateAndDial
  <2>1. MgrType'
    <3>1. dialer.peer \in Peers
      BY DEF ProcType
    <3> QED
      BY <1>4, <3>1, RegisterType DEF CreateAndDial
  <2>2. ProcType'
    <3>1. dialer.peer \in Peers
      BY DEF ProcType
    <3>2. counter + 1 \in Attempts
      BY <1>4, <3>1, RegisterType DEF CreateAndDial
    <3>3. counter + 1 \in 0 .. MaxAttempts
      BY <3>2, CallBoundAssumption DEF Attempts
    <3> QED
      BY <1>4, <3>2, <3>3 DEF CreateAndDial, ProcType
  <2>3. BareType' /\ Written'
    <3>1. dialer.peer \in Peers
      BY DEF ProcType
    <3>2. counter + 1 \in Attempts /\ counter + 1 \in Nat
      BY <1>4, <3>1, RegisterType DEF CreateAndDial, Attempts
    <3>3. /\ cmds' \in Seq([op : {"dial", "accept", "hangup"}, n : Nat]) /\ Written'
      BY <1>4, <3>2, SendType DEF CreateAndDial
    <3> QED
      BY <1>4, <3>3 DEF CreateAndDial, BareType
  <2>4. Held'
    BY <1>4, RegisterType DEF CreateAndDial, Held, ProcType
  <2>5. Rooted'
    <3>1. dialer.peer \in Peers
      BY DEF ProcType
    <3>2. PICK proto \in DialModes : RegisterOutgoing(dialer.peer, proto)
      BY <1>4 DEF CreateAndDial
    <3>3. /\ counter' = counter + 1 /\ counter \in Nat /\ counter + 1 > counter
          /\ sess'[counter + 1] = NewCallSession(dialer.peer, "outgoing", proto, 0)
          /\ \A x \in Attempts : x # counter + 1 => sess'[x] = sess[x]
      <4>1. counter \in Nat /\ counter + 1 > counter
        BY DEF MgrType
      <4> QED
        BY <3>1, <3>2, <4>1, RegisterType
    <3>4. /\ \A x \in Attempts : x # counter + 1 => dia'[x] = dia[x]
          /\ counter + 1 \in Attempts => dia'[counter + 1] # "gate"
      BY <1>4, <3>3 DEF CreateAndDial, ProcType, Rooted
    <3>5. ASSUME NEW x \in Attempts PROVE Rooted!(x)'
      BY <3>3, <3>4 DEF Rooted, Attempts, NewCallSession
    <3> QED
      BY <3>5 DEF Rooted
  <2>6. GhostType'
    BY <1>4 DEF CreateAndDial, GhostType
  <2> QED
    BY <2>1, <2>2, <2>3, <2>4, <2>5, <2>6
<1>5. CASE DialReturns
  <2>1. MgrType' /\ Rooted'
    <3>1. dialer.att \in Attempts
      BY <1>5 DEF DialReturns, Dialer, Held
    <3>2. sess' = [sess EXCEPT ![dialer.att] =
                      [sess[dialer.att] EXCEPT !.dialled = (reply[dialer.att] # "none")]]
      BY <1>5 DEF DialReturns
    <3> QED
      BY <1>5, <3>1, <3>2, SoundFields, UpdateType DEF DialReturns, Same
  <2>2. ProcType'
    BY <1>5 DEF DialReturns, ProcType, Dialer
  <2>3. Held'
    BY <1>5 DEF DialReturns, Held, Dialer, ProcType
  <2>4. BareType' /\ GhostType' /\ Written'
    BY <1>5 DEF DialReturns, BareType, GhostType, Written
  <2> QED
    BY <2>1, <2>2, <2>3, <2>4
<1>6. CASE DialerChecks
  <2>1. ProcType'
    BY <1>6 DEF DialerChecks, ProcType, Dialer, Finish
  <2>2. Held'
    BY <1>6 DEF DialerChecks, Held, Dialer, ProcType, Finish
  <2>3. MgrType' /\ BareType' /\ GhostType' /\ Written' /\ Rooted'
    BY <1>6 DEF DialerChecks, MgrType, BareType, GhostType, Written, Rooted
  <2> QED
    BY <2>1, <2>2, <2>3
<1>7. CASE DialerEmitsAnswered
  <2>1. MgrType' /\ Rooted'
    <3>1. dialer.att \in Attempts
      BY <1>7 DEF DialerEmitsAnswered, Dialer, Held
    <3>2. sess' = [sess EXCEPT ![dialer.att] = [sess[dialer.att] EXCEPT !.reported = TRUE]]
      BY <1>7 DEF DialerEmitsAnswered
    <3> QED
      BY <1>7, <3>1, <3>2, SoundFields, UpdateType DEF DialerEmitsAnswered, Same
  <2>2. ProcType'
    BY <1>7 DEF DialerEmitsAnswered, ProcType, Dialer, Finish
  <2>3. GhostType'
    BY <1>7 DEF DialerEmitsAnswered, GhostType, Emit, Dialer, Held
  <2>4. Held'
    BY <1>7 DEF DialerEmitsAnswered, Held, Dialer, ProcType, Finish
  <2>5. BareType' /\ Written'
    BY <1>7 DEF DialerEmitsAnswered, BareType, Written
  <2> QED
    BY <2>1, <2>2, <2>3, <2>4, <2>5
<1>8. CASE DialSucceeds
  <2>1. MgrType' /\ Rooted'
    <3>1. dialer.att \in Attempts
      BY <1>8 DEF DialSucceeds, Dialer, Held
    <3>2. sess' = [sess EXCEPT ![dialer.att] = [sess[dialer.att] EXCEPT !.closed = FALSE]]
      BY <1>8 DEF DialSucceeds
    <3> QED
      BY <1>8, <3>1, <3>2, SoundFields, UpdateType DEF DialSucceeds, Same
  <2>2. ProcType'
    BY <1>8 DEF DialSucceeds, ProcType, Dialer
  <2>3. Held'
    BY <1>8 DEF DialSucceeds, Held, Dialer, ProcType
  <2>4. BareType' /\ GhostType' /\ Written'
    BY <1>8 DEF DialSucceeds, BareType, GhostType, Written
  <2> QED
    BY <2>1, <2>2, <2>3, <2>4
<1>9. CASE DialFails
  <2>1. MgrType'
    BY <1>9, EndSessionType, RemoveType DEF DialFails, MgrType, Held, Dialer
  <2>2. ProcType'
    BY <1>9 DEF DialFails, ProcType, Dialer
  <2>3. GhostType'
    BY <1>9 DEF DialFails, GhostType, DialError, Emit, Dialer, Held
  <2>4. Held'
    BY <1>9 DEF DialFails, Held, Dialer, ProcType
  <2>5. Rooted'
    BY <1>9, EndSessionType DEF DialFails, Rooted, MgrType, Held, Dialer, RemoveSession
  <2>6. BareType' /\ Written'
    BY <1>9 DEF DialFails, BareType, Written
  <2> QED
    BY <2>1, <2>2, <2>3, <2>4, <2>5, <2>6
<1>10. CASE OnCallOutgoing
  <2>1. MgrType' /\ Rooted'
    <3>1. Event.call \in Calls
      BY <1>10, EventType DEF OnCallOutgoing
    <3>2. Handles(Event.call, ResolvedSession(Event.call)) /\ UNCHANGED dia
      BY <1>10 DEF OnCallOutgoing
    <3> QED
      BY <3>1, <3>2, SoundHandled, HandlesRooted
  <2>2. BareType'
    BY <1>10, EventType DEF OnCallOutgoing, BareType, EventRecords
  <2>3. ProcType' /\ GhostType' /\ Held' /\ Written'
    BY <1>10 DEF OnCallOutgoing, ProcType, GhostType, Held, Written
  <2> QED
    BY <2>1, <2>2, <2>3
<1>11. CASE OnCallRinging
  <2>1. MgrType' /\ Rooted'
    <3>1. Event.call \in Calls
      BY <1>11, EventType DEF OnCallRinging
    <3>2. /\ Handles(Event.call, [ResolvedSession(Event.call) EXCEPT !.closed = FALSE])
          /\ UNCHANGED dia
      BY <1>11 DEF OnCallRinging
    <3> QED
      BY <3>1, <3>2, SoundHandled, HandlesRooted
  <2>2. BareType'
    BY <1>11, EventType DEF OnCallRinging, BareType, EventRecords
  <2>3. ProcType' /\ GhostType' /\ Held' /\ Written'
    BY <1>11 DEF OnCallRinging, ProcType, GhostType, Held, Written
  <2> QED
    BY <2>1, <2>2, <2>3
<1>12. CASE OnRemoteSDP
  <2>1. BareType'
    BY <1>12, EventType DEF OnRemoteSDP, BareType, EventRecords
  <2>2. MgrType' /\ ProcType' /\ GhostType' /\ Held' /\ Written' /\ Rooted'
    BY <1>12 DEF OnRemoteSDP, MgrType, ProcType, GhostType, Held, Written, Rooted
  <2> QED
    BY <2>1, <2>2
<1>13. CASE OnCallAnswered
  <2>1. MgrType' /\ Rooted'
    <3>1. Event.call \in Calls
      BY <1>13, EventType DEF OnCallAnswered
    <3>2. /\ \/ Handles(Event.call, AnsweredSession(ResolvedSession(Event.call)))
             \/ Handles(Event.call, EstablishedSession(ResolvedSession(Event.call)))
          /\ UNCHANGED dia
      BY <1>13 DEF OnCallAnswered
    <3> QED
      BY <3>1, <3>2, SoundHandled, HandlesRooted
  <2>2. ProcType' /\ Held'
    <3>1. Event.call \in Calls /\ Event.call \in 0 .. MaxCalls
      BY <1>13, EventType DEF OnCallAnswered, Calls
    <3>2. /\ Resolved(Event.call) \in 0 .. MaxAttempts
          /\ (Resolved(Event.call) # 0 => Resolved(Event.call) \in Attempts)
      BY <3>1, ResolvedType
    <3> QED
      BY <1>13, <3>1, <3>2 DEF OnCallAnswered, ProcType, Held
  <2>3. BareType'
    BY <1>13, EventType DEF OnCallAnswered, BareType, EventRecords
  <2>4. GhostType' /\ Written'
    BY <1>13 DEF OnCallAnswered, GhostType, Written
  <2> QED
    BY <2>1, <2>2, <2>3, <2>4
<1>14. CASE LoopEmitsAnswered
  <2>1. MgrType' /\ Rooted'
    <3>1. loop.att \in Attempts
      BY <1>14 DEF LoopEmitsAnswered, Loop, Held
    <3>2. sess' = [sess EXCEPT ![loop.att] = [sess[loop.att] EXCEPT !.reported = TRUE]]
      BY <1>14 DEF LoopEmitsAnswered
    <3> QED
      BY <1>14, <3>1, <3>2, SoundFields, UpdateType DEF LoopEmitsAnswered, Same
  <2>2. ProcType'
    BY <1>14, CallBoundAssumption DEF LoopEmitsAnswered, ProcType, Loop
  <2>3. GhostType'
    BY <1>14 DEF LoopEmitsAnswered, GhostType, Emit, Loop, Held
  <2>4. Held'
    BY <1>14 DEF LoopEmitsAnswered, Held, Loop, ProcType
  <2>5. BareType' /\ Written'
    BY <1>14 DEF LoopEmitsAnswered, BareType, Written
  <2> QED
    BY <2>1, <2>2, <2>3, <2>4, <2>5
<1>15. CASE OnCallClosed
  <2>1. MgrType' /\ Rooted'
    <3>1. Event.call \in Calls
      BY <1>15, EventType DEF OnCallClosed
    <3>2. Handles(Event.call, Closed(ResolvedSession(Event.call))) /\ UNCHANGED dia
      BY <1>15 DEF OnCallClosed
    <3> QED
      BY <3>1, <3>2, SoundHandled, HandlesRooted
  <2>2. ProcType' /\ Held'
    <3>1. Event.call \in Calls /\ Event.call \in 0 .. MaxCalls
      BY <1>15, EventType DEF OnCallClosed, Calls
    <3>2. /\ Resolved(Event.call) \in 0 .. MaxAttempts
          /\ (Resolved(Event.call) # 0 => Resolved(Event.call) \in Attempts)
      BY <3>1, ResolvedType
    <3> QED
      BY <1>15, <3>1, <3>2 DEF OnCallClosed, ProcType, Held
  <2>3. BareType'
    BY <1>15, EventType DEF OnCallClosed, BareType, EventRecords
  <2>4. GhostType'
    <3>1. Event.call \in Calls
      BY <1>15, EventType DEF OnCallClosed
    <3>2. Resolved(Event.call) # 0 => Resolved(Event.call) \in Attempts
      BY <3>1, ResolvedType
    <3>3. CASE Resolved(Event.call) = 0
      BY <1>15, <3>3 DEF OnCallClosed, GhostType
    <3>4. CASE Resolved(Event.call) # 0
      <4>1. /\ emitted' = [emitted EXCEPT ![Resolved(Event.call)] = Append(@, "closed")]
            /\ UNCHANGED <<dials, accepted, overdue>>
        BY <1>15, <3>4 DEF OnCallClosed, Emit
      <4> QED
        BY <3>2, <3>4, <4>1 DEF GhostType
    <3> QED
      BY <3>3, <3>4
  <2>5. Written'
    BY <1>15 DEF OnCallClosed, Written
  <2> QED
    BY <2>1, <2>2, <2>3, <2>4, <2>5
<1>16. CASE ClosedEnds
  <2>1. MgrType'
    BY <1>16, EndSessionType, RemoveType DEF ClosedEnds, MgrType, Held, Loop
  <2>2. ProcType'
    BY <1>16, CallBoundAssumption DEF ClosedEnds, ProcType, Loop
  <2>3. Held'
    BY <1>16 DEF ClosedEnds, Held, Loop, ProcType
  <2>4. Rooted'
    BY <1>16, EndSessionType DEF ClosedEnds, Rooted, Loop, Held, MgrType, RemoveSession
  <2>5. BareType' /\ GhostType' /\ Written'
    BY <1>16 DEF ClosedEnds, BareType, GhostType, Written
  <2> QED
    BY <2>1, <2>2, <2>3, <2>4, <2>5
<1>17. CASE OnIncomingCall
  <2>1. MgrType' /\ Rooted'
    <3> DEFINE c == Event.call
               a == Head(Pending(c))
    <3>1. c \in Calls /\ c \in 0 .. MaxCalls /\ c # 0
      BY <1>17, EventType DEF OnIncomingCall, Calls
    <3>2. CASE UNCHANGED mgr
      BY <1>17, <3>2 DEF OnIncomingCall, MgrType, Rooted
    <3>3. CASE /\ Bindable(c) /\ BindOutgoing(c)
               /\ sess' = [sess EXCEPT ![a].call = c]
               /\ UNCHANGED <<byAttempt, counter>>
      <4>1. a \in Attempts
        BY <3>1, <3>3, ResolvedType
      <4>2. [sess[a] EXCEPT !.call = c] \in Session
        BY <3>1, <4>1, FieldType DEF MgrType
      <4>3. sess' = [sess EXCEPT ![a] = [sess[a] EXCEPT !.call = c]]
        BY <3>3
      <4>4. MgrType'
        BY <3>1, <3>3, <4>1, <4>2, <4>3, BindType DEF MgrType
      <4>5. \A x \in Attempts : /\ sess'[x].dir = sess[x].dir /\ sess'[x].timer = sess[x].timer
                                /\ sess'[x].hangup = sess[x].hangup
                                /\ sess'[x].call # 0 \/ sess'[x].call = sess[x].call
        BY <3>1, <4>1, <4>3 DEF MgrType, Session
      <4>6. UNCHANGED <<dia, counter>>
        BY <1>17, <3>3 DEF OnIncomingCall
      <4> QED
        BY <4>4, <4>5, <4>6 DEF Rooted
    <3> QED
      BY <1>17, <3>2, <3>3 DEF OnIncomingCall
  <2>2. ProcType' /\ Held'
    <3>1. Event.call \in Calls /\ Event.call \in 0 .. MaxCalls /\ 0 \in 0 .. MaxAttempts
      BY <1>17, EventType, CallBoundAssumption DEF OnIncomingCall, Calls
    <3> QED
      BY <1>17, <3>1 DEF OnIncomingCall, ProcType, Held
  <2>3. BareType'
    BY <1>17, EventType DEF OnIncomingCall, BareType, EventRecords
  <2>4. GhostType' /\ Written'
    BY <1>17 DEF OnIncomingCall, GhostType, Written
  <2> QED
    BY <2>1, <2>2, <2>3, <2>4
<1>18. CASE RejectBusy
  <2>1. ProcType'
    BY <1>18, CallBoundAssumption DEF RejectBusy, ProcType, Loop
  <2>2. BareType'
    BY <1>18, SendType DEF RejectBusy, BareType, Loop, Held, Calls
  <2>3. Held'
    BY <1>18 DEF RejectBusy, Held, Loop, ProcType
  <2>4. Written'
    BY <1>18, SendType DEF RejectBusy, Written, Loop, Held, Calls
  <2>5. MgrType' /\ GhostType' /\ Rooted'
    BY <1>18 DEF RejectBusy, MgrType, GhostType, Rooted
  <2> QED
    BY <2>1, <2>2, <2>3, <2>4, <2>5
<1>19. CASE AdmitIncoming
  <2>1. ProcType'
    BY <1>19 DEF AdmitIncoming, ProcType
  <2>2. Held'
    BY <1>19 DEF AdmitIncoming, Held, ProcType
  <2>3. MgrType' /\ BareType' /\ GhostType' /\ Written' /\ Rooted'
    BY <1>19 DEF AdmitIncoming, MgrType, BareType, GhostType, Written, Rooted
  <2> QED
    BY <2>1, <2>2, <2>3
<1>20. CASE CreateIncoming
  <2>1. MgrType' /\ Rooted'
    <3> DEFINE c == loop.call
               b == counter + 1
               s == NewCallSession(calls[c].peer, "incoming", Integrated, c)
               t == IF Integrated THEN [s EXCEPT !.timer = "armed"] ELSE s
    <3>1. c \in Calls /\ c \in 0 .. MaxCalls /\ c # 0 /\ calls[c].peer \in Peers
      BY <1>20 DEF CreateIncoming, Loop, Held, Calls, BareType, Call
    <3>2. /\ b \in Attempts /\ b \in 0 .. MaxAttempts /\ counter \in Nat
      BY <1>20, CallBoundAssumption DEF CreateIncoming, MgrType, Attempts
    <3>3. s \in Session /\ s.dir = "incoming" /\ s.call = c
      BY <3>1, ModeAssumption, NewSessionType DEF NewCallSession
    <3>4. [s EXCEPT !.timer = "armed"] \in Session
      BY <3>3, FieldType
    <3> HIDE DEF s
    <3>5. t \in Session /\ t.dir = "incoming" /\ t.call = c
      BY <3>3, <3>4 DEF Session
    <3>6. sess' = [sess EXCEPT ![b] = t]
      BY <1>20 DEF CreateIncoming, s
    <3> HIDE DEF t
    <3>7. MgrType'
      BY <1>20, <3>1, <3>2, <3>5, <3>6 DEF CreateIncoming, MgrType, Attempts
    <3>8. /\ \A x \in Attempts : x # b => sess'[x] = sess[x] /\ dia'[x] = dia[x]
          /\ sess'[b] = t /\ counter' = b
      BY <1>20, <3>2, <3>6 DEF CreateIncoming, MgrType, ProcType
    <3>9. ASSUME NEW x \in Attempts PROVE Rooted!(x)'
      BY <3>1, <3>2, <3>5, <3>8 DEF Rooted, Attempts
    <3> QED
      BY <3>7, <3>9 DEF Rooted
  <2>2. ProcType'
    <3>1. counter + 1 \in Attempts
      BY <1>20, CallBoundAssumption DEF CreateIncoming, MgrType, Attempts
    <3> QED
      BY <1>20, <3>1, CallBoundAssumption DEF CreateIncoming, ProcType, Loop
  <2>3. BareType'
    BY <1>20, SendType DEF CreateIncoming, BareType, Loop, Held, Calls
  <2>4. GhostType'
    <3>1. counter + 1 \in Attempts
      BY <1>20, CallBoundAssumption DEF CreateIncoming, MgrType, Attempts
    <3> QED
      BY <1>20, <3>1 DEF CreateIncoming, GhostType
  <2>5. Held'
    BY <1>20 DEF CreateIncoming, Held, Loop, ProcType
  <2>6. Written'
    BY <1>20, SendType DEF CreateIncoming, Written, Loop, Held, Calls
  <2> QED
    BY <2>1, <2>2, <2>3, <2>4, <2>5, <2>6
<1>21. CASE BaresipDials
  <2>1. BareType' /\ Written'
    <3> DEFINE b == Head(cmds).n
    <3>1. b \in Attempts /\ Written' /\ cmds' \in Seq([op : {"dial", "accept", "hangup"}, n : Nat])
      BY <1>21, TakeType DEF BaresipDials
    <3>2. reply' \in [Attempts -> {"none", "ok", "rejected"}]
      BY <1>21, <3>1 DEF BaresipDials, BareType
    <3>3. CASE UNCHANGED <<events, calls, ncalls>>
      BY <3>1, <3>2, <3>3 DEF BareType
    <3>4. CASE /\ ncalls < MaxCalls
               /\ ncalls' = ncalls + 1
               /\ calls' = [calls EXCEPT ![ncalls + 1] =
                          [peer |-> sess[b].peer, dir |-> "outgoing", phase |-> "new", by |-> b]]
               /\ Tell(Signal("OUTGOING", ncalls + 1))
      <4>1. ncalls + 1 \in Calls /\ ncalls + 1 \in 0 .. MaxCalls
        BY <3>4, CallBoundAssumption DEF BareType, Calls
      <4>2. [peer |-> sess[b].peer, dir |-> "outgoing", phase |-> "new", by |-> b] \in Call
        BY <3>1, CallBoundAssumption DEF MgrType, Session, Call, Attempts
      <4>3. calls' \in [Calls -> Call]
        BY <3>4, <4>1, <4>2 DEF BareType
      <4>4. Signal("OUTGOING", ncalls + 1) \in Seq(EventRecords)
        BY <4>1, SignalType DEF EventTypes
      <4> QED
        BY <3>1, <3>2, <3>4, <4>1, <4>3, <4>4, BareStep
    <3> QED
      BY <1>21, <3>1, <3>3, <3>4 DEF BaresipDials
  <2>2. MgrType' /\ ProcType' /\ GhostType' /\ Held' /\ Rooted'
    BY <1>21 DEF BaresipDials, MgrType, ProcType, GhostType, Held, Rooted
  <2> QED
    BY <2>1, <2>2
<1>22. CASE BaresipAccepts
  <2>1. BareType' /\ Written'
    <3> DEFINE c == Head(cmds).n
    <3>1. c \in Calls /\ Written' /\ cmds' \in Seq([op : {"dial", "accept", "hangup"}, n : Nat])
      BY <1>22, TakeType DEF BaresipAccepts
    <3>2. reply' \in [Attempts -> {"none", "ok", "rejected"}] /\ ncalls' \in 0 .. MaxCalls
      BY <1>22 DEF BaresipAccepts, BareType
    <3>3. CASE UNCHANGED <<calls, events>>
      BY <3>1, <3>2, <3>3 DEF BareType
    <3>4. CASE Becomes(c, "up") /\ Tell(Signal("ANSWERED", c) \o Signal("ESTABLISHED", c))
      <4>1. Signal("ANSWERED", c) \o Signal("ESTABLISHED", c) \in Seq(EventRecords)
        BY <3>1, ToldType DEF EventTypes
      <4> QED
        BY <3>1, <3>2, <3>4, <4>1, BecomesType, BareStep
    <3> QED
      BY <1>22, <3>1, <3>3, <3>4 DEF BaresipAccepts
  <2>2. MgrType' /\ ProcType' /\ GhostType' /\ Held' /\ Rooted'
    BY <1>22 DEF BaresipAccepts, MgrType, ProcType, GhostType, Held, Rooted
  <2> QED
    BY <2>1, <2>2
<1>23. CASE BaresipHangsUp
  <2>1. BareType' /\ Written'
    <3> DEFINE c == Head(cmds).n
    <3>1. c \in Calls /\ Written' /\ cmds' \in Seq([op : {"dial", "accept", "hangup"}, n : Nat])
      BY <1>23, TakeType DEF BaresipHangsUp
    <3>2. reply' \in [Attempts -> {"none", "ok", "rejected"}] /\ ncalls' \in 0 .. MaxCalls
      BY <1>23 DEF BaresipHangsUp, BareType
    <3>3. CASE UNCHANGED <<calls, events>>
      BY <3>1, <3>2, <3>3 DEF BareType
    <3>4. CASE Becomes(c, "closed") /\ Tell(Signal("CLOSED", c))
      <4>1. Signal("CLOSED", c) \in Seq(EventRecords)
        BY <3>1, ToldType DEF EventTypes
      <4> QED
        BY <3>1, <3>2, <3>4, <4>1, BecomesType, BareStep
    <3> QED
      BY <1>23, <3>1, <3>3, <3>4 DEF BaresipHangsUp
  <2>2. MgrType' /\ ProcType' /\ GhostType' /\ Held' /\ Rooted'
    BY <1>23 DEF BaresipHangsUp, MgrType, ProcType, GhostType, Held, Rooted
  <2> QED
    BY <2>1, <2>2
<1>24. ASSUME NEW p \in Peers, PeerCalls(p)
      PROVE  TypeInv'
  <2>1. BareType'
    <3> DEFINE c == ncalls + 1
               told == Signal("REMOTE_SDP", c) \o Signal("INCOMING", c) \o Signal("RINGING", c)
    <3>1. c \in Calls /\ c \in 0 .. MaxCalls
      BY <1>24, CallBoundAssumption DEF PeerCalls, BareType, Calls
    <3>2. [peer |-> p, dir |-> "incoming", phase |-> "ringing", by |-> 0] \in Call
      BY CallBoundAssumption DEF Call
    <3>3. calls' \in [Calls -> Call] /\ ncalls' \in 0 .. MaxCalls
      BY <1>24, <3>1, <3>2 DEF PeerCalls, BareType
    <3>4. told \in Seq(EventRecords)
      BY <3>1, ToldType DEF EventTypes
    <3>5. /\ reply' \in [Attempts -> {"none", "ok", "rejected"}]
          /\ cmds' \in Seq([op : {"dial", "accept", "hangup"}, n : Nat])
      BY <1>24 DEF PeerCalls, BareType
    <3> QED
      BY <1>24, <3>1, <3>3, <3>4, <3>5, BareStep DEF PeerCalls
  <2>2. MgrType' /\ ProcType' /\ GhostType' /\ Held' /\ Written' /\ Rooted'
    BY <1>24 DEF PeerCalls, MgrType, ProcType, GhostType, Held, Written, Rooted
  <2> QED
    BY <2>1, <2>2
<1>25. ASSUME NEW c \in Calls, PeerRings(c)
      PROVE  TypeInv'
  <2>1. BareType'
    <3>1. Signal("RINGING", c) \in Seq(EventRecords)
      BY ToldType DEF EventTypes
    <3>2. calls' \in [Calls -> Call]
      BY <1>25, BecomesType DEF PeerRings
    <3>3. /\ reply' \in [Attempts -> {"none", "ok", "rejected"}] /\ ncalls' \in 0 .. MaxCalls
          /\ cmds' \in Seq([op : {"dial", "accept", "hangup"}, n : Nat])
      BY <1>25 DEF PeerRings, BareType
    <3> QED
      BY <1>25, <3>1, <3>2, <3>3, BareStep DEF PeerRings
  <2>2. MgrType' /\ ProcType' /\ GhostType' /\ Held' /\ Written' /\ Rooted'
    BY <1>25 DEF PeerRings, MgrType, ProcType, GhostType, Held, Written, Rooted
  <2> QED
    BY <2>1, <2>2
<1>26. ASSUME NEW c \in Calls, PeerAnswers(c)
      PROVE  TypeInv'
  <2>1. BareType'
    <3>1. Signal("REMOTE_SDP", c) \o Signal("ANSWERED", c) \o Signal("ESTABLISHED", c)
            \in Seq(EventRecords)
      BY ToldType DEF EventTypes
    <3>2. calls' \in [Calls -> Call]
      BY <1>26, BecomesType DEF PeerAnswers
    <3>3. /\ reply' \in [Attempts -> {"none", "ok", "rejected"}] /\ ncalls' \in 0 .. MaxCalls
          /\ cmds' \in Seq([op : {"dial", "accept", "hangup"}, n : Nat])
      BY <1>26 DEF PeerAnswers, BareType
    <3> QED
      BY <1>26, <3>1, <3>2, <3>3, BareStep DEF PeerAnswers
  <2>2. MgrType' /\ ProcType' /\ GhostType' /\ Held' /\ Written' /\ Rooted'
    BY <1>26 DEF PeerAnswers, MgrType, ProcType, GhostType, Held, Written, Rooted
  <2> QED
    BY <2>1, <2>2
<1>27. ASSUME NEW c \in Calls, PeerHangsUp(c)
      PROVE  TypeInv'
  <2>1. BareType'
    <3>1. Signal("CLOSED", c) \in Seq(EventRecords)
      BY ToldType DEF EventTypes
    <3>2. calls' \in [Calls -> Call]
      BY <1>27, BecomesType DEF PeerHangsUp
    <3>3. /\ reply' \in [Attempts -> {"none", "ok", "rejected"}] /\ ncalls' \in 0 .. MaxCalls
          /\ cmds' \in Seq([op : {"dial", "accept", "hangup"}, n : Nat])
      BY <1>27 DEF PeerHangsUp, BareType
    <3> QED
      BY <1>27, <3>1, <3>2, <3>3, BareStep DEF PeerHangsUp
  <2>2. MgrType' /\ ProcType' /\ GhostType' /\ Held' /\ Written' /\ Rooted'
    BY <1>27 DEF PeerHangsUp, MgrType, ProcType, GhostType, Held, Written, Rooted
  <2> QED
    BY <2>1, <2>2
<1>28. ASSUME NEW a \in Attempts, DiaStarts(a)
      PROVE  TypeInv'
  <2>1. MgrType'
    <3>1. sess' = [sess EXCEPT ![a] = [sess[a] EXCEPT !.closed = FALSE, !.ctrl = "state"]]
      BY <1>28 DEF DiaStarts, MgrType
    <3> QED
      BY <1>28, <3>1, SoundFields, UpdateType DEF DiaStarts, Same
  <2>2. ProcType'
    BY <1>28 DEF DiaStarts, ProcType, Dia
  <2>3. Rooted'
    BY <1>28 DEF DiaStarts, Rooted, Dia, ProcType, MgrType, Session
  <2>4. BareType' /\ GhostType' /\ Held' /\ Written'
    BY <1>28 DEF DiaStarts, BareType, GhostType, Held, Written
  <2> QED
    BY <2>1, <2>2, <2>3, <2>4
<1>29. ASSUME NEW a \in Attempts, DiaOpens(a)
      PROVE  TypeInv'
  <2>1. MgrType'
    <3>1. \E t \in {"open", "deaf"} : sess' = [sess EXCEPT ![a] = [sess[a] EXCEPT !.ctrl = t]]
      BY <1>29 DEF DiaOpens, MgrType
    <3> QED
      BY <1>29, <3>1, SoundFields, UpdateType DEF DiaOpens, Same
  <2>2. ProcType'
    BY <1>29 DEF DiaOpens, ProcType, Dia
  <2>3. Rooted'
    BY <1>29 DEF DiaOpens, Rooted, Dia, ProcType, MgrType, Session
  <2>4. BareType' /\ GhostType' /\ Held' /\ Written'
    BY <1>29 DEF DiaOpens, BareType, GhostType, Held, Written
  <2> QED
    BY <2>1, <2>2, <2>3, <2>4
<1>30. ASSUME NEW a \in Attempts, DiaContinues(a)
      PROVE  TypeInv'
  <2>1. MgrType'
    <3>1. CASE sess' = sess
      BY <1>30, <3>1 DEF DiaContinues, MgrType
    <3>2. CASE sess' = [sess EXCEPT ![a].closed = FALSE]
      <4>1. sess' = [sess EXCEPT ![a] = [sess[a] EXCEPT !.closed = FALSE]]
        BY <3>2
      <4> QED
        BY <1>30, <4>1, SoundFields, UpdateType DEF DiaContinues, Same
    <3> QED
      BY <1>30, <3>1, <3>2 DEF DiaContinues
  <2>2. ProcType'
    BY <1>30 DEF DiaContinues, ProcType, Dia
  <2>3. Rooted'
    BY <1>30 DEF DiaContinues, Rooted, Dia, ProcType, MgrType, Session
  <2>4. BareType' /\ GhostType' /\ Held' /\ Written'
    BY <1>30 DEF DiaContinues, BareType, GhostType, Held, Written
  <2> QED
    BY <2>1, <2>2, <2>3, <2>4
<1>31. ASSUME NEW a \in Attempts, DiaCompletes(a)
      PROVE  TypeInv'
  <2>1. MgrType'
    <3>1. sess' = [sess EXCEPT ![a] = [sess[a] EXCEPT !.closed = FALSE]]
      BY <1>31 DEF DiaCompletes, MgrType
    <3> QED
      BY <1>31, <3>1, SoundFields, UpdateType DEF DiaCompletes, Same
  <2>2. ProcType'
    BY <1>31 DEF DiaCompletes, ProcType, Dia
  <2>3. Rooted'
    BY <1>31 DEF DiaCompletes, Rooted, Dia, ProcType, MgrType, Session
  <2>4. BareType' /\ GhostType' /\ Held' /\ Written'
    BY <1>31 DEF DiaCompletes, BareType, GhostType, Held, Written
  <2> QED
    BY <2>1, <2>2, <2>3, <2>4
<1>32. ASSUME NEW a \in Attempts, CallerFails(a)
      PROVE  TypeInv'
  <2>1. ProcType'
    BY <1>32 DEF CallerFails, ProcType
  <2>2. Rooted'
    BY <1>32 DEF CallerFails, Rooted, ProcType
  <2>3. MgrType' /\ BareType' /\ GhostType' /\ Held' /\ Written'
    BY <1>32 DEF CallerFails, MgrType, BareType, GhostType, Held, Written
  <2> QED
    BY <2>1, <2>2, <2>3
<1>33. ASSUME NEW a \in Attempts, RecipientRejects(a)
      PROVE  TypeInv'
  <2>1. MgrType'
    BY <1>33, EndSessionType DEF RecipientRejects, MgrType
  <2>2. ProcType'
    BY <1>33 DEF RecipientRejects, ProcType, At, Rejecters
  <2>3. BareType'
    BY <1>33, SendType DEF RecipientRejects, BareType, Rejected, Rooted, MgrType, Session, Calls
  <2>4. Written'
    BY <1>33, SendType DEF RecipientRejects, Written, Rejected, Rooted, MgrType, Session, Calls
  <2>5. Rooted'
    BY <1>33, EndSessionType DEF RecipientRejects, Rooted, MgrType, ProcType
  <2>6. GhostType' /\ Held'
    BY <1>33 DEF RecipientRejects, GhostType, Held
  <2> QED
    BY <2>1, <2>2, <2>3, <2>4, <2>5, <2>6
<1>34. ASSUME NEW a \in Attempts, RecipientAnswers(a)
      PROVE  TypeInv'
  <2>1. MgrType'
    BY <1>34, EndSessionType DEF RecipientAnswers, MgrType
  <2>2. ProcType'
    BY <1>34 DEF RecipientAnswers, ProcType, Dia
  <2>3. BareType'
    BY <1>34, SendType DEF RecipientAnswers, BareType, Dia, Rooted, MgrType, Session, Calls
  <2>4. GhostType'
    BY <1>34 DEF RecipientAnswers, GhostType
  <2>5. Written'
    BY <1>34, SendType DEF RecipientAnswers, Written, Dia, Rooted, MgrType, Session, Calls
  <2>6. Rooted'
    BY <1>34, EndSessionType DEF RecipientAnswers, Rooted, Dia, MgrType, ProcType
  <2>7. Held'
    BY <1>34 DEF RecipientAnswers, Held
  <2> QED
    BY <2>1, <2>2, <2>3, <2>4, <2>5, <2>6, <2>7
<1>35. ASSUME NEW a \in Attempts, DiaMessage(a)
      PROVE  TypeInv'
  <2>1. ProcType'
    BY <1>35 DEF DiaMessage, ProcType, Dia
  <2>2. Rooted'
    BY <1>35 DEF DiaMessage, Rooted, Dia, ProcType
  <2>3. MgrType' /\ BareType' /\ GhostType' /\ Held' /\ Written'
    BY <1>35 DEF DiaMessage, MgrType, BareType, GhostType, Held, Written
  <2> QED
    BY <2>1, <2>2, <2>3
<1>36. ASSUME NEW a \in Attempts, TimerFires(a)
      PROVE  TypeInv'
  <2>1. MgrType' /\ Rooted'
    <3>1. sess' = [sess EXCEPT ![a] = [sess[a] EXCEPT !.timer = "firing"]]
      BY <1>36 DEF TimerFires, MgrType
    <3> QED
      BY <1>36, <3>1, SoundFields, UpdateType DEF TimerFires, Same
  <2>2. ProcType' /\ BareType' /\ GhostType' /\ Held' /\ Written'
    BY <1>36 DEF TimerFires, ProcType, BareType, GhostType, Held, Written
  <2> QED
    BY <2>1, <2>2
<1>37. ASSUME NEW a \in Attempts, TimerRejects(a)
      PROVE  TypeInv'
  <2>1. MgrType' /\ Rooted'
    <3>1. sess' = [sess EXCEPT ![a] = [sess[a] EXCEPT !.timer = "off"]]
      BY <1>37 DEF TimerRejects, MgrType
    <3> QED
      BY <1>37, <3>1, SoundFields, UpdateType DEF TimerRejects, Same
  <2>2. ProcType'
    BY <1>37 DEF TimerRejects, ProcType, At, Rejecters
  <2>3. BareType'
    BY <1>37, SendType DEF TimerRejects, BareType, Rejected, Rooted, MgrType, Session, Calls
  <2>4. GhostType'
    BY <1>37 DEF TimerRejects, GhostType
  <2>5. Written'
    BY <1>37, SendType DEF TimerRejects, Written, Rejected, Rooted, MgrType, Session, Calls
  <2>6. Held'
    BY <1>37 DEF TimerRejects, Held
  <2> QED
    BY <2>1, <2>2, <2>3, <2>4, <2>5, <2>6
<1>38. ASSUME NEW a \in Attempts, BaselineHangup(a)
      PROVE  TypeInv'
  <2>1. MgrType' /\ Rooted'
    <3>1. sess' = [sess EXCEPT ![a] = [sess[a] EXCEPT !.hangup = "sent"]]
      BY <1>38 DEF BaselineHangup, MgrType
    <3> QED
      BY <1>38, <3>1, SoundFields, UpdateType DEF BaselineHangup, Same
  <2>2. BareType'
    BY <1>38, SendType DEF BaselineHangup, BareType, Rooted, MgrType, Session, Calls
  <2>3. Written'
    BY <1>38, SendType DEF BaselineHangup, Written, Rooted, MgrType, Session, Calls
  <2>4. ProcType' /\ GhostType' /\ Held'
    BY <1>38 DEF BaselineHangup, ProcType, GhostType, Held
  <2> QED
    BY <2>1, <2>2, <2>3, <2>4
<1>39. ASSUME NEW a \in Attempts, NEW who \in Rejecters, MarkRejected(a, who)
      PROVE  TypeInv'
  <2>1. MgrType'
    BY <1>39, EndSessionType DEF MarkRejected, MgrType
  <2>2. ProcType'
    BY <1>39 DEF MarkRejected, ProcType, At, Rejecters
  <2>3. Rooted'
    BY <1>39, EndSessionType DEF MarkRejected, Rooted, MgrType
  <2>4. BareType' /\ GhostType' /\ Held' /\ Written'
    BY <1>39 DEF MarkRejected, BareType, GhostType, Held, Written
  <2> QED
    BY <2>1, <2>2, <2>3, <2>4
<1>40. ASSUME NEW a \in Attempts, NEW who \in Rejecters, EndReject(a, who)
      PROVE  TypeInv'
  <2>1. MgrType'
    BY <1>40, EndSessionType, RemoveType DEF EndReject, MgrType
  <2>2. ProcType'
    BY <1>40 DEF EndReject, ProcType, At, Rejecters
  <2>3. Rooted'
    BY <1>40, EndSessionType DEF EndReject, Rooted, MgrType, RemoveSession
  <2>4. BareType' /\ GhostType' /\ Held' /\ Written'
    BY <1>40 DEF EndReject, BareType, GhostType, Held, Written
  <2> QED
    BY <2>1, <2>2, <2>3, <2>4
<1>41. CASE UNCHANGED vars
  BY <1>41 DEF MgrType, ProcType, BareType, GhostType, Held, Written, Rooted
<1> QED
  BY <1>1, <1>2, <1>3, <1>4, <1>5, <1>6, <1>7, <1>8, <1>9, <1>10, <1>11, <1>12, <1>13, <1>14,
     <1>15, <1>16, <1>17, <1>18, <1>19, <1>20, <1>21, <1>22, <1>23, <1>24, <1>25, <1>26, <1>27,
     <1>28, <1>29, <1>30, <1>31, <1>32, <1>33, <1>34, <1>35, <1>36, <1>37, <1>38, <1>39, <1>40,
     <1>41
  DEF Next, DialerStep, LoopStep, Baresip, Far, DiaStep, TimerStep, Rejecters

\* Before the first call.
LEMMA InitType == Init => TypeInv
<1> SUFFICES ASSUME Init PROVE TypeInv
  OBVIOUS
<1>1. AnyPeer \in Peers
  BY PeerAssumption DEF AnyPeer
<1>2. 0 \in 0 .. MaxAttempts /\ 0 \in 0 .. MaxCalls /\ 0 \in 0 .. MaxDials
  BY CallBoundAssumption
<1>3. MgrType
  <2>1. NewCallSession(AnyPeer, "outgoing", FALSE, 0) \in Session
    BY <1>1, <1>2, NewSessionType
  <2>2. counter \in 0 .. MaxAttempts /\ byAttempt \subseteq 1 .. counter
    BY <1>2 DEF Init
  <2>3. pendingByPeer \in [Peers -> Seq(Attempts)]
    BY DEF Init
  <2> QED
    BY <1>2, <2>1, <2>2, <2>3 DEF Init, MgrType
<1>4. ProcType
  BY <1>1, <1>2 DEF Init, ProcType
<1>5. BareType
  BY <1>1, <1>2, CallBoundAssumption DEF Init, BareType, NoneCall, Call
<1>6. GhostType
  BY <1>2 DEF Init, GhostType
<1>7. Held /\ Written /\ Rooted
  BY <1>1 DEF Init, Held, Written, Rooted, NewCallSession
<1> QED
  BY <1>3, <1>4, <1>5, <1>6, <1>7 DEF TypeInv, TypeOK

\* The goroutines of the controller and baresip keep every type; with it, none of them
\* works on an attempt or a call that was never made (Held, Written, Rooted).
THEOREM CallTypeCorrect == Spec => []TypeOK
<1>1. TypeInv => TypeOK
  BY DEF TypeInv
<1> QED
  BY <1>1, InitType, StepType, PTL DEF Spec
-----------------------------------------------------------------------------
(* The call manager: its three indexes agree, although the goroutines that     *)
(* change them do not know of each other.  No attempt goes without a record,   *)
(* and no call that was answered here is left without a session or a hangup.   *)
\* ManagerConsistent, with what makes it inductive: an attempt waits in the queue of
\* its own peer.
IndexLeads ==
    \A c \in Calls : byCallID[c] # 0 => byCallID[c] \in byAttempt /\ sess[byCallID[c]].call = c

Waiting ==
    \A x \in Peers : \A i \in DOMAIN pendingByPeer[x] :
        LET a == pendingByPeer[x][i] IN
        a \in byAttempt /\ sess[a].dir = "outgoing" /\ sess[a].call = 0 /\ sess[a].peer = x

Once ==
    \A x \in Peers : \A i, j \in DOMAIN pendingByPeer[x] :
        pendingByPeer[x][i] = pendingByPeer[x][j] => i = j

ManagerInv == TypeInv /\ IndexLeads /\ Waiting /\ Once

\* The invariant is what ManagerConsistent says, and whose queue an attempt is in.
LEMMA ManagerInvSuffices == ManagerInv => ManagerConsistent
BY DEF ManagerInv, IndexLeads, Waiting, Once, ManagerConsistent, PendingAttempts

\* Before the first call nothing is registered.
LEMMA InitManager == Init => IndexLeads /\ Waiting /\ Once
<1>1. \A x \in Peers : Init => pendingByPeer[x] = <<>>
  BY DEF Init
<1> QED
  BY <1>1 DEF Init, IndexLeads, Waiting, Once

\* The queues hold attempts.
LEMMA QueueType ==
    ASSUME TypeInv, NEW x \in Peers
    PROVE  /\ pendingByPeer[x] \in Seq(Attempts)
           /\ \A i \in DOMAIN pendingByPeer[x] : pendingByPeer[x][i] \in Attempts
BY DEF TypeInv, TypeOK, MgrType
-----------------------------------------------------------------------------
(* What a step can do to the manager. *)

\* Whose a session is and the call it is bound to.
Bound(a) ==
    /\ sess[a].peer = sess'[a].peer
    /\ sess[a].dir = sess'[a].dir
    /\ sess[a].call = sess'[a].call

Frame == UNCHANGED <<byAttempt, byCallID, pendingByPeer>> /\ \A a \in Attempts : Bound(a)

\* A step that leaves the indexes, and what the sessions are bound to, alone.
LEMMA FrameKeeps ==
    ASSUME ManagerInv, Frame
    PROVE  IndexLeads' /\ Waiting' /\ Once'
<1>1. \A c \in Calls : byCallID[c] # 0 => byCallID[c] \in Attempts
  BY CallBoundAssumption DEF ManagerInv, TypeInv, TypeOK, MgrType, Attempts
<1>2. IndexLeads'
  BY <1>1 DEF ManagerInv, IndexLeads, Frame, Bound
<1>3. Waiting' /\ Once'
  BY QueueType DEF ManagerInv, Waiting, Once, Frame, Bound
<1> QED
  BY <1>2, <1>3

\* NewOutgoingAttempt: the new attempt is in no index yet.
LEMMA RegisterKeeps ==
    ASSUME ManagerInv, NEW p \in Peers, NEW proto \in DialModes, RegisterOutgoing(p, proto)
    PROVE  IndexLeads' /\ Waiting' /\ Once'
<1> DEFINE n == counter + 1
<1>1. /\ n \in Attempts /\ n \notin byAttempt
      /\ sess'[n] = NewCallSession(p, "outgoing", proto, 0)
      /\ \A a \in Attempts : a # n => sess'[a] = sess[a]
  <2>1. counter \in Nat /\ byAttempt \subseteq 1 .. counter
    BY DEF ManagerInv, TypeInv, TypeOK, MgrType
  <2> QED
    BY <2>1, RegisterType DEF ManagerInv, TypeInv, TypeOK
<1>2. \A a \in byAttempt : a \in Attempts /\ sess'[a] = sess[a]
  BY <1>1, CallBoundAssumption DEF ManagerInv, TypeInv, TypeOK, MgrType, Attempts
<1>3. /\ byAttempt' = byAttempt \cup {n} /\ byCallID' = byCallID
      /\ pendingByPeer' = [pendingByPeer EXCEPT ![p] = Append(@, n)]
  BY DEF RegisterOutgoing
<1> HIDE DEF n
<1>4. IndexLeads'
  BY <1>2, <1>3 DEF ManagerInv, IndexLeads
<1>5. ASSUME NEW x \in Peers
      PROVE  /\ \A i \in DOMAIN pendingByPeer'[x] :
                   LET a == pendingByPeer'[x][i] IN
                   /\ a \in byAttempt' /\ sess'[a].dir = "outgoing"
                   /\ sess'[a].call = 0 /\ sess'[a].peer = x
             /\ \A i, j \in DOMAIN pendingByPeer'[x] :
                   pendingByPeer'[x][i] = pendingByPeer'[x][j] => i = j
  <2>1. CASE x # p
    <3>1. pendingByPeer'[x] = pendingByPeer[x]
      BY <1>3, <2>1 DEF ManagerInv, TypeInv, TypeOK, MgrType
    <3>2. \A i \in DOMAIN pendingByPeer[x] :
             /\ pendingByPeer[x][i] \in byAttempt /\ sess[pendingByPeer[x][i]].dir = "outgoing"
             /\ sess[pendingByPeer[x][i]].call = 0 /\ sess[pendingByPeer[x][i]].peer = x
      BY DEF ManagerInv, Waiting
    <3>3. \A i, j \in DOMAIN pendingByPeer[x] : pendingByPeer[x][i] = pendingByPeer[x][j] => i = j
      BY DEF ManagerInv, Once
    <3>4. ASSUME NEW i \in DOMAIN pendingByPeer[x]
          PROVE  LET a == pendingByPeer[x][i] IN
                 /\ a \in byAttempt'
                 /\ sess'[a].dir = "outgoing"
                 /\ sess'[a].call = 0
                 /\ sess'[a].peer = x
      <4>1. pendingByPeer[x][i] \in byAttempt'
        BY <1>3, <3>2
      <4>2. sess'[pendingByPeer[x][i]] = sess[pendingByPeer[x][i]]
        BY <1>2, <3>2
      <4> QED
        BY <3>2, <4>1, <4>2
    <3> QED
      BY <3>1, <3>3, <3>4, Zenon
  <2>2. CASE x = p
    <3> DEFINE q == pendingByPeer[p]
    <3>1. pendingByPeer'[x] = Append(q, n) /\ q \in Seq(Attempts)
      BY <1>3, <2>2, QueueType DEF ManagerInv, TypeInv, TypeOK, MgrType
    <3>2. \A i \in DOMAIN q :
             /\ q[i] \in byAttempt /\ sess[q[i]].dir = "outgoing"
             /\ sess[q[i]].call = 0 /\ sess[q[i]].peer = x
      BY <2>2 DEF ManagerInv, Waiting
    <3>3. \A i, j \in DOMAIN q : q[i] = q[j] => i = j
      BY DEF ManagerInv, Once
    <3>4. sess'[n].dir = "outgoing" /\ sess'[n].call = 0 /\ sess'[n].peer = x
      BY <1>1, <2>2 DEF NewCallSession
    <3> HIDE DEF q
    <3>5. /\ DOMAIN Append(q, n) = 1 .. Len(q) + 1 /\ DOMAIN q = 1 .. Len(q) /\ Len(q) \in Nat
          /\ Append(q, n)[Len(q) + 1] = n
          /\ \A i \in 1 .. Len(q) : Append(q, n)[i] = q[i]
      BY <3>1, <1>1
    <3>6. \A i \in 1 .. Len(q) : q[i] \in byAttempt /\ q[i] # n /\ sess'[q[i]] = sess[q[i]]
      BY <1>1, <1>2, <3>2, <3>5
    <3>7. \A i \in DOMAIN Append(q, n) : i \in 1 .. Len(q) \/ i = Len(q) + 1
      BY <3>5
    <3>8. ASSUME NEW i \in DOMAIN Append(q, n)
          PROVE  LET a == Append(q, n)[i] IN
                 /\ a \in byAttempt'
                 /\ sess'[a].dir = "outgoing"
                 /\ sess'[a].call = 0
                 /\ sess'[a].peer = x
      <4>1. CASE i \in 1 .. Len(q)
        BY <1>3, <3>2, <3>5, <3>6, <4>1
      <4>2. CASE i = Len(q) + 1
        BY <1>3, <3>4, <3>5, <4>2
      <4> QED
        BY <3>7, <4>1, <4>2
    <3>9. ASSUME NEW i \in DOMAIN Append(q, n), NEW j \in DOMAIN Append(q, n),
                 Append(q, n)[i] = Append(q, n)[j]
          PROVE  i = j
      BY <3>3, <3>5, <3>6, <3>7, <3>9
    <3> QED
      BY <3>1, <3>8, <3>9
  <2> QED
    BY <2>1, <2>2
<1> QED
  BY <1>4, <1>5 DEF Waiting, Once

\* RemoveSession: a session is in no index but its own call's and its own peer's.
LEMMA RemoveKeeps ==
    ASSUME ManagerInv, NEW a \in Attempts, RemoveSession(a), \A b \in Attempts : Bound(b)
    PROVE  IndexLeads' /\ Waiting' /\ Once'
<1> DEFINE p == sess[a].peer
<1>1. p \in Peers
  BY DEF ManagerInv, TypeInv, TypeOK, MgrType, Session
<1>2. /\ byAttempt' = byAttempt \ {a}
      /\ \A c \in Calls : byCallID'[c] = IF sess[a].call = c THEN 0 ELSE byCallID[c]
      /\ pendingByPeer'[p] = NotPending(pendingByPeer[p], a)
      /\ \A x \in Peers : x # p => pendingByPeer'[x] = pendingByPeer[x]
  BY <1>1 DEF ManagerInv, TypeInv, TypeOK, MgrType, RemoveSession, Unregistered
<1>3. \A b \in byAttempt : b \in Attempts
  BY CallBoundAssumption DEF ManagerInv, TypeInv, TypeOK, MgrType, Attempts
<1> HIDE DEF p
<1>4. IndexLeads'
  <2>1. ASSUME NEW c \in Calls, byCallID'[c] # 0
        PROVE  byCallID'[c] \in byAttempt' /\ sess'[byCallID'[c]].call = c
    <3>1. /\ sess[a].call # c /\ byCallID'[c] = byCallID[c]
          /\ byCallID[c] \in byAttempt /\ sess[byCallID[c]].call = c
      BY <1>2, <2>1 DEF ManagerInv, IndexLeads
    <3> QED
      BY <1>2, <1>3, <3>1 DEF Bound
  <2> QED
    BY <2>1 DEF IndexLeads
<1>5. ASSUME NEW x \in Peers
      PROVE  /\ \A i \in DOMAIN pendingByPeer'[x] :
                   /\ pendingByPeer'[x][i] # a
                   /\ \E j \in DOMAIN pendingByPeer[x] : pendingByPeer[x][j] = pendingByPeer'[x][i]
             /\ \A i, j \in DOMAIN pendingByPeer'[x] :
                   pendingByPeer'[x][i] = pendingByPeer'[x][j] => i = j
  <2>1. CASE x = p
    BY <1>2, <2>1, QueueType, NotPendingType, NotPendingOnce DEF ManagerInv, Once
  <2>2. CASE x # p
    BY <1>2, <2>2 DEF ManagerInv, Waiting, Once, p
  <2> QED
    BY <2>1, <2>2
<1>6. Waiting' /\ Once'
  BY <1>2, <1>3, <1>5 DEF ManagerInv, Waiting, Once, Bound
<1> QED
  BY <1>4, <1>6

\* BindOutgoingCallID: the attempt leaves the queue for the call's entry.
LEMMA BindKeeps ==
    ASSUME ManagerInv, NEW c \in Calls, Bindable(c), BindOutgoing(c), UNCHANGED byAttempt,
           sess'[Head(Pending(c))].call = c,
           \A a \in Attempts : a # Head(Pending(c)) => sess'[a] = sess[a]
    PROVE  IndexLeads' /\ Waiting' /\ Once'
<1> DEFINE p == calls[c].peer
           q == pendingByPeer[p]
           h == Head(Pending(c))
<1>1. p \in Peers /\ q \in Seq(Attempts) /\ q # <<>>
  BY ResolvedType, QueueType DEF ManagerInv, TypeInv, TypeOK, Bindable, Pending
<1>2. /\ h = q[1] /\ 1 \in DOMAIN q
      /\ byCallID' = [byCallID EXCEPT ![c] = h]
      /\ pendingByPeer'[p] = Tail(q)
      /\ \A x \in Peers : x # p => pendingByPeer'[x] = pendingByPeer[x]
  BY <1>1 DEF BindOutgoing, Bindable, Pending, ManagerInv, TypeInv, TypeOK, MgrType
<1>3. \A i \in DOMAIN Tail(q) :
         i + 1 \in DOMAIN q /\ Tail(q)[i] = q[i + 1] /\ i + 1 # 1 /\ i \in Nat
  BY <1>1
<1>4. h \in Attempts /\ h \in byAttempt /\ sess[h].call = 0 /\ sess[h].peer = p
  BY <1>1, <1>2 DEF ManagerInv, Waiting
<1>5. \A b \in byAttempt : b \in Attempts
  BY CallBoundAssumption DEF ManagerInv, TypeInv, TypeOK, MgrType, Attempts
<1>6. sess'[h].call = c /\ \A a \in Attempts : a # h => sess'[a] = sess[a]
  OBVIOUS
<1> HIDE DEF p, q, h
<1>7. IndexLeads'
  <2>1. ASSUME NEW d \in Calls, byCallID'[d] # 0
        PROVE  byCallID'[d] \in byAttempt /\ sess'[byCallID'[d]].call = d
    <3>1. CASE d = c
      BY <1>2, <1>4, <1>6, <3>1 DEF ManagerInv, TypeInv, TypeOK, MgrType
    <3>2. CASE d # c
      <4>1. byCallID'[d] = byCallID[d] /\ byCallID[d] \in byAttempt /\ sess[byCallID[d]].call = d
        BY <1>2, <2>1, <3>2 DEF ManagerInv, TypeInv, TypeOK, MgrType, IndexLeads
      <4>2. d # 0
        BY DEF Calls
      <4> QED
        BY <1>4, <1>5, <1>6, <4>1, <4>2
    <3> QED
      BY <3>1, <3>2
  <2> QED
    BY <2>1 DEF IndexLeads
<1>8. ASSUME NEW x \in Peers
      PROVE  /\ \A i \in DOMAIN pendingByPeer'[x] :
                   /\ pendingByPeer'[x][i] # h
                   /\ \E j \in DOMAIN pendingByPeer[x] : pendingByPeer[x][j] = pendingByPeer'[x][i]
             /\ \A i, j \in DOMAIN pendingByPeer'[x] :
                   pendingByPeer'[x][i] = pendingByPeer'[x][j] => i = j
  <2>1. CASE x = p
    <3>1. pendingByPeer'[x] = Tail(q) /\ pendingByPeer[x] = q
      BY <1>2, <2>1 DEF q
    <3>2. \A i, j \in DOMAIN q : q[i] = q[j] => i = j
      BY <1>1 DEF ManagerInv, Once, q
    <3> QED
      BY <1>2, <1>3, <3>1, <3>2
  <2>2. CASE x # p
    BY <1>2, <1>4, <2>2 DEF ManagerInv, Waiting, Once
  <2> QED
    BY <2>1, <2>2
<1>9. Waiting' /\ Once'
  BY <1>5, <1>6, <1>8 DEF ManagerInv, Waiting, Once
<1> QED
  BY <1>7, <1>9

\* The events' handlers, which bind if the call-id is not known.
LEMMA HandlesKeeps ==
    ASSUME ManagerInv, NEW c \in Calls, NEW s, Handles(c, s),
           Resolved(c) # 0 => Sound(s, sess[Resolved(c)]) /\ s.call = c
    PROVE  IndexLeads' /\ Waiting' /\ Once'
<1>1. /\ \A a \in Attempts : sess'[a] = IF a = Resolved(c) THEN s ELSE sess[a]
      /\ Resolved(c) # 0 => Resolved(c) \in Attempts
      /\ UNCHANGED byAttempt
  BY HandlesType, ResolvedType DEF ManagerInv, TypeInv, TypeOK, Sound, Handles, Resolve
<1>2. CASE byCallID[c] = 0 /\ Bindable(c)
  <2>1. Resolved(c) = Head(Pending(c)) /\ BindOutgoing(c) /\ Resolved(c) \in Attempts
    BY <1>2, ResolvedType DEF Resolved, Handles, Resolve, ManagerInv, TypeInv, TypeOK
  <2>2. Resolved(c) # 0
    BY <2>1 DEF Attempts
  <2> QED
    BY <1>1, <1>2, <2>1, <2>2, BindKeeps
<1>3. CASE ~(byCallID[c] = 0 /\ Bindable(c))
  <2>1. UNCHANGED <<byAttempt, byCallID, pendingByPeer>>
    BY <1>1, <1>3 DEF Handles, Resolve
  <2>2. Resolved(c) # 0 => sess[Resolved(c)].call = c
    BY <1>3 DEF Resolved, ManagerInv, IndexLeads
  <2>3. \A a \in Attempts : Bound(a)
    BY <1>1, <2>2 DEF Bound, Sound, Attempts
  <2> QED
    BY <2>1, <2>3, FrameKeeps DEF Frame
<1> QED
  BY <1>2, <1>3

\* NewIncomingSession: the new session takes the call's entry.
LEMMA IncomingKeeps ==
    ASSUME ManagerInv, NEW c \in Calls, NEW t,
           counter < MaxAttempts,
           byAttempt' = byAttempt \cup {counter + 1},
           byCallID' = [byCallID EXCEPT ![c] = counter + 1],
           sess' = [sess EXCEPT ![counter + 1] = t], t.call = c,
           UNCHANGED pendingByPeer
    PROVE  IndexLeads' /\ Waiting' /\ Once'
<1> DEFINE n == counter + 1
<1>1. n \in Attempts /\ n \notin byAttempt /\ byAttempt \subseteq Attempts
  BY CallBoundAssumption DEF ManagerInv, TypeInv, TypeOK, MgrType, Attempts
<1>2. sess'[n] = t /\ \A a \in byAttempt : sess'[a] = sess[a]
  BY <1>1 DEF ManagerInv, TypeInv, TypeOK, MgrType
<1>3. \A d \in Calls : byCallID'[d] = IF d = c THEN n ELSE byCallID[d]
  BY DEF ManagerInv, TypeInv, TypeOK, MgrType
<1> HIDE DEF n
<1>4. byAttempt' = byAttempt \cup {n}
  BY DEF n
<1>5. IndexLeads'
  BY <1>2, <1>3, <1>4 DEF ManagerInv, IndexLeads
<1>6. Waiting' /\ Once'
  BY <1>2, <1>4 DEF ManagerInv, Waiting, Once
<1> QED
  BY <1>5, <1>6
\* One session changes, and stays as it is bound.
LEMMA UpdateKeeps ==
    ASSUME ManagerInv, NEW a \in Attempts, NEW t, Same(t, sess[a]),
           sess' = [sess EXCEPT ![a] = t], UNCHANGED index
    PROVE  IndexLeads' /\ Waiting' /\ Once'
<1>1. \A b \in Attempts : sess'[b] = IF b = a THEN t ELSE sess[b]
  BY DEF ManagerInv, TypeInv, TypeOK, MgrType
<1>2. \A b \in Attempts : Bound(b)
  BY <1>1 DEF Bound, Same, Sound
<1> QED
  BY <1>2, FrameKeeps DEF Frame

\* ... and is removed.
LEMMA RemovedKeeps ==
    ASSUME ManagerInv, NEW a \in Attempts, NEW t, Same(t, sess[a]),
           sess' = [sess EXCEPT ![a] = t], RemoveSession(a)
    PROVE  IndexLeads' /\ Waiting' /\ Once'
<1>1. \A b \in Attempts : sess'[b] = IF b = a THEN t ELSE sess[b]
  BY DEF ManagerInv, TypeInv, TypeOK, MgrType
<1>2. \A b \in Attempts : Bound(b)
  BY <1>1 DEF Bound, Same, Sound
<1> QED
  BY <1>2, RemoveKeeps

\* So is a step that is not about the manager.
LEMMA StutterKeeps ==
    ASSUME ManagerInv, UNCHANGED mgr
    PROVE  IndexLeads' /\ Waiting' /\ Once'
BY FrameKeeps DEF Frame, Bound
-----------------------------------------------------------------------------
(* What a step does to the manager, by the kind of step. *)

\* NewOutgoingAttempt.
Registers ==
    /\ counter + 1 \in Attempts /\ counter' = counter + 1
    /\ byAttempt' = byAttempt \cup {counter + 1} /\ byCallID' = byCallID
    /\ sess'[counter + 1].dir = "outgoing" /\ sess'[counter + 1].call = 0
    /\ \A a \in Attempts : a # counter + 1 => Bound(a)

\* NewIncomingSession.
Admits ==
    /\ counter + 1 \in Attempts /\ counter' = counter + 1
    /\ byAttempt' = byAttempt \cup {counter + 1} /\ loop.call \in Calls
    /\ \A d \in Calls : byCallID'[d] = IF d = loop.call THEN counter + 1 ELSE byCallID[d]
    /\ sess'[counter + 1].dir = "incoming" /\ sess'[counter + 1].call = loop.call
    /\ \A a \in Attempts : a # counter + 1 => Bound(a)

\* RemoveSession.
Removes(a) ==
    /\ counter' = counter /\ byAttempt' = byAttempt \ {a}
    /\ \A d \in Calls : byCallID'[d] = IF sess[a].call = d THEN 0 ELSE byCallID[d]
    /\ \A b \in Attempts : Bound(b)

\* BindOutgoingCallID, for the event that is handled.
Binds(a, c) ==
    /\ Ready /\ c = Event.call /\ events' = Tail(events)
    /\ byCallID[c] = 0 \/ OnIncomingCall
    /\ a \in byAttempt /\ sess[a].dir = "outgoing" /\ sess[a].call = 0
    /\ counter' = counter /\ byAttempt' = byAttempt
    /\ \A d \in Calls : byCallID'[d] = IF d = c THEN a ELSE byCallID[d]
    /\ sess'[a].dir = "outgoing" /\ sess'[a].call = c
    /\ \A b \in Attempts : b # a => Bound(b)

Steady == UNCHANGED <<byAttempt, byCallID, counter>> /\ \A a \in Attempts : Bound(a)

\* The session of an event may have to be bound.
LEMMA HandlesSteps ==
    ASSUME ManagerInv, Ready, events' = Tail(events), NEW s, Handles(Event.call, s),
           Resolved(Event.call) # 0 =>
              Sound(s, sess[Resolved(Event.call)]) /\ s.call = Event.call
    PROVE  Steady \/ \E a \in Attempts : Binds(a, Event.call)
<1> DEFINE c == Event.call
           h == Head(Pending(c))
<1>0. c \in Calls
  BY EventType DEF ManagerInv, TypeInv, TypeOK
<1>1. /\ \A a \in Attempts : sess'[a] = IF a = Resolved(c) THEN s ELSE sess[a]
      /\ Resolved(c) # 0 => Resolved(c) \in Attempts
      /\ UNCHANGED <<byAttempt, counter>>
  BY <1>0, HandlesType, ResolvedType DEF ManagerInv, TypeInv, TypeOK, Sound, Handles, Resolve
<1>2. CASE byCallID[c] = 0 /\ Bindable(c)
  <2>1. Resolved(c) = h /\ BindOutgoing(c) /\ h \in Attempts
    BY <1>0, <1>2, ResolvedType DEF Resolved, Handles, Resolve, ManagerInv, TypeInv, TypeOK
  <2>2. h # 0
    BY <2>1 DEF Attempts
  <2>3. calls[c].peer \in Peers /\ pendingByPeer[calls[c].peer] \in Seq(Attempts)
        /\ pendingByPeer[calls[c].peer] # <<>>
    BY <1>0, <1>2, ResolvedType DEF ManagerInv, TypeInv, TypeOK, MgrType, Bindable, Pending
  <2>4. h \in byAttempt /\ sess[h].dir = "outgoing" /\ sess[h].call = 0
    BY <2>3 DEF ManagerInv, Waiting, Pending
  <2>5. \A d \in Calls : byCallID'[d] = IF d = c THEN h ELSE byCallID[d]
    BY <1>0, <2>1 DEF BindOutgoing, ManagerInv, TypeInv, TypeOK, MgrType
  <2>6. sess'[h].dir = "outgoing" /\ sess'[h].call = c
    BY <1>1, <2>1, <2>2, <2>4 DEF Sound
  <2>7. \A b \in Attempts : b # h => Bound(b)
    BY <1>1, <2>1 DEF Bound
  <2> QED
    BY <1>1, <1>2, <2>1, <2>4, <2>5, <2>6, <2>7 DEF Binds
<1>3. CASE ~(byCallID[c] = 0 /\ Bindable(c))
  <2>1. UNCHANGED <<byAttempt, byCallID, counter>>
    BY <1>1, <1>3 DEF Handles, Resolve
  <2>2. Resolved(c) # 0 => sess[Resolved(c)].call = c
    BY <1>0, <1>3 DEF Resolved, ManagerInv, IndexLeads
  <2>3. \A a \in Attempts : Bound(a)
    BY <1>1, <2>2 DEF Bound, Sound, Attempts
  <2> QED
    BY <2>1, <2>3 DEF Steady
<1> QED
  BY <1>2, <1>3

\* Who calls RemoveSession.
Removing(a) ==
    \/ (RefusedEnds \/ DialFails) /\ a = dialer.att
    \/ ClosedEnds /\ a = loop.att
    \/ \E who \in Rejecters : EndReject(a, who)

\* One session changes, and stays as it is bound.
LEMMA UpdateSteps ==
    ASSUME ManagerInv, NEW a \in Attempts, NEW t, Same(t, sess[a]),
           sess' = [sess EXCEPT ![a] = t]
    PROVE  /\ \A b \in Attempts : Bound(b)
           /\ UNCHANGED index => Steady
           /\ RemoveSession(a) => Removes(a)
<1>1. \A b \in Attempts : sess'[b] = IF b = a THEN t ELSE sess[b]
  BY DEF ManagerInv, TypeInv, TypeOK, MgrType
<1>2. \A b \in Attempts : Bound(b)
  BY <1>1 DEF Bound, Same, Sound
<1>3. UNCHANGED index => Steady
  BY <1>2 DEF Steady
<1>4. RemoveSession(a) => Removes(a)
  BY <1>2 DEF RemoveSession, Removes, Unregistered
<1> QED
  BY <1>2, <1>3, <1>4

LEMMA StutterSteps ==
    ASSUME ManagerInv, UNCHANGED mgr
    PROVE  Steady
BY DEF Steady, Bound

LEMMA RegisterSteps ==
    ASSUME ManagerInv, NEW p \in Peers, NEW proto \in DialModes, RegisterOutgoing(p, proto)
    PROVE  Registers
<1>1. /\ counter + 1 \in Attempts /\ counter' = counter + 1
      /\ sess'[counter + 1] = NewCallSession(p, "outgoing", proto, 0)
      /\ \A a \in Attempts : a # counter + 1 => sess'[a] = sess[a]
  BY RegisterType DEF ManagerInv, TypeInv, TypeOK
<1>2. /\ byAttempt' = byAttempt \cup {counter + 1} /\ byCallID' = byCallID
  BY DEF RegisterOutgoing
<1>3. sess'[counter + 1].dir = "outgoing" /\ sess'[counter + 1].call = 0
  BY <1>1 DEF NewCallSession
<1> QED
  BY <1>1, <1>2, <1>3 DEF Registers, Bound

LEMMA AdmitSteps ==
    ASSUME ManagerInv, CreateIncoming
    PROVE  Admits
<1> DEFINE c == loop.call
           s == NewCallSession(calls[c].peer, "incoming", Integrated, c)
           t == IF Integrated THEN [s EXCEPT !.timer = "armed"] ELSE s
<1>1. c \in Calls
  BY DEF CreateIncoming, Loop, ManagerInv, TypeInv, Held
<1>2. t.call = c /\ t.dir = "incoming"
  BY DEF NewCallSession
<1>3. /\ counter < MaxAttempts /\ counter' = counter + 1 /\ byAttempt' = byAttempt \cup {counter + 1}
      /\ byCallID' = [byCallID EXCEPT ![c] = counter + 1]
      /\ sess' = [sess EXCEPT ![counter + 1] = t]
  BY DEF CreateIncoming
<1> HIDE DEF t
<1>4. counter + 1 \in Attempts
  BY <1>3, CallBoundAssumption DEF ManagerInv, TypeInv, TypeOK, MgrType, Attempts
<1>5. /\ sess'[counter + 1] = t /\ \A a \in Attempts : a # counter + 1 => sess'[a] = sess[a]
      /\ \A d \in Calls : byCallID'[d] = IF d = c THEN counter + 1 ELSE byCallID[d]
  BY <1>1, <1>3, <1>4 DEF ManagerInv, TypeInv, TypeOK, MgrType
<1> QED
  BY <1>1, <1>2, <1>3, <1>4, <1>5 DEF Admits, Bound

\* A waiting attempt is bound: by an incoming signal, which need not be the first.
LEMMA IncomingBinds ==
    ASSUME ManagerInv, Ready, OnIncomingCall, Bindable(Event.call), BindOutgoing(Event.call),
           sess' = [sess EXCEPT ![Head(Pending(Event.call))].call = Event.call],
           UNCHANGED byAttempt
    PROVE  \E a \in Attempts : Binds(a, Event.call)
<1> DEFINE c == Event.call
           h == Head(Pending(c))
<1>0. c \in Calls
  BY EventType DEF ManagerInv, TypeInv, TypeOK
<1>1. calls[c].peer \in Peers /\ pendingByPeer[calls[c].peer] \in Seq(Attempts)
      /\ pendingByPeer[calls[c].peer] # <<>> /\ h \in Attempts
  BY <1>0, ResolvedType DEF ManagerInv, TypeInv, TypeOK, MgrType, Bindable, Pending
<1>2. h \in byAttempt /\ sess[h].dir = "outgoing" /\ sess[h].call = 0
  BY SMTT(30), <1>1 DEF ManagerInv, Waiting, Pending
<1>3. \A d \in Calls : byCallID'[d] = IF d = c THEN h ELSE byCallID[d]
  BY <1>0 DEF BindOutgoing, ManagerInv, TypeInv, TypeOK, MgrType
<1>4. sess[h] \in Session /\ sess' = [sess EXCEPT ![h] = [sess[h] EXCEPT !.call = c]]
  BY <1>1 DEF ManagerInv, TypeInv, TypeOK, MgrType
<1>5. /\ sess'[h].call = c /\ sess'[h].dir = "outgoing"
      /\ \A b \in Attempts : b # h => Bound(b)
  BY <1>1, <1>2, <1>4 DEF ManagerInv, TypeInv, TypeOK, MgrType, Session, Bound
<1>6. counter' = counter /\ events' = Tail(events)
  BY DEF OnIncomingCall
<1> QED
  BY <1>0, <1>1, <1>2, <1>3, <1>5, <1>6 DEF Binds

ManagerStep ==
    \/ Steady
    \/ Registers /\ (RefuseOverlapping \/ CreateAndDial)
    \/ Admits /\ CreateIncoming
    \/ \E a \in Attempts : Removes(a) /\ Removing(a)
    \/ \E a \in Attempts, c \in Calls : Binds(a, c)
-----------------------------------------------------------------------------
\* No action of any goroutine breaks the agreement of the indexes, and each is of one kind.
LEMMA StepManager ==
    ASSUME ManagerInv, [Next]_vars
    PROVE  IndexLeads' /\ Waiting' /\ Once' /\ ManagerStep
<1> DEFINE Kept == IndexLeads' /\ Waiting' /\ Once' /\ ManagerStep
<1>1. TypeInv
  BY DEF ManagerInv
<1>2. CASE UNCHANGED mgr
  BY <1>2, StutterKeeps, StutterSteps DEF ManagerStep
<1>3. CASE RefuseOverlapping
  BY <1>1, <1>3, RegisterKeeps, RegisterSteps DEF ManagerStep, RefuseOverlapping, TypeInv, TypeOK, ProcType
<1>4. CASE CreateAndDial
  BY <1>1, <1>4, RegisterKeeps, RegisterSteps DEF ManagerStep, CreateAndDial, TypeInv, TypeOK, ProcType
<1>5. CASE DialReturns
  <2>1. dialer.att \in Attempts
    BY <1>1, <1>5 DEF DialReturns, Dialer, TypeInv, Held
  <2>2. /\ sess' = [sess EXCEPT ![dialer.att] =
                    [sess[dialer.att] EXCEPT !.dialled = (reply[dialer.att] # "none")]]
        /\ UNCHANGED index
    BY <1>5 DEF DialReturns
  <2> QED
    BY <1>1, <2>1, <2>2, SoundFields, UpdateKeeps, UpdateSteps DEF Same, ManagerStep
<1>6. CASE DialerEmitsAnswered
  <2>1. dialer.att \in Attempts
    BY <1>1, <1>6 DEF DialerEmitsAnswered, Dialer, TypeInv, Held
  <2>2. /\ sess' = [sess EXCEPT ![dialer.att] = [sess[dialer.att] EXCEPT !.reported = TRUE]]
        /\ UNCHANGED index
    BY <1>6 DEF DialerEmitsAnswered
  <2> QED
    BY <1>1, <2>1, <2>2, SoundFields, UpdateKeeps, UpdateSteps DEF Same, ManagerStep
<1>7. CASE DialSucceeds
  <2>1. dialer.att \in Attempts
    BY <1>1, <1>7 DEF DialSucceeds, Dialer, TypeInv, Held
  <2>2. /\ sess' = [sess EXCEPT ![dialer.att] = [sess[dialer.att] EXCEPT !.closed = FALSE]]
        /\ UNCHANGED index
    BY <1>7 DEF DialSucceeds
  <2> QED
    BY <1>1, <2>1, <2>2, SoundFields, UpdateKeeps, UpdateSteps DEF Same, ManagerStep
<1>8. CASE LoopEmitsAnswered
  <2>1. loop.att \in Attempts
    BY <1>1, <1>8 DEF LoopEmitsAnswered, Loop, TypeInv, Held
  <2>2. /\ sess' = [sess EXCEPT ![loop.att] = [sess[loop.att] EXCEPT !.reported = TRUE]]
        /\ UNCHANGED index
    BY <1>8 DEF LoopEmitsAnswered
  <2> QED
    BY <1>1, <2>1, <2>2, SoundFields, UpdateKeeps, UpdateSteps DEF Same, ManagerStep
<1>9. CASE RefusedEnds
  <2>1. dialer.att \in Attempts
    BY <1>1, <1>9 DEF RefusedEnds, Dialer, TypeInv, Held
  <2>2. /\ sess' = [sess EXCEPT ![dialer.att] = CleanedUp(Closed(sess[dialer.att]))]
        /\ RemoveSession(dialer.att)
    BY <1>9 DEF RefusedEnds
  <2>3. IndexLeads' /\ Waiting' /\ Once'
    BY <1>1, <2>1, <2>2, SoundFields, RemovedKeeps
  <2>4. Removes(dialer.att)
    BY <1>1, <2>1, <2>2, SoundFields, UpdateSteps
  <2>5. Removing(dialer.att)
    BY <1>9 DEF Removing
  <2> QED
    BY <2>1, <2>3, <2>4, <2>5 DEF ManagerStep
<1>10. CASE DialFails
  <2>1. dialer.att \in Attempts
    BY <1>1, <1>10 DEF DialFails, Dialer, TypeInv, Held
  <2>2. /\ sess' = [sess EXCEPT ![dialer.att] = CleanedUp(sess[dialer.att])]
        /\ RemoveSession(dialer.att)
    BY <1>10 DEF DialFails
  <2>3. IndexLeads' /\ Waiting' /\ Once'
    BY <1>1, <2>1, <2>2, SoundFields, RemovedKeeps
  <2>4. Removes(dialer.att)
    BY <1>1, <2>1, <2>2, SoundFields, UpdateSteps
  <2>5. Removing(dialer.att)
    BY <1>10 DEF Removing
  <2> QED
    BY <2>1, <2>3, <2>4, <2>5 DEF ManagerStep
<1>11. CASE ClosedEnds
  <2>1. loop.att \in Attempts
    BY <1>1, <1>11 DEF ClosedEnds, Loop, TypeInv, Held
  <2>2. sess' = [sess EXCEPT ![loop.att] = CleanedUp(sess[loop.att])] /\ RemoveSession(loop.att)
    BY <1>11 DEF ClosedEnds
  <2>3. IndexLeads' /\ Waiting' /\ Once'
    BY <1>1, <2>1, <2>2, SoundFields, RemovedKeeps
  <2>4. Removes(loop.att)
    BY <1>1, <2>1, <2>2, SoundFields, UpdateSteps
  <2>5. Removing(loop.att)
    BY <1>11 DEF Removing
  <2> QED
    BY <2>1, <2>3, <2>4, <2>5 DEF ManagerStep
<1>12. CASE OnCallOutgoing
  <2>1. Event.call \in Calls /\ Ready /\ events' = Tail(events)
    BY <1>1, <1>12, EventType DEF OnCallOutgoing, Ready, TypeInv, TypeOK
  <2>2. Handles(Event.call, ResolvedSession(Event.call))
    BY <1>12 DEF OnCallOutgoing
  <2> QED
    BY <1>1, <2>1, <2>2, SoundHandled, HandlesKeeps, HandlesSteps DEF ManagerStep
<1>13. CASE OnCallRinging
  <2>1. Event.call \in Calls /\ Ready /\ events' = Tail(events)
    BY <1>1, <1>13, EventType DEF OnCallRinging, Ready, TypeInv, TypeOK
  <2>2. Handles(Event.call, [ResolvedSession(Event.call) EXCEPT !.closed = FALSE])
    BY <1>13 DEF OnCallRinging
  <2> QED
    BY <1>1, <2>1, <2>2, SoundHandled, HandlesKeeps, HandlesSteps DEF ManagerStep
<1>14. CASE OnCallClosed
  <2>1. Event.call \in Calls /\ Ready /\ events' = Tail(events)
    BY <1>1, <1>14, EventType DEF OnCallClosed, Ready, TypeInv, TypeOK
  <2>2. Handles(Event.call, Closed(ResolvedSession(Event.call)))
    BY <1>14 DEF OnCallClosed
  <2> QED
    BY <1>1, <2>1, <2>2, SoundHandled, HandlesKeeps, HandlesSteps DEF ManagerStep
<1>15. CASE OnCallAnswered
  <2>1. Event.call \in Calls /\ Ready /\ events' = Tail(events)
    BY <1>1, <1>15, EventType DEF OnCallAnswered, Ready, TypeInv, TypeOK
  <2>2. \/ Handles(Event.call, AnsweredSession(ResolvedSession(Event.call)))
        \/ Handles(Event.call, EstablishedSession(ResolvedSession(Event.call)))
    BY <1>15 DEF OnCallAnswered
  <2> QED
    BY <1>1, <2>1, <2>2, SoundHandled, HandlesKeeps, HandlesSteps DEF ManagerStep
<1>16. CASE OnIncomingCall /\ ~ UNCHANGED mgr
  <2> DEFINE c == Event.call
             h == Head(Pending(c))
  <2>1. c \in Calls /\ Ready
    BY <1>1, <1>16, EventType DEF OnIncomingCall, Ready, TypeInv, TypeOK
  <2>2. Bindable(c) /\ BindOutgoing(c) /\ sess' = [sess EXCEPT ![h].call = c] /\ UNCHANGED byAttempt
    BY <1>16 DEF OnIncomingCall
  <2>3. h \in Attempts
    BY <1>1, <2>1, <2>2, ResolvedType DEF TypeInv, TypeOK
  <2>4. sess[h] \in Session /\ sess' = [sess EXCEPT ![h] = [sess[h] EXCEPT !.call = c]]
    BY <1>1, <2>2, <2>3 DEF TypeInv, TypeOK, MgrType
  <2>5. sess'[h].call = c /\ \A a \in Attempts : a # h => sess'[a] = sess[a]
    BY <1>1, <2>3, <2>4 DEF TypeInv, TypeOK, MgrType, Session
  <2> QED
    BY <2>1, <2>2, <2>5, BindKeeps, IncomingBinds, <1>16 DEF ManagerStep
<1>17. CASE CreateIncoming
  <2> DEFINE c == loop.call
             s == NewCallSession(calls[c].peer, "incoming", Integrated, c)
             t == IF Integrated THEN [s EXCEPT !.timer = "armed"] ELSE s
  <2>1. c \in Calls
    BY <1>1, <1>17 DEF CreateIncoming, Loop, TypeInv, Held
  <2>2. t.call = c
    BY DEF NewCallSession
  <2>3. /\ counter < MaxAttempts /\ byAttempt' = byAttempt \cup {counter + 1}
        /\ byCallID' = [byCallID EXCEPT ![c] = counter + 1]
        /\ sess' = [sess EXCEPT ![counter + 1] = t] /\ UNCHANGED pendingByPeer
    BY <1>17 DEF CreateIncoming
  <2> HIDE DEF t
  <2> QED
    BY <1>17, <2>1, <2>2, <2>3, IncomingKeeps, AdmitSteps DEF ManagerStep
<1>18. ASSUME NEW a \in Attempts, BaselineHangup(a) PROVE Kept
  <2>2. sess' = [sess EXCEPT ![a] = [sess[a] EXCEPT !.hangup = "sent"]] /\ UNCHANGED index
    BY <1>18 DEF BaselineHangup
  <2> QED
    BY <1>1, <2>2, SoundFields, UpdateKeeps, UpdateSteps DEF Same, ManagerStep
<1>19. ASSUME NEW a \in Attempts, DiaStarts(a) PROVE Kept
  <2>2. /\ sess' = [sess EXCEPT ![a] = [sess[a] EXCEPT !.closed = FALSE, !.ctrl = "state"]]
        /\ UNCHANGED index
    BY <1>19 DEF DiaStarts
  <2> QED
    BY <1>1, <2>2, SoundFields, UpdateKeeps, UpdateSteps DEF Same, ManagerStep
<1>20. ASSUME NEW a \in Attempts, DiaOpens(a) PROVE Kept
  <2>2. /\ sess' = [sess EXCEPT ![a] =
                    [sess[a] EXCEPT !.ctrl = IF sess[a].ctrl = "state" THEN "open" ELSE "deaf"]]
        /\ UNCHANGED index
    BY <1>20 DEF DiaOpens
  <2> QED
    BY <1>1, <2>2, SoundFields, UpdateKeeps, UpdateSteps DEF Same, ManagerStep
<1>21. ASSUME NEW a \in Attempts, DiaCompletes(a) PROVE Kept
  <2>2. sess' = [sess EXCEPT ![a] = [sess[a] EXCEPT !.closed = FALSE]] /\ UNCHANGED index
    BY <1>21 DEF DiaCompletes
  <2> QED
    BY <1>1, <2>2, SoundFields, UpdateKeeps, UpdateSteps DEF Same, ManagerStep
<1>22. ASSUME NEW a \in Attempts, RecipientRejects(a) PROVE Kept
  <2>2. sess' = [sess EXCEPT ![a] = TimerCancelled(sess[a])] /\ UNCHANGED index
    BY <1>22 DEF RecipientRejects
  <2> QED
    BY <1>1, <2>2, SoundFields, UpdateKeeps, UpdateSteps DEF Same, ManagerStep
<1>23. ASSUME NEW a \in Attempts, RecipientAnswers(a) PROVE Kept
  <2>2. sess' = [sess EXCEPT ![a] = TimerCancelled(sess[a])] /\ UNCHANGED index
    BY <1>23 DEF RecipientAnswers
  <2> QED
    BY <1>1, <2>2, SoundFields, UpdateKeeps, UpdateSteps DEF Same, ManagerStep
<1>24. ASSUME NEW a \in Attempts, TimerFires(a) PROVE Kept
  <2>1. sess[a].timer # "off" /\ UNCHANGED index
        /\ sess' = [sess EXCEPT ![a] = [sess[a] EXCEPT !.timer = "firing"]]
    BY <1>24 DEF TimerFires
  <2> QED
    BY <1>1, <2>1, SoundFields, UpdateKeeps, UpdateSteps DEF ManagerStep
<1>25. ASSUME NEW a \in Attempts, TimerRejects(a) PROVE Kept
  <2>1. sess[a].timer # "off" /\ UNCHANGED index
        /\ sess' = [sess EXCEPT ![a] = [sess[a] EXCEPT !.timer = "off"]]
    BY <1>25 DEF TimerRejects
  <2> QED
    BY <1>1, <2>1, SoundFields, UpdateKeeps, UpdateSteps DEF ManagerStep
<1>26. ASSUME NEW a \in Attempts, DiaContinues(a), ~ UNCHANGED sess PROVE Kept
  <2>1. sess' = [sess EXCEPT ![a] = [sess[a] EXCEPT !.closed = FALSE]] /\ UNCHANGED index
    BY <1>26 DEF DiaContinues
  <2> QED
    BY <1>1, <2>1, SoundFields, UpdateKeeps, UpdateSteps DEF ManagerStep
<1>27. ASSUME NEW a \in Attempts, NEW who \in Rejecters, MarkRejected(a, who)
      PROVE  Kept
  <2>1. sess' = [sess EXCEPT ![a] = Closed(sess[a])] /\ UNCHANGED index
    BY <1>27 DEF MarkRejected
  <2> QED
    BY <1>1, <2>1, SoundFields, UpdateKeeps, UpdateSteps DEF ManagerStep
<1>28. ASSUME NEW a \in Attempts, NEW who \in Rejecters, EndReject(a, who)
      PROVE  Kept
  <2>2. sess' = [sess EXCEPT ![a] = CleanedUp(sess[a])] /\ RemoveSession(a)
    BY <1>28 DEF EndReject
  <2>3. IndexLeads' /\ Waiting' /\ Once'
    BY <1>1, <2>2, SoundFields, RemovedKeeps
  <2>4. Removes(a)
    BY <1>1, <2>2, SoundFields, UpdateSteps
  <2>5. Removing(a)
    BY <1>28 DEF Removing
  <2> QED
    BY <2>3, <2>4, <2>5 DEF ManagerStep
<1>29. ASSUME NEW a \in Attempts, \/ DiaMessage(a) \/ CallerFails(a)
                              \/ (DiaContinues(a) /\ UNCHANGED sess)
      PROVE  Kept
  BY <1>29, StutterKeeps, StutterSteps DEF ManagerStep, DiaMessage, CallerFails, DiaContinues
<1>30. ASSUME \/ \E p \in Peers : InitiateOutgoingCall(p)
             \/ DialerChecks \/ OnRemoteSDP \/ RejectBusy \/ AdmitIncoming \/ Baresip \/ Far
             \/ UNCHANGED vars
      PROVE  Kept
  BY <1>30, StutterKeeps, StutterSteps
     DEF ManagerStep, InitiateOutgoingCall, DialerChecks, OnRemoteSDP, RejectBusy, AdmitIncoming, Baresip, Far,
         BaresipDials, BaresipAccepts, BaresipHangsUp, PeerCalls, PeerRings, PeerAnswers,
         PeerHangsUp
<1> HIDE DEF Kept
<1>31. CASE DialerStep
  BY <1>31, <1>3, <1>9, <1>4, <1>5, <1>6, <1>7, <1>10, <1>30
     DEF DialerStep, Kept
<1>32. CASE LoopStep
  BY <1>32, <1>2, <1>12, <1>13, <1>15, <1>8, <1>14, <1>11, <1>16, <1>17, <1>30
     DEF LoopStep, Kept
<1>33. ASSUME NEW a \in Attempts, DiaStep(a) PROVE Kept
  BY <1>33, <1>19, <1>20, <1>26, <1>21, <1>22, <1>23, <1>27, <1>28, <1>29
     DEF DiaStep, Rejecters
<1>34. ASSUME NEW a \in Attempts, TimerStep(a) PROVE Kept
  BY <1>34, <1>25, <1>27, <1>28
     DEF TimerStep, Rejecters
<1> QED
  BY <1>31, <1>32, <1>33, <1>34, <1>18, <1>24, <1>29, <1>30 DEF Next, Kept

\* CallManager: from the first call on, whatever the dialling goroutine, the event loop,
\* the DIA goroutines and the timers do, the call-id index and the pending queues only
\* lead to registered sessions, and no attempt waits twice.
THEOREM ManagerAlwaysConsistent == Spec => []ManagerConsistent
<1>1. Init => ManagerInv
  BY InitType, InitManager DEF ManagerInv
<1>2. ManagerInv /\ [Next]_vars => ManagerInv'
  BY StepType, StepManager DEF ManagerInv
<1>3. ManagerInv => ManagerConsistent
  BY ManagerInvSuffices
<1> QED
  BY <1>1, <1>2, <1>3, PTL DEF Spec
-----------------------------------------------------------------------------
(* Who changes what. *)

\* The dialling goroutine works on an attempt of its own.
Working == {"refused", "wait", "check", "emit", "dialled", "failed"}

LEMMA DialerSteps ==
    ASSUME TypeInv, [Next]_vars
    PROVE  \/ dialer' = dialer
           \/ dialer'.pc \notin Working
           \/ /\ RefuseOverlapping \/ CreateAndDial
              /\ dialer'.att = counter + 1
              /\ dialer'.pc = "refused" => RefuseOverlapping
           \/ dialer'.att = dialer.att /\ dialer.pc \in Working /\ dialer'.pc # "refused"
<1>1. dialer \in [pc : {"idle", "refuse", "refused", "create", "wait", "check", "emit", "dialled",
                        "failed"}, att : 0 .. MaxAttempts, peer : Peers]
  BY DEF TypeInv, TypeOK, ProcType
<1>2. CASE \E p \in Peers : InitiateOutgoingCall(p)
  BY <1>2 DEF InitiateOutgoingCall, Working
<1>3. CASE DialerStep
  BY <1>1, <1>3
     DEF DialerStep, RefuseOverlapping, RefusedEnds, CreateAndDial, DialReturns, DialerChecks,
         DialerEmitsAnswered, DialSucceeds, DialFails, Dialer, Finish, Working
<1>4. CASE LoopStep
  BY <1>4
     DEF LoopStep, OnCallOutgoing, OnCallRinging, OnRemoteSDP, OnCallAnswered, LoopEmitsAnswered,
         OnCallClosed, ClosedEnds, OnIncomingCall, RejectBusy, AdmitIncoming, CreateIncoming
<1>5. CASE Baresip \/ Far
  BY <1>5
     DEF Baresip, BaresipDials, BaresipAccepts, BaresipHangsUp, Far, PeerCalls, PeerRings,
         PeerAnswers, PeerHangsUp
<1>6. ASSUME NEW a \in Attempts,
             DiaStep(a) \/ DiaMessage(a) \/ TimerFires(a) \/ TimerStep(a) \/ BaselineHangup(a)
      PROVE  dialer' = dialer
  BY <1>6
     DEF DiaStep, DiaStarts, DiaOpens, DiaContinues, DiaCompletes, CallerFails, RecipientRejects,
         RecipientAnswers, MarkRejected, EndReject, DiaMessage, TimerFires, TimerStep,
         TimerRejects, BaselineHangup
<1>7. CASE UNCHANGED vars
  BY <1>7
<1> QED
  BY <1>2, <1>3, <1>4, <1>5, <1>6, <1>7 DEF Next

\* The event loop.
LEMMA LoopSteps ==
    ASSUME TypeInv, [Next]_vars
    PROVE  \/ loop' = loop
           \/ /\ loop'.pc = "idle" /\ loop'.call = 0
              /\ loop.pc = "closed" => ClosedEnds
           \/ /\ Ready /\ loop'.call = Event.call
              /\ \/ OnCallAnswered /\ loop'.pc = "emit"
                 \/ OnCallClosed /\ loop'.pc = "closed" /\ loop'.att = Resolved(Event.call)
                    /\ Resolved(Event.call) # 0
                 \/ OnIncomingCall /\ loop'.pc = "incoming"
           \/ AdmitIncoming /\ loop.pc = "incoming" /\ loop'.pc = "create" /\ loop'.call = loop.call
<1>1. loop \in [pc : {"idle", "emit", "closed", "incoming", "create"}, call : 0 .. MaxCalls,
                att : 0 .. MaxAttempts]
  BY DEF TypeInv, TypeOK, ProcType
<1>2. CASE \E p \in Peers : InitiateOutgoingCall(p)
  BY <1>2 DEF InitiateOutgoingCall
<1>3. CASE DialerStep
  BY <1>3
     DEF DialerStep, RefuseOverlapping, RefusedEnds, CreateAndDial, DialReturns, DialerChecks,
         DialerEmitsAnswered, DialSucceeds, DialFails
<1>4. CASE LoopStep
  <2>1. CASE OnCallOutgoing \/ OnCallRinging \/ OnRemoteSDP
    BY <2>1 DEF OnCallOutgoing, OnCallRinging, OnRemoteSDP
  <2>2. CASE LoopEmitsAnswered \/ RejectBusy \/ CreateIncoming
    BY <2>2 DEF LoopEmitsAnswered, RejectBusy, CreateIncoming, Loop
  <2>3. CASE ClosedEnds
    BY <2>3 DEF ClosedEnds, Loop
  <2>4. CASE OnCallAnswered
    BY <2>4 DEF OnCallAnswered
  <2>5. CASE OnCallClosed
    BY <2>5 DEF OnCallClosed
  <2>6. CASE OnIncomingCall
    BY <2>6 DEF OnIncomingCall
  <2>7. CASE AdmitIncoming
    BY <1>1, <2>7 DEF AdmitIncoming
  <2> QED
    BY <1>4, <2>1, <2>2, <2>3, <2>4, <2>5, <2>6, <2>7 DEF LoopStep
<1>5. CASE Baresip \/ Far
  BY <1>5
     DEF Baresip, BaresipDials, BaresipAccepts, BaresipHangsUp, Far, PeerCalls, PeerRings,
         PeerAnswers, PeerHangsUp
<1>6. ASSUME NEW a \in Attempts,
             DiaStep(a) \/ DiaMessage(a) \/ TimerFires(a) \/ TimerStep(a) \/ BaselineHangup(a)
      PROVE  loop' = loop
  BY <1>6
     DEF DiaStep, DiaStarts, DiaOpens, DiaContinues, DiaCompletes, CallerFails, RecipientRejects,
         RecipientAnswers, MarkRejected, EndReject, DiaMessage, TimerFires, TimerStep,
         TimerRejects, BaselineHangup
<1>7. CASE UNCHANGED vars
  BY <1>7
<1> QED
  BY <1>2, <1>3, <1>4, <1>5, <1>6, <1>7 DEF Next

\* emitResult.
LEMMA EmitSteps ==
    ASSUME TypeInv, [Next]_vars
    PROVE  \/ emitted' = emitted
           \/ RefuseOverlapping /\ Emit(counter + 1, "error")
           \/ DialerEmitsAnswered /\ Emit(dialer.att, "answered")
           \/ DialFails /\ Emit(dialer.att, "error")
           \/ LoopEmitsAnswered /\ Emit(loop.att, "answered")
           \/ OnCallClosed /\ Resolved(Event.call) # 0 /\ Emit(Resolved(Event.call), "closed")
<1>2. CASE \E p \in Peers : InitiateOutgoingCall(p)
  BY <1>2 DEF InitiateOutgoingCall
<1>3. CASE DialerStep
  BY <1>3
     DEF DialerStep, RefuseOverlapping, RefusedEnds, CreateAndDial, DialReturns, DialerChecks,
         DialerEmitsAnswered, DialSucceeds, DialFails, DialError
<1>4. CASE LoopStep
  BY <1>4
     DEF LoopStep, OnCallOutgoing, OnCallRinging, OnRemoteSDP, OnCallAnswered, LoopEmitsAnswered,
         OnCallClosed, ClosedEnds, OnIncomingCall, RejectBusy, AdmitIncoming, CreateIncoming
<1>5. CASE Baresip \/ Far
  BY <1>5
     DEF Baresip, BaresipDials, BaresipAccepts, BaresipHangsUp, Far, PeerCalls, PeerRings,
         PeerAnswers, PeerHangsUp
<1>6. ASSUME NEW a \in Attempts,
             DiaStep(a) \/ DiaMessage(a) \/ TimerFires(a) \/ TimerStep(a) \/ BaselineHangup(a)
      PROVE  emitted' = emitted
  BY <1>6
     DEF DiaStep, DiaStarts, DiaOpens, DiaContinues, DiaCompletes, CallerFails, RecipientRejects,
         RecipientAnswers, MarkRejected, EndReject, DiaMessage, TimerFires, TimerStep,
         TimerRejects, BaselineHangup
<1>7. CASE UNCHANGED vars
  BY <1>7
<1> QED
  BY <1>2, <1>3, <1>4, <1>5, <1>6, <1>7 DEF Next

\* rejectCall.
LEMMA RejectSteps ==
    ASSUME TypeInv, [Next]_vars, NEW a \in Attempts, NEW who \in Rejecters,
           rejecting'[a][who] # "no"
    PROVE  \/ rejecting[a][who] # "no"
           \/ RecipientRejects(a) \/ TimerRejects(a)
<1>1. rejecting \in [Attempts -> [Rejecters -> {"no", "hangup", "closed"}]]
  BY DEF TypeInv, TypeOK, ProcType
<1>2. CASE \E p \in Peers : InitiateOutgoingCall(p)
  BY <1>2 DEF InitiateOutgoingCall
<1>3. CASE DialerStep
  BY <1>3
     DEF DialerStep, RefuseOverlapping, RefusedEnds, CreateAndDial, DialReturns, DialerChecks,
         DialerEmitsAnswered, DialSucceeds, DialFails
<1>4. CASE LoopStep
  BY <1>4
     DEF LoopStep, OnCallOutgoing, OnCallRinging, OnRemoteSDP, OnCallAnswered, LoopEmitsAnswered,
         OnCallClosed, ClosedEnds, OnIncomingCall, RejectBusy, AdmitIncoming, CreateIncoming
<1>5. CASE Baresip \/ Far
  BY <1>5
     DEF Baresip, BaresipDials, BaresipAccepts, BaresipHangsUp, Far, PeerCalls, PeerRings,
         PeerAnswers, PeerHangsUp
<1>6. ASSUME NEW b \in Attempts,
             \/ DiaStarts(b) \/ DiaOpens(b) \/ DiaContinues(b) \/ DiaCompletes(b) \/ CallerFails(b)
             \/ RecipientAnswers(b) \/ DiaMessage(b) \/ TimerFires(b) \/ BaselineHangup(b)
      PROVE  rejecting' = rejecting
  BY <1>6
     DEF DiaStarts, DiaOpens, DiaContinues, DiaCompletes, CallerFails, RecipientAnswers,
         DiaMessage, TimerFires, BaselineHangup
<1>7. ASSUME NEW b \in Attempts, NEW w \in Rejecters, NEW stage, rejecting' = At(b, w, stage)
      PROVE  (b = a /\ w = who) \/ rejecting'[a][who] = rejecting[a][who]
  BY <1>1, <1>7 DEF At
<1>8. ASSUME NEW b \in Attempts, NEW w \in Rejecters, MarkRejected(b, w) \/ EndReject(b, w)
      PROVE  rejecting[a][who] # "no"
  BY <1>1, <1>7, <1>8 DEF MarkRejected, EndReject
<1>9. ASSUME NEW b \in Attempts, RecipientRejects(b) \/ TimerRejects(b)
      PROVE  b = a \/ rejecting[a][who] # "no"
  BY <1>7, <1>9 DEF RecipientRejects, TimerRejects, Rejecters
<1>10. CASE UNCHANGED vars
  BY <1>10
<1> QED
  BY <1>2, <1>3, <1>4, <1>5, <1>6, <1>8, <1>9, <1>10 DEF Next, DiaStep, TimerStep, Rejecters
-----------------------------------------------------------------------------
(* Every attempt that goes is reported. *)

\* No session is incoming, or has a call, before it is made; only an incoming session is
\* rejected; the attempt that the dialling goroutine works on is its own.
DutyInv ==
    /\ \A a \in Attempts : a > counter => sess[a].dir = "outgoing" /\ sess[a].call = 0
    /\ \A a \in Attempts, who \in Rejecters : rejecting[a][who] # "no" => sess[a].dir = "incoming"
    /\ dialer.pc \in Working => dialer.att <= counter /\ sess[dialer.att].dir = "outgoing"

LEMMA InitDuty == Init => DutyInv
BY DEF Init, DutyInv, NewCallSession, Working, Rejecters

\* The attempts there are stay what they are.
LEMMA KindSteps ==
    ASSUME ManagerInv, [Next]_vars
    PROVE  /\ counter \in Nat /\ counter' \in Nat /\ counter <= counter'
           /\ \A a \in Attempts : a <= counter => sess'[a].dir = sess[a].dir
           /\ \A a \in Attempts :
                 a > counter' => a > counter /\ sess'[a].dir = sess[a].dir
                                 /\ sess'[a].call = sess[a].call
           /\ \A a \in Attempts : a > counter /\ a <= counter' => a = counter + 1 /\ a \in byAttempt'
<1>1. counter \in Nat /\ byAttempt \subseteq 1 .. counter /\ Attempts = 1 .. MaxAttempts
  BY DEF ManagerInv, TypeInv, TypeOK, MgrType, Attempts
<1>2. ManagerStep
  BY StepManager
<1>3. CASE Steady \/ \E a \in Attempts : Removes(a)
  BY <1>1, <1>3 DEF Steady, Removes, Bound
<1>4. CASE Registers
  BY <1>1, <1>4 DEF Registers, Bound
<1>5. CASE Admits
  BY <1>1, <1>5 DEF Admits, Bound
<1>6. ASSUME NEW a \in Attempts, NEW c \in Calls, Binds(a, c)
      PROVE  /\ counter' = counter /\ a <= counter
             /\ \A b \in Attempts : sess'[b].dir = sess[b].dir
             /\ \A b \in Attempts : b > counter => sess'[b].call = sess[b].call
  BY <1>1, <1>6 DEF Binds, Bound
<1> QED
  BY <1>1, <1>2, <1>3, <1>4, <1>5, <1>6 DEF ManagerStep

LEMMA StepDuty == ManagerInv /\ DutyInv /\ [Next]_vars => DutyInv'
<1> SUFFICES ASSUME ManagerInv, DutyInv, [Next]_vars PROVE DutyInv'
  OBVIOUS
<1>1. TypeInv
  BY DEF ManagerInv
<1>2. \A a \in Attempts : a > counter' => sess'[a].dir = "outgoing" /\ sess'[a].call = 0
  BY KindSteps DEF DutyInv
<1>3. ASSUME NEW a \in Attempts, NEW who \in Rejecters, rejecting'[a][who] # "no"
      PROVE  sess'[a].dir = "incoming"
  <2>1. rejecting[a][who] # "no" \/ RecipientRejects(a) \/ TimerRejects(a)
    BY <1>1, <1>3, RejectSteps
  <2>2. sess[a].dir = "incoming"
    BY <1>1, <2>1 DEF DutyInv, RecipientRejects, TimerRejects, TypeInv, Rooted
  <2>3. a \in Nat /\ counter \in Nat
    BY KindSteps DEF Attempts
  <2>4. a <= counter
    BY <2>2, <2>3 DEF DutyInv
  <2> QED
    BY <2>2, <2>4, KindSteps
<1>4. ASSUME dialer'.pc \in Working
      PROVE  dialer'.att <= counter' /\ sess'[dialer'.att].dir = "outgoing"
  <2>1. CASE dialer' = dialer \/ (dialer'.att = dialer.att /\ dialer.pc \in Working)
    <3>1. /\ dialer.pc \in Working /\ dialer'.att = dialer.att
          /\ dialer.att <= counter /\ sess[dialer.att].dir = "outgoing"
      BY <1>4, <2>1 DEF DutyInv
    <3>2. dialer.att \in Attempts /\ dialer.att \in Nat
      BY <1>1, <3>1 DEF TypeInv, Held, Working, Attempts
    <3>3. dialer.att <= counter'
      BY <3>1, <3>2, KindSteps
    <3> QED
      BY <3>1, <3>2, <3>3, KindSteps
  <2>2. CASE (RefuseOverlapping \/ CreateAndDial) /\ dialer'.att = counter + 1
    <3>1. dialer.peer \in Peers
      BY <1>1 DEF TypeInv, TypeOK, ProcType
    <3>2. Registers
      BY <2>2, <3>1, RegisterSteps DEF RefuseOverlapping, CreateAndDial
    <3> QED
      BY <2>2, <3>2, KindSteps DEF Registers
  <2> QED
    BY <1>1, <1>4, <2>1, <2>2, DialerSteps
<1> QED
  BY <1>2, <1>3, <1>4 DEF DutyInv

\* A terminal record.
Terminal(a) == Reported(a, "closed") \/ Reported(a, "error")

\* An attempt is reported closed by the event loop, which then removes it; an attempt that
\* is about to be removed has been reported.
AccountInv ==
    /\ \A a \in Attempts : Reported(a, "closed") =>
          a <= counter /\ (a \in byAttempt => loop.pc = "closed" /\ loop.att = a)
    /\ dialer.pc = "refused" => Terminal(dialer.att)
    /\ loop.pc = "closed" => Terminal(loop.att)
    /\ Accounted

LEMMA InitAccount == Init => AccountInv
<1>1. Init => \A a \in Attempts : emitted[a] = <<>>
  BY DEF Init
<1>2. Init => \A a \in Attempts : ~Reported(a, "closed") /\ ~(a <= counter)
  BY <1>1 DEF Init, Reported, Attempts
<1>3. Init => Accounted
  BY <1>1, <1>2 DEF Accounted
<1>4. Init => dialer.pc = "idle" /\ loop.pc = "idle"
  BY DEF Init
<1> QED
  BY <1>2, <1>3, <1>4 DEF AccountInv

\* Reported closed at most once.
Single(a) ==
    \A i, j \in DOMAIN emitted[a] : emitted[a][i] = "closed" /\ emitted[a][j] = "closed" => i = j

\* Records are only added; a closing one by the event loop, for the event's session.
LEMMA RecordSteps ==
    ASSUME TypeInv, [Next]_vars, NEW a \in Attempts
    PROVE  /\ Terminal(a) => Terminal(a)'
           /\ RefuseOverlapping /\ a = counter + 1 => Terminal(a)'
           /\ DialFails /\ a = dialer.att => Terminal(a)'
           /\ OnCallClosed /\ a = Resolved(Event.call) => Terminal(a)'
           /\ (Single(a) => Single(a)') \/ (OnCallClosed /\ a = Resolved(Event.call))
           /\ Reported(a, "closed")' =>
                 Reported(a, "closed") \/ (OnCallClosed /\ a = Resolved(Event.call))
           /\ OnCallClosed /\ a = Resolved(Event.call) /\ ~Reported(a, "closed") /\ Single(a)
                 => Single(a)'
<1> DEFINE Outcomes == {"answered", "closed", "error"}
<1>1. emitted \in [Attempts -> Seq(Outcomes)] /\ emitted[a] \in Seq(Outcomes)
  BY DEF TypeInv, TypeOK, GhostType
<1>2. ASSUME NEW b, NEW o, Emit(b, o)
      PROVE  emitted'[a] = IF a = b THEN Append(emitted[a], o) ELSE emitted[a]
  BY <1>1, <1>2 DEF Emit
<1>3. ASSUME NEW o \in Outcomes, emitted'[a] = Append(emitted[a], o)
      PROVE  /\ \A x : Reported(a, x)' <=> Reported(a, x) \/ x = o
             /\ DOMAIN emitted'[a] = 1 .. Len(emitted[a]) + 1 /\ DOMAIN emitted[a] = 1 .. Len(emitted[a])
             /\ \A i \in 1 .. Len(emitted[a]) : emitted'[a][i] = emitted[a][i]
             /\ emitted'[a][Len(emitted[a]) + 1] = o
  <2> DEFINE q == emitted[a]
             r == emitted'[a]
  <2>1. /\ q \in Seq(Outcomes) /\ Len(q) \in Nat /\ DOMAIN q = 1 .. Len(q) /\ r = Append(q, o)
    BY <1>1, <1>3
  <2> HIDE DEF q, r
  <2>2. /\ DOMAIN r = 1 .. Len(q) + 1 /\ \A i \in 1 .. Len(q) : r[i] = q[i]
        /\ r[Len(q) + 1] = o
    BY <2>1
  <2>3. \A x : (\E i \in DOMAIN r : r[i] = x) <=> (\E i \in DOMAIN q : q[i] = x) \/ x = o
    BY <2>1, <2>2
  <2> QED
    BY <2>1, <2>2, <2>3 DEF q, r, Reported
<1>4. "answered" \in Outcomes /\ "closed" \in Outcomes /\ "error" \in Outcomes
  OBVIOUS
<1> HIDE DEF Outcomes
<1>5. (RefuseOverlapping /\ a = counter + 1) \/ (DialFails /\ a = dialer.att)
         => emitted'[a] = Append(emitted[a], "error")
  BY <1>2 DEF RefuseOverlapping, DialFails, DialError
<1>6. OnCallClosed /\ a = Resolved(Event.call) => emitted'[a] = Append(emitted[a], "closed")
  <2>1. OnCallClosed /\ Resolved(Event.call) # 0 => Emit(Resolved(Event.call), "closed")
    BY DEF OnCallClosed
  <2>2. a # 0
    BY DEF Attempts
  <2> QED
    BY <1>2, <2>1, <2>2
<1>7. \/ emitted'[a] = emitted[a]
      \/ emitted'[a] = Append(emitted[a], "answered") \/ emitted'[a] = Append(emitted[a], "error")
      \/ OnCallClosed /\ a = Resolved(Event.call)
  <2>1. CASE emitted' = emitted
    BY <2>1
  <2>2. ASSUME NEW b, Emit(b, "answered") PROVE emitted'[a] \in {emitted[a], Append(emitted[a], "answered")}
    BY <1>2, <2>2
  <2>3. ASSUME NEW b, Emit(b, "error") PROVE emitted'[a] \in {emitted[a], Append(emitted[a], "error")}
    BY <1>2, <2>3
  <2>4. ASSUME OnCallClosed, Emit(Resolved(Event.call), "closed")
        PROVE  emitted'[a] = emitted[a] \/ a = Resolved(Event.call)
    BY <1>2, <2>4
  <2> QED
    BY <2>1, <2>2, <2>3, <2>4, EmitSteps
<1>8. ASSUME NEW o \in Outcomes, emitted'[a] = Append(emitted[a], o), Single(a),
             o # "closed" \/ ~Reported(a, "closed")
      PROVE  Single(a)'
  BY <1>3, <1>8, <1>1 DEF Reported, Single
<1>9. emitted'[a] = emitted[a] => \A x : Reported(a, x)' <=> Reported(a, x)
  BY DEF Reported
<1>10. Terminal(a) => Terminal(a)'
  BY <1>3, <1>4, <1>6, <1>7, <1>9 DEF Terminal
<1>11. /\ RefuseOverlapping /\ a = counter + 1 => Terminal(a)'
       /\ DialFails /\ a = dialer.att => Terminal(a)'
       /\ OnCallClosed /\ a = Resolved(Event.call) => Terminal(a)'
  BY <1>3, <1>4, <1>5, <1>6 DEF Terminal
<1>12. (Single(a) => Single(a)') \/ (OnCallClosed /\ a = Resolved(Event.call))
  BY <1>4, <1>7, <1>8 DEF Single
<1>13. Reported(a, "closed")' => Reported(a, "closed") \/ (OnCallClosed /\ a = Resolved(Event.call))
  BY <1>3, <1>4, <1>7, <1>9
<1>14. OnCallClosed /\ a = Resolved(Event.call) /\ ~Reported(a, "closed") /\ Single(a)
          => Single(a)'
  BY <1>4, <1>6, <1>8
<1> QED
  BY <1>10, <1>11, <1>12, <1>13, <1>14

LEMMA StepAccount == ManagerInv /\ DutyInv /\ AccountInv /\ [Next]_vars => AccountInv'
<1> SUFFICES ASSUME ManagerInv, DutyInv, AccountInv, [Next]_vars PROVE AccountInv'
  OBVIOUS
<1>0. TypeInv
  BY DEF ManagerInv
<1>1. ManagerStep
  BY StepManager
<1>2. /\ byAttempt \subseteq 1 .. counter /\ counter \in Nat /\ Attempts = 1 .. MaxAttempts
      /\ \A a \in Attempts : Single(a)
  BY DEF ManagerInv, TypeInv, TypeOK, MgrType, Attempts, AccountInv, Accounted, Single
\* The session of an event is registered.
<1>3. ASSUME OnCallClosed, Resolved(Event.call) # 0
      PROVE  /\ Resolved(Event.call) \in byAttempt /\ loop.pc = "idle"
             /\ loop'.pc = "closed" /\ loop'.att = Resolved(Event.call)
  <2>1. Event.call \in Calls /\ loop.pc = "idle"
    BY <1>0, <1>3, EventType DEF OnCallClosed, Ready, TypeInv, TypeOK
  <2>2. loop'.pc = "closed" /\ loop'.att = Resolved(Event.call)
    BY <1>3 DEF OnCallClosed
  <2>3. CASE byCallID[Event.call] # 0
    BY <2>1, <2>2, <2>3 DEF Resolved, ManagerInv, IndexLeads
  <2>4. CASE byCallID[Event.call] = 0
    <3>1. Bindable(Event.call) /\ Resolved(Event.call) = Head(Pending(Event.call))
      BY <1>3, <2>4 DEF Resolved
    <3>2. /\ calls[Event.call].peer \in Peers
          /\ pendingByPeer[calls[Event.call].peer] \in Seq(Attempts)
          /\ pendingByPeer[calls[Event.call].peer] # <<>>
      BY <1>0, <2>1, <3>1, ResolvedType DEF TypeInv, TypeOK, MgrType, Bindable, Pending
    <3> QED
      BY <2>1, <2>2, <3>1, <3>2 DEF ManagerInv, Waiting, Pending
  <2> QED
    BY <2>3, <2>4
<1>4. ASSUME NEW a \in Attempts, Reported(a, "closed")'
      PROVE  a <= counter' /\ (a \in byAttempt' => loop'.pc = "closed" /\ loop'.att = a)
  <2>1. CASE Reported(a, "closed")
    <3>1. a <= counter /\ (a \in byAttempt => loop.pc = "closed" /\ loop.att = a)
      BY <2>1 DEF AccountInv
    <3>2. a <= counter'
      BY <1>2, <3>1, KindSteps
    <3>3. ASSUME a \in byAttempt' PROVE a \in byAttempt /\ ~Removes(a)
      <4>1. a # counter + 1
        BY <1>2, <3>1
      <4> QED
        BY <1>1, <3>3, <4>1 DEF ManagerStep, Steady, Registers, Admits, Removes, Binds
    <3>4. ASSUME loop.pc = "closed", loop.att = a, a \in byAttempt'
          PROVE  loop' = loop
      <4>1. ~ClosedEnds
        BY <3>4 DEF ClosedEnds, RemoveSession, Unregistered
      <4>2. ~Ready /\ ~AdmitIncoming
        BY <3>4 DEF Ready, AdmitIncoming
      <4> QED
        BY <1>0, <3>4, <4>1, <4>2, LoopSteps
    <3> QED
      BY <3>1, <3>2, <3>3, <3>4
  <2>2. CASE OnCallClosed /\ a = Resolved(Event.call)
    <3>1. a # 0
      BY <1>2
    <3>2. a \in byAttempt /\ loop'.pc = "closed" /\ loop'.att = a
      BY <1>3, <2>2, <3>1
    <3>3. a <= counter
      BY <1>2, <3>2
    <3> QED
      BY <1>2, <3>2, <3>3, KindSteps
  <2> QED
    BY <1>0, <1>4, <2>1, <2>2, RecordSteps
<1>5. ASSUME NEW a \in Attempts PROVE Single(a)'
  <2>1. CASE OnCallClosed /\ a = Resolved(Event.call)
    <3>1. a \in byAttempt /\ loop.pc = "idle"
      BY <1>2, <1>3, <2>1
    <3>2. ~Reported(a, "closed")
      BY <3>1 DEF AccountInv
    <3> QED
      BY <1>0, <1>2, <2>1, <3>2, RecordSteps
  <2> QED
    BY <1>0, <1>2, <2>1, RecordSteps
<1>6. ASSUME dialer'.pc = "refused" PROVE Terminal(dialer.att)'
  <2>1. CASE dialer' = dialer
    <3>1. dialer.att \in Attempts /\ Terminal(dialer.att)
      BY <1>0, <1>6, <2>1 DEF AccountInv, TypeInv, Held
    <3>2. (Terminal(dialer.att))' <=> \E a \in Attempts : a = dialer.att /\ Terminal(a)'
      BY <2>1, <3>1 DEF Terminal, Reported
    <3> QED
      BY <1>0, <3>1, <3>2, RecordSteps
  <2>2. CASE RefuseOverlapping /\ dialer'.att = counter + 1
    <3>1. dialer.peer \in Peers
      BY <1>0 DEF TypeInv, TypeOK, ProcType
    <3>2. counter + 1 \in Attempts
      BY <2>2, <3>1, RegisterSteps DEF RefuseOverlapping, Registers
    <3>3. \A a \in Attempts : a = counter + 1 => Terminal(a)'
      BY <1>0, <2>2, RecordSteps
    <3> QED
      BY <2>2, <3>2, <3>3 DEF Terminal, Reported
  <2> QED
    BY <1>0, <1>6, <2>1, <2>2, DialerSteps DEF Working
<1>7. ASSUME loop'.pc = "closed" PROVE Terminal(loop.att)'
  <2>1. CASE loop' = loop
    <3>1. loop.att \in Attempts /\ Terminal(loop.att)
      BY <1>0, <1>7, <2>1 DEF AccountInv, TypeInv, Held
    <3>2. \A a \in Attempts : a = loop.att => Terminal(a)'
      BY <1>0, <3>1, RecordSteps
    <3> QED
      BY <2>1, <3>1, <3>2 DEF Terminal, Reported
  <2>2. CASE OnCallClosed /\ loop'.att = Resolved(Event.call) /\ Resolved(Event.call) # 0
    <3>1. Resolved(Event.call) \in Attempts
      <4>1. counter <= MaxAttempts /\ MaxAttempts \in Nat
        BY CallBoundAssumption DEF ManagerInv, TypeInv, TypeOK, MgrType
      <4>2. 1 .. counter \subseteq 1 .. MaxAttempts
        BY <1>2, <4>1
      <4> QED
        BY <1>2, <1>3, <2>2, <4>2
    <3>2. \A a \in Attempts : a = Resolved(Event.call) => Terminal(a)'
      BY <1>0, <2>2, RecordSteps
    <3> QED
      BY <2>2, <3>1, <3>2 DEF Terminal, Reported
  <2> QED
    BY <1>0, <1>7, <2>1, <2>2, LoopSteps
<1>8. ASSUME NEW a \in Attempts, a <= counter', sess'[a].dir = "outgoing", a \notin byAttempt'
      PROVE  Terminal(a)'
  <2>1. a <= counter /\ sess[a].dir = "outgoing"
    BY <1>2, <1>8, KindSteps
  <2>2. CASE a \notin byAttempt
    <3>1. Terminal(a)
      BY <2>1, <2>2 DEF AccountInv, Accounted, Terminal
    <3> QED
      BY <1>0, <3>1, RecordSteps
  <2>3. CASE a \in byAttempt
    <3>1. Removes(a) /\ Removing(a)
      <4>1. PICK b \in Attempts : Removes(b) /\ Removing(b)
        BY <1>1, <1>8, <2>3 DEF ManagerStep, Steady, Registers, Admits, Binds
      <4>2. a = b
        BY <1>8, <2>3, <4>1 DEF Removes
      <4> QED
        BY <4>1, <4>2
    <3>2. CASE RefusedEnds /\ a = dialer.att
      <4>1. Terminal(a)
        BY <3>2 DEF AccountInv, RefusedEnds, Dialer
      <4> QED
        BY <1>0, <4>1, RecordSteps
    <3>3. CASE DialFails /\ a = dialer.att
      BY <1>0, <3>3, RecordSteps
    <3>4. CASE ClosedEnds /\ a = loop.att
      <4>1. Terminal(a)
        BY <3>4 DEF AccountInv, ClosedEnds, Loop
      <4> QED
        BY <1>0, <4>1, RecordSteps
    <3>5. ASSUME NEW who \in Rejecters, EndReject(a, who) PROVE FALSE
      BY <2>1, <3>5 DEF EndReject, DutyInv
    <3> QED
      BY <3>1, <3>2, <3>3, <3>4, <3>5 DEF Removing
  <2> QED
    BY <2>2, <2>3
<1>9. Accounted'
  BY <1>5, <1>8 DEF Accounted, Single, Terminal
<1> QED
  BY <1>4, <1>6, <1>7, <1>9 DEF AccountInv

\* InitiateOutgoingCall, handleCallClosed: however the dialling goroutine, the event loop and
\* the DIA goroutines interleave, no attempt disappears unreported, and none is reported
\* closed twice.
THEOREM EveryAttemptAccounted == Spec => []Accounted
<1>1. Init => ManagerInv /\ DutyInv /\ AccountInv
  BY InitType, InitManager, InitDuty, InitAccount DEF ManagerInv
<1>2. ManagerInv /\ DutyInv /\ AccountInv /\ [Next]_vars => (ManagerInv /\ DutyInv /\ AccountInv)'
  BY StepType, StepManager, StepDuty, StepAccount DEF ManagerInv
<1>3. AccountInv => Accounted
  BY DEF AccountInv
<1> QED
  BY <1>1, <1>2, <1>3, PTL DEF Spec
-----------------------------------------------------------------------------
(* baresip, its commands and its events. *)

Placed(c) == calls[c].phase # "none"

\* A call is placed ...
Places ==
    /\ ncalls' = ncalls + 1 /\ ncalls + 1 \in Calls
    /\ calls'[ncalls + 1].phase \in {"new", "ringing"}
    /\ \A d \in Calls : d # ncalls + 1 => calls'[d] = calls[d]

\* ... or goes on, or ends; it comes up here by a command.
Moves(c) ==
    /\ calls[c].phase \in {"new", "ringing", "up"}
    /\ calls'[c].phase \in {"ringing", "up", "closed"}
    /\ calls'[c].dir = calls[c].dir
    /\ \A d \in Calls : d # c => calls'[d] = calls[d]
    /\ calls'[c].phase = "up" /\ calls[c].dir = "incoming" =>
          cmds # <<>> /\ Head(cmds).op = "accept" /\ Head(cmds).n = c

CallStep ==
    \/ UNCHANGED <<calls, ncalls>>
    \/ Places
    \/ ncalls' = ncalls /\ \E c \in Calls : Moves(c)

\* What a command is about.
LEMMA HeadType ==
    ASSUME TypeInv, cmds # <<>>
    PROVE  /\ Head(cmds).n \in IF Head(cmds).op = "dial" THEN Attempts ELSE Calls
           /\ 1 \in DOMAIN cmds /\ Head(cmds) = cmds[1]
<1>1. 1 \in DOMAIN cmds /\ Head(cmds) = cmds[1]
  BY DEF TypeInv, TypeOK, BareType
<1> QED
  BY <1>1 DEF TypeInv, Written

LEMMA PlacingStep ==
    ASSUME TypeInv, NEW r, ncalls < MaxCalls, ncalls' = ncalls + 1,
           r.phase \in {"new", "ringing"}, calls' = [calls EXCEPT ![ncalls + 1] = r]
    PROVE  Places
<1>1. ncalls + 1 \in Calls
  BY CallBoundAssumption DEF Calls, TypeInv, TypeOK, BareType
<1> QED
  BY <1>1 DEF Places, TypeInv, TypeOK, BareType

LEMMA MovingStep ==
    ASSUME TypeInv, NEW c \in Calls, NEW phase \in {"ringing", "up", "closed"}, Becomes(c, phase),
           calls[c].phase \in {"new", "ringing", "up"},
           phase = "up" /\ calls[c].dir = "incoming" =>
              cmds # <<>> /\ Head(cmds).op = "accept" /\ Head(cmds).n = c
    PROVE  Moves(c)
<1>1. /\ calls'[c].phase = phase /\ calls'[c].dir = calls[c].dir
      /\ \A d \in Calls : d # c => calls'[d] = calls[d]
  BY DEF Becomes, Call, TypeInv, TypeOK, BareType
<1> QED
  BY <1>1 DEF Moves

LEMMA CallSteps ==
    ASSUME TypeInv, [Next]_vars
    PROVE  CallStep
<1>1. CASE BaresipDials
  <2> DEFINE a == Head(cmds).n
             r == [peer |-> sess[a].peer, dir |-> "outgoing", phase |-> "new", by |-> a]
  <2>1. CASE UNCHANGED <<calls, ncalls>>
    BY <2>1 DEF CallStep
  <2>2. CASE ~ UNCHANGED <<calls, ncalls>>
    <3>1. /\ ncalls < MaxCalls /\ ncalls' = ncalls + 1
          /\ calls' = [calls EXCEPT ![ncalls + 1] = r]
      BY <1>1, <2>2 DEF BaresipDials
    <3>2. r.phase \in {"new", "ringing"}
      OBVIOUS
    <3> HIDE DEF r
    <3> QED
      BY <3>1, <3>2, PlacingStep DEF CallStep
  <2> QED
    BY <2>1, <2>2
<1>2. ASSUME NEW p \in Peers, PeerCalls(p) PROVE CallStep
  <2> DEFINE r == [peer |-> p, dir |-> "incoming", phase |-> "ringing", by |-> 0]
  <2>1. /\ ncalls < MaxCalls /\ ncalls' = ncalls + 1
        /\ calls' = [calls EXCEPT ![ncalls + 1] = r]
    BY <1>2 DEF PeerCalls
  <2>2. r.phase \in {"new", "ringing"}
    OBVIOUS
  <2> HIDE DEF r
  <2> QED
    BY <2>1, <2>2, PlacingStep DEF CallStep
<1>3. CASE BaresipAccepts
  <2>1. CASE UNCHANGED calls
    BY <1>3, <2>1 DEF BaresipAccepts, CallStep
  <2>2. CASE ~ UNCHANGED calls
    <3>1. /\ cmds # <<>> /\ Head(cmds).op = "accept" /\ ncalls' = ncalls
          /\ calls[Head(cmds).n].phase = "ringing" /\ Becomes(Head(cmds).n, "up")
      BY <1>3, <2>2 DEF BaresipAccepts
    <3>2. PICK c \in Calls : c = Head(cmds).n
      BY <3>1, HeadType
    <3>3. Moves(c)
      BY <3>1, <3>2, MovingStep
    <3> QED
      BY <3>1, <3>3 DEF CallStep
  <2> QED
    BY <2>1, <2>2
<1>4. CASE BaresipHangsUp
  <2>1. CASE UNCHANGED calls
    BY <1>4, <2>1 DEF BaresipHangsUp, CallStep
  <2>2. CASE ~ UNCHANGED calls
    <3>1. /\ cmds # <<>> /\ Head(cmds).op = "hangup" /\ ncalls' = ncalls
          /\ Alive(Head(cmds).n) /\ Becomes(Head(cmds).n, "closed")
      BY <1>4, <2>2 DEF BaresipHangsUp
    <3>2. PICK c \in Calls : c = Head(cmds).n
      BY <3>1, HeadType
    <3>3. Moves(c)
      BY <3>1, <3>2, MovingStep DEF Alive
    <3> QED
      BY <3>1, <3>3 DEF CallStep
  <2> QED
    BY <2>1, <2>2
<1>5. ASSUME NEW c \in Calls, PeerRings(c) \/ PeerAnswers(c) \/ PeerHangsUp(c) PROVE CallStep
  <2>1. /\ ncalls' = ncalls /\ calls[c].phase \in {"new", "ringing", "up"}
        /\ \/ Becomes(c, "ringing") \/ Becomes(c, "closed")
           \/ Becomes(c, "up") /\ calls[c].dir = "outgoing"
    BY <1>5 DEF PeerRings, PeerAnswers, PeerHangsUp, Alive
  <2>2. Moves(c)
    BY <2>1, MovingStep
  <2> QED
    BY <2>1, <2>2 DEF CallStep
<1>6. ASSUME DialerStep \/ LoopStep \/ (\E p \in Peers : InitiateOutgoingCall(p)) \/ UNCHANGED vars
      PROVE  UNCHANGED <<calls, ncalls>>
  BY <1>6
     DEF DialerStep, RefuseOverlapping, RefusedEnds, CreateAndDial, DialReturns, DialerChecks,
         DialerEmitsAnswered, DialSucceeds, DialFails, InitiateOutgoingCall,
         LoopStep, OnCallOutgoing, OnCallRinging, OnRemoteSDP, OnCallAnswered, LoopEmitsAnswered,
         OnCallClosed, ClosedEnds, OnIncomingCall, RejectBusy, AdmitIncoming, CreateIncoming
<1>7. ASSUME NEW a \in Attempts,
             DiaStep(a) \/ DiaMessage(a) \/ TimerFires(a) \/ TimerStep(a) \/ BaselineHangup(a)
      PROVE  UNCHANGED <<calls, ncalls>>
  BY <1>7
     DEF DiaStep, DiaStarts, DiaOpens, DiaContinues, DiaCompletes, CallerFails, RecipientRejects,
         RecipientAnswers, MarkRejected, EndReject, DiaMessage, TimerFires, TimerStep,
         TimerRejects, BaselineHangup
<1> QED
  BY <1>1, <1>2, <1>3, <1>4, <1>5, <1>6, <1>7 DEF Next, Baresip, Far, CallStep

\* A command is written, or baresip handles the first one.
CmdStep ==
    \/ cmds' = cmds
    \/ \E op \in {"dial", "accept", "hangup"}, n \in Attempts \cup Calls :
          /\ cmds' = Append(cmds, [op |-> op, n |-> n])
          /\ op = "accept" =>
                n \in Calls /\ \E a \in Attempts : sess'[a].dir = "incoming" /\ sess'[a].call = n
    \/ /\ cmds # <<>> /\ cmds' = Tail(cmds)
       /\ Head(cmds).op = "hangup" => BaresipHangsUp

LEMMA CmdSteps ==
    ASSUME ManagerInv, [Next]_vars
    PROVE  CmdStep
<1>0. TypeInv
  BY DEF ManagerInv
<1>1. CASE Baresip
  BY <1>1 DEF Baresip, BaresipDials, BaresipAccepts, BaresipHangsUp, CmdStep
<1>2. ASSUME Far \/ (\E p \in Peers : InitiateOutgoingCall(p)) \/ UNCHANGED vars
      PROVE  cmds' = cmds
  BY <1>2 DEF Far, PeerCalls, PeerRings, PeerAnswers, PeerHangsUp, InitiateOutgoingCall
<1>3. CASE DialerStep
  <2>1. CASE CreateAndDial
    <3>1. dialer.peer \in Peers
      BY <1>0 DEF TypeInv, TypeOK, ProcType
    <3>2. counter + 1 \in Attempts
      BY <2>1, <3>1, RegisterSteps DEF CreateAndDial, Registers
    <3> QED
      BY <2>1, <3>2 DEF CreateAndDial, Send, CmdStep
  <2>2. ASSUME ~CreateAndDial PROVE cmds' = cmds
    BY <1>3, <2>2
       DEF DialerStep, RefuseOverlapping, RefusedEnds, DialReturns, DialerChecks,
           DialerEmitsAnswered, DialSucceeds, DialFails
  <2> QED
    BY <2>1, <2>2 DEF CmdStep
<1>4. CASE LoopStep
  <2>1. CASE RejectBusy
    <3>1. loop.call \in Calls
      BY <1>0, <2>1 DEF RejectBusy, Loop, TypeInv, Held
    <3> QED
      BY <2>1, <3>1 DEF RejectBusy, Send, CmdStep
  <2>2. CASE CreateIncoming
    <3>1. Admits
      BY <2>2, AdmitSteps
    <3>2. cmds' = cmds \/ cmds' = Append(cmds, [op |-> "accept", n |-> loop.call])
      BY <2>2 DEF CreateIncoming, Send
    <3> QED
      BY <3>1, <3>2 DEF Admits, CmdStep
  <2>3. ASSUME ~RejectBusy /\ ~CreateIncoming PROVE cmds' = cmds
    BY <1>4, <2>3
       DEF LoopStep, OnCallOutgoing, OnCallRinging, OnRemoteSDP, OnCallAnswered,
           LoopEmitsAnswered, OnCallClosed, ClosedEnds, OnIncomingCall, AdmitIncoming
  <2> QED
    BY <2>1, <2>2, <2>3 DEF CmdStep
<1>5. ASSUME NEW a \in Attempts,
             DiaStep(a) \/ DiaMessage(a) \/ TimerFires(a) \/ TimerStep(a) \/ BaselineHangup(a)
      PROVE  CmdStep
  <2>1. sess[a].dir = "incoming" => sess[a].call \in Calls
    BY <1>0, CallBoundAssumption DEF TypeInv, TypeOK, MgrType, Session, Rooted, Calls
  <2>2. CASE RecipientRejects(a) \/ TimerRejects(a) \/ BaselineHangup(a)
    <3>1. sess[a].dir = "incoming"
      BY <1>0, <2>2 DEF RecipientRejects, TimerRejects, BaselineHangup, TypeInv, Rooted
    <3>2. cmds' = Append(cmds, [op |-> "hangup", n |-> sess[a].call])
      BY <2>2 DEF RecipientRejects, TimerRejects, BaselineHangup, Rejected, Send
    <3> QED
      BY <2>1, <3>1, <3>2 DEF CmdStep
  <2>3. CASE RecipientAnswers(a)
    <3>1. sess[a].dir = "incoming"
      BY <1>0, <2>3 DEF RecipientAnswers, Dia, TypeInv, Rooted
    <3>2. cmds' = Append(cmds, [op |-> "accept", n |-> sess[a].call])
      BY <2>3 DEF RecipientAnswers, Send
    <3>3. sess'[a].dir = "incoming" /\ sess'[a].call = sess[a].call
      <4>1. sess[a] \in Session /\ sess' = [sess EXCEPT ![a] = TimerCancelled(sess[a])]
        BY <1>0, <2>3 DEF RecipientAnswers, TypeInv, TypeOK, MgrType
      <4> QED
        BY <1>0, <3>1, <4>1, EndSessionType DEF TypeInv, TypeOK, MgrType
    <3> QED
      BY <2>1, <3>1, <3>2, <3>3 DEF CmdStep
  <2>4. ASSUME ~(RecipientRejects(a) \/ TimerRejects(a) \/ BaselineHangup(a) \/ RecipientAnswers(a))
        PROVE  cmds' = cmds
    BY <1>5, <2>4
       DEF DiaStep, DiaStarts, DiaOpens, DiaContinues, DiaCompletes, CallerFails, MarkRejected,
           EndReject, DiaMessage, TimerFires, TimerStep
  <2> QED
    BY <2>2, <2>3, <2>4 DEF CmdStep
<1> QED
  BY <1>1, <1>2, <1>3, <1>4, <1>5 DEF Next, CmdStep

\* Events of kinds about one call, of those baresip emits.
About(q, kinds, c) ==
    q \in Seq(EventRecords) /\ \A k \in DOMAIN q : q[k].call = c /\ q[k].kind \in kinds \cap Emits

LEMMA SignalAbout ==
    ASSUME NEW kind \in EventTypes, NEW c \in Calls
    PROVE  /\ About(Signal(kind, c), {kind}, c)
           /\ kind \in Emits => Len(Signal(kind, c)) = 1
           /\ kind \notin Emits => Signal(kind, c) = <<>>
<1> DEFINE e == [kind |-> kind, call |-> c]
<1>1. e \in EventRecords /\ e.kind = kind /\ e.call = c
  BY DEF EventRecords
<1>2. Signal(kind, c) = IF kind \in Emits THEN <<e>> ELSE <<>>
  BY DEF Signal
<1> HIDE DEF e
<1> QED
  BY <1>1, <1>2 DEF About

LEMMA ConcatAbout ==
    ASSUME NEW q, NEW r, NEW K, NEW L, NEW c, About(q, K, c), About(r, L, c)
    PROVE  About(q \o r, K \cup L, c)
<1> DEFINE t == q \o r
<1>1. /\ q \in Seq(EventRecords) /\ r \in Seq(EventRecords)
      /\ t \in Seq(EventRecords) /\ Len(t) = Len(q) + Len(r)
      /\ \A k \in 1 .. Len(q) + Len(r) : t[k] = IF k <= Len(q) THEN q[k] ELSE r[k - Len(q)]
  BY ConcatProperties DEF About
<1> HIDE DEF t
<1>2. ASSUME NEW k \in DOMAIN t
      PROVE  (k \in DOMAIN q /\ t[k] = q[k]) \/ \E m \in DOMAIN r : t[k] = r[m]
  <2>1. k \in 1 .. Len(q) + Len(r) /\ Len(q) \in Nat /\ Len(r) \in Nat
    BY <1>1
  <2>2. CASE k <= Len(q)
    BY <1>1, <2>1, <2>2
  <2>3. CASE ~ k <= Len(q)
    <3>1. k - Len(q) \in 1 .. Len(r) /\ t[k] = r[k - Len(q)]
      BY <1>1, <2>1, <2>3
    <3> QED
      BY <1>1, <3>1
  <2> QED
    BY <2>2, <2>3
<1> QED
  BY <1>1, <1>2 DEF About, t

\* readLoop: what is there stays, and what fits is added.
LEMMA ToldAt ==
    ASSUME TypeInv, NEW told \in Seq(EventRecords), Tell(told), NEW i \in DOMAIN events'
    PROVE  \/ i \in DOMAIN events /\ events'[i] = events[i]
           \/ \E k \in DOMAIN told : i = Len(events) + k /\ events'[i] = told[k]
<1> DEFINE all == events \o told
<1>1. /\ events \in Seq(EventRecords) /\ all \in Seq(EventRecords)
      /\ Len(all) = Len(events) + Len(told)
      /\ \A k \in 1 .. Len(events) + Len(told) :
            all[k] = IF k <= Len(events) THEN events[k] ELSE told[k - Len(events)]
  BY ConcatProperties DEF TypeInv, TypeOK, BareType, EventRecords
<1> HIDE DEF all
<1>2. i \in 1 .. Len(all) /\ Fits(all)[i] = all[i] /\ events' = Fits(all)
  <2>1. events' = Fits(all)
    BY DEF Tell, all
  <2>2. \A k \in DOMAIN Fits(all) : k \in 1 .. Len(all) /\ Fits(all)[k] = all[k]
    BY <1>1, CallBoundAssumption DEF Fits
  <2> QED
    BY <2>1, <2>2
<1>3. i \in Nat /\ Len(events) \in Nat /\ Len(told) \in Nat
  BY <1>1, <1>2
<1>4. CASE i <= Len(events)
  BY <1>1, <1>2, <1>3, <1>4
<1>5. CASE ~ i <= Len(events)
  <2>1. i - Len(events) \in 1 .. Len(told) /\ i = Len(events) + (i - Len(events))
    BY <1>1, <1>2, <1>3, <1>5
  <2>2. events'[i] = told[i - Len(events)]
    BY <1>1, <1>2, <1>3, <1>5
  <2> QED
    BY <2>1, <2>2
<1> QED
  BY <1>4, <1>5

\* baresip says something about a call: that it ended, when it did; that it is coming in,
\* before anything else, when it is new.
Tells(c, told) ==
    /\ Tell(told) /\ UNCHANGED <<mgr, loop>>
    /\ About(told, EventTypes, c)
    /\ calls'[c].phase # "none"
    /\ \A k \in DOMAIN told :
          /\ told[k].kind = "CLOSED" => calls'[c].phase = "closed"
          /\ told[k].kind = "INCOMING" =>
                c = ncalls + 1 /\ Places /\ ("REMOTE_SDP" \in Emits \/ k = 1)

EventStep ==
    \/ events' = events
    \/ Ready /\ events' = Tail(events) /\ UNCHANGED calls
    \/ \E c \in Calls, told \in Seq(EventRecords) : Tells(c, told)

\* What is told of a call that goes on.
LEMMA MovingTells ==
    ASSUME TypeInv, NEW c \in Calls, NEW phase \in {"ringing", "up", "closed"}, Becomes(c, phase),
           NEW K, NEW told, About(told, K, c), Tell(told), UNCHANGED <<mgr, loop>>,
           K \subseteq EventTypes \ {"INCOMING"}, phase # "closed" => "CLOSED" \notin K
    PROVE  told \in Seq(EventRecords) /\ Tells(c, told)
<1>1. calls'[c].phase = phase
  BY DEF Becomes, Call, TypeInv, TypeOK, BareType
<1> QED
  BY <1>1 DEF Tells, About

LEMMA EventSteps ==
    ASSUME TypeInv, [Next]_vars
    PROVE  EventStep
<1>1. CASE BaresipDials
  <2> DEFINE n == ncalls + 1
             a == Head(cmds).n
             r == [peer |-> sess[a].peer, dir |-> "outgoing", phase |-> "new", by |-> a]
  <2>1. ASSUME events' # events
        PROVE  /\ ncalls < MaxCalls /\ ncalls' = n /\ calls' = [calls EXCEPT ![n] = r]
               /\ Tell(Signal("OUTGOING", n)) /\ UNCHANGED <<mgr, loop>>
    BY <1>1, <2>1 DEF BaresipDials
  <2>2. r.phase \in {"new", "ringing"} /\ "OUTGOING" \in EventTypes
    BY DEF EventTypes
  <2> HIDE DEF r
  <2>3. ASSUME events' # events PROVE \E c \in Calls, told \in Seq(EventRecords) : Tells(c, told)
    <3>1. Places
      BY <2>1, <2>2, <2>3, PlacingStep
    <3>2. n \in Calls /\ calls'[n].phase # "none"
      BY <3>1 DEF Places
    <3>3. About(Signal("OUTGOING", n), {"OUTGOING"}, n)
      BY <2>2, <3>2, SignalAbout
    <3> QED
      BY <2>1, <2>2, <2>3, <3>2, <3>3 DEF Tells, About
  <2> QED
    BY <2>3 DEF EventStep
<1>2. ASSUME NEW p \in Peers, PeerCalls(p) PROVE EventStep
  <2> DEFINE n == ncalls + 1
             r == [peer |-> p, dir |-> "incoming", phase |-> "ringing", by |-> 0]
             sdp == Signal("REMOTE_SDP", n)
             inc == Signal("INCOMING", n)
             rng == Signal("RINGING", n)
  <2>1. /\ ncalls < MaxCalls /\ ncalls' = n /\ calls' = [calls EXCEPT ![n] = r]
        /\ Tell(sdp \o inc \o rng) /\ UNCHANGED <<mgr, loop>>
    BY <1>2 DEF PeerCalls
  <2>2. r.phase \in {"new", "ringing"}
    OBVIOUS
  <2> HIDE DEF r
  <2>3. Places
    BY <2>1, <2>2, PlacingStep
  <2>4. n \in Calls /\ calls'[n].phase # "none"
    BY <2>3 DEF Places
  <2>5. /\ About(sdp, {"REMOTE_SDP"}, n) /\ About(inc, {"INCOMING"}, n)
        /\ About(rng, {"RINGING"}, n)
        /\ "REMOTE_SDP" \notin Emits => sdp = <<>>
        /\ "INCOMING" \in Emits => Len(inc) = 1
    BY <2>4, SignalAbout DEF EventTypes
  <2> HIDE DEF n, sdp, inc, rng
  <2>6. About(sdp \o inc, {"REMOTE_SDP"} \cup {"INCOMING"}, n)
    BY <2>5, ConcatAbout
  <2>7. About((sdp \o inc) \o rng, ({"REMOTE_SDP"} \cup {"INCOMING"}) \cup {"RINGING"}, n)
    BY <2>5, <2>6, ConcatAbout
  <2> DEFINE told == sdp \o inc \o rng
  <2>8. ASSUME NEW k \in DOMAIN told, told[k].kind = "INCOMING", "REMOTE_SDP" \notin Emits
        PROVE  k = 1
    <3>1. "INCOMING" \in Emits
      BY <2>7, <2>8 DEF About
    <3>2. told = inc \o rng /\ inc \in Seq(EventRecords) /\ rng \in Seq(EventRecords)
      BY <2>5, <2>8 DEF About
    <3>3. CASE k # 1
      <4>1. Len(inc) = 1 /\ Len(rng) \in Nat /\ DOMAIN rng = 1 .. Len(rng)
        BY <2>5, <3>1, <3>2
      <4> DEFINE rest == inc \o rng
      <4>0. /\ rest \in Seq(EventRecords) /\ Len(rest) = Len(inc) + Len(rng)
            /\ \A m \in 1 .. Len(inc) + Len(rng) :
                  rest[m] = IF m <= Len(inc) THEN inc[m] ELSE rng[m - Len(inc)]
        BY <3>2, ConcatProperties
      <4> HIDE DEF told, rest
      <4>2. /\ told \in Seq(EventRecords) /\ Len(told) = 1 + Len(rng)
            /\ \A m \in 1 .. 1 + Len(rng) : told[m] = IF m <= 1 THEN inc[m] ELSE rng[m - 1]
        BY <3>2, <4>0, <4>1 DEF rest
      <4>3. k \in 1 .. 1 + Len(rng)
        BY <2>8, <4>2
      <4>4. told[k] = rng[k - 1] /\ k - 1 \in DOMAIN rng
        BY <3>3, <4>1, <4>2, <4>3
      <4> QED
        BY <2>5, <2>8, <4>4 DEF About
    <3> QED
      BY <3>3
  <2>9. About(told, EventTypes, n)
    BY <2>7 DEF About, EventTypes
  <2>10. \A k \in DOMAIN told : told[k].kind # "CLOSED"
    BY <2>7 DEF About
  <2> HIDE DEF told
  <2>11. n = ncalls + 1
    BY DEF n
  <2>12. Tell(told)
    BY <2>1 DEF told
  <2>13. Tells(n, told)
    BY <2>1, <2>3, <2>4, <2>8, <2>9, <2>10, <2>11, <2>12 DEF Tells
  <2> QED
    BY <2>4, <2>9, <2>13 DEF EventStep, About
<1>3. CASE BaresipAccepts \/ BaresipHangsUp
  <2>1. ASSUME events' # events
        PROVE  \/ /\ Becomes(Head(cmds).n, "up") /\ cmds # <<>> /\ Head(cmds).op # "dial"
                  /\ Tell(Signal("ANSWERED", Head(cmds).n) \o Signal("ESTABLISHED", Head(cmds).n))
               \/ /\ Becomes(Head(cmds).n, "closed") /\ cmds # <<>> /\ Head(cmds).op # "dial"
                  /\ Tell(Signal("CLOSED", Head(cmds).n))
    BY <1>3, <2>1 DEF BaresipAccepts, BaresipHangsUp
  <2>2. UNCHANGED <<mgr, loop>>
    BY <1>3 DEF BaresipAccepts, BaresipHangsUp
  <2>3. ASSUME events' # events PROVE \E c \in Calls, told \in Seq(EventRecords) : Tells(c, told)
    <3>1. PICK c \in Calls : c = Head(cmds).n
      BY <2>1, <2>3, HeadType
    <3>2. /\ About(Signal("ANSWERED", c), {"ANSWERED"}, c)
          /\ About(Signal("ESTABLISHED", c), {"ESTABLISHED"}, c)
          /\ About(Signal("CLOSED", c), {"CLOSED"}, c)
      BY SignalAbout DEF EventTypes
    <3>3. About(Signal("ANSWERED", c) \o Signal("ESTABLISHED", c),
                {"ANSWERED"} \cup {"ESTABLISHED"}, c)
      BY <3>2, ConcatAbout
    <3>4. /\ {"ANSWERED"} \cup {"ESTABLISHED"} \subseteq EventTypes \ {"INCOMING"}
          /\ {"CLOSED"} \subseteq EventTypes \ {"INCOMING"}
          /\ "CLOSED" \notin {"ANSWERED"} \cup {"ESTABLISHED"}
      BY DEF EventTypes
    <3>5. CASE Becomes(c, "up") /\ Tell(Signal("ANSWERED", c) \o Signal("ESTABLISHED", c))
      BY <2>2, <3>3, <3>4, <3>5, MovingTells
    <3>6. CASE Becomes(c, "closed") /\ Tell(Signal("CLOSED", c))
      BY <2>2, <3>2, <3>4, <3>6, MovingTells
    <3> QED
      BY <2>1, <2>3, <3>1, <3>5, <3>6
  <2> QED
    BY <2>3 DEF EventStep
<1>4. ASSUME NEW c \in Calls, PeerRings(c) \/ PeerAnswers(c) \/ PeerHangsUp(c) PROVE EventStep
  <2>1. UNCHANGED <<mgr, loop>>
    BY <1>4 DEF PeerRings, PeerAnswers, PeerHangsUp
  <2>2. /\ About(Signal("ANSWERED", c), {"ANSWERED"}, c)
        /\ About(Signal("ESTABLISHED", c), {"ESTABLISHED"}, c)
        /\ About(Signal("CLOSED", c), {"CLOSED"}, c) /\ About(Signal("RINGING", c), {"RINGING"}, c)
        /\ About(Signal("REMOTE_SDP", c), {"REMOTE_SDP"}, c)
    BY SignalAbout DEF EventTypes
  <2>3. About(Signal("REMOTE_SDP", c) \o Signal("ANSWERED", c), {"REMOTE_SDP"} \cup {"ANSWERED"}, c)
    BY <2>2, ConcatAbout
  <2>4. About(Signal("REMOTE_SDP", c) \o Signal("ANSWERED", c) \o Signal("ESTABLISHED", c),
              ({"REMOTE_SDP"} \cup {"ANSWERED"}) \cup {"ESTABLISHED"}, c)
    BY <2>2, <2>3, ConcatAbout
  <2>5. \E told \in Seq(EventRecords) : Tells(c, told)
    <3>1. CASE PeerRings(c)
      <4>1. {"RINGING"} \subseteq EventTypes \ {"INCOMING"} /\ "CLOSED" \notin {"RINGING"}
        BY DEF EventTypes
      <4>2. Becomes(c, "ringing") /\ Tell(Signal("RINGING", c))
        BY <3>1 DEF PeerRings
      <4> QED
        BY <2>1, <2>2, <4>1, <4>2, MovingTells
    <3>2. CASE PeerHangsUp(c)
      <4>1. {"CLOSED"} \subseteq EventTypes \ {"INCOMING"}
        BY DEF EventTypes
      <4>2. Becomes(c, "closed") /\ Tell(Signal("CLOSED", c))
        BY <3>2 DEF PeerHangsUp
      <4> QED
        BY <2>1, <2>2, <4>1, <4>2, MovingTells
    <3>3. CASE PeerAnswers(c)
      <4> DEFINE K == ({"REMOTE_SDP"} \cup {"ANSWERED"}) \cup {"ESTABLISHED"}
      <4>1. K \subseteq EventTypes \ {"INCOMING"} /\ "CLOSED" \notin K
        BY DEF EventTypes
      <4>2. /\ Becomes(c, "up")
            /\ Tell(Signal("REMOTE_SDP", c) \o Signal("ANSWERED", c) \o Signal("ESTABLISHED", c))
        BY <3>3 DEF PeerAnswers
      <4> QED
        BY <2>1, <2>4, <4>1, <4>2, MovingTells
    <3> QED
      BY <1>4, <3>1, <3>2, <3>3
  <2> QED
    BY <2>5 DEF EventStep
<1>5. ASSUME DialerStep \/ (\E p \in Peers : InitiateOutgoingCall(p)) \/ UNCHANGED vars
      PROVE  events' = events
  BY <1>5
     DEF DialerStep, RefuseOverlapping, RefusedEnds, CreateAndDial, DialReturns, DialerChecks,
         DialerEmitsAnswered, DialSucceeds, DialFails, InitiateOutgoingCall
<1>6. ASSUME LoopStep
      PROVE  events' = events \/ (Ready /\ events' = Tail(events) /\ UNCHANGED calls)
  BY <1>6
     DEF LoopStep, OnCallOutgoing, OnCallRinging, OnRemoteSDP, OnCallAnswered, LoopEmitsAnswered,
         OnCallClosed, ClosedEnds, OnIncomingCall, RejectBusy, AdmitIncoming, CreateIncoming
<1>7. ASSUME NEW a \in Attempts,
             DiaStep(a) \/ DiaMessage(a) \/ TimerFires(a) \/ TimerStep(a) \/ BaselineHangup(a)
      PROVE  events' = events
  BY <1>7
     DEF DiaStep, DiaStarts, DiaOpens, DiaContinues, DiaCompletes, CallerFails, RecipientRejects,
         RecipientAnswers, MarkRejected, EndReject, DiaMessage, TimerFires, TimerStep,
         TimerRejects, BaselineHangup
<1> QED
  BY <1>1, <1>2, <1>3, <1>4, <1>5, <1>6, <1>7 DEF Next, Baresip, Far, EventStep
-----------------------------------------------------------------------------
(* A call that was answered here is not forgotten. *)

\* Sessions, events and the event loop are about calls there are; what is reported closed
\* is closed.
Known ==
    /\ \A c \in Calls : c > ncalls => ~Placed(c)
    /\ \A a \in Attempts : sess[a].call # 0 => Placed(sess[a].call)
    /\ \A i \in DOMAIN events :
          /\ events[i].kind \in Emits /\ Placed(events[i].call)
          /\ events[i].kind = "CLOSED" => calls[events[i].call].phase = "closed"
    /\ loop.call # 0 => Placed(loop.call)

LEMMA InitKnown == Init => Known
BY DEF Init, Known, NewCallSession, Placed, NoneCall

\* A call stays placed, and stays closed.
LEMMA CallsGoOn ==
    ASSUME TypeInv, Known, [Next]_vars
    PROVE  /\ \A c \in Calls : Placed(c) => calls'[c].phase # "none" /\ calls'[c].dir = calls[c].dir
           /\ \A c \in Calls : calls[c].phase = "closed" => calls'[c].phase = "closed"
           /\ \A c \in Calls : c > ncalls' => calls'[c].phase = "none"
<1>1. ncalls \in Nat /\ Calls \subseteq Nat /\ CallStep
  BY CallSteps, CallBoundAssumption DEF TypeInv, TypeOK, BareType, Calls
<1>2. CASE UNCHANGED <<calls, ncalls>>
  BY <1>2 DEF Known, Placed
<1>3. CASE Places
  BY <1>1, <1>3 DEF Known, Placed, Places
<1>4. ASSUME NEW c \in Calls, Moves(c), ncalls' = ncalls
      PROVE  /\ \A d \in Calls : Placed(d) => calls'[d].phase # "none" /\ calls'[d].dir = calls[d].dir
             /\ \A d \in Calls : calls[d].phase = "closed" => calls'[d].phase = "closed"
             /\ \A d \in Calls : d > ncalls' => calls'[d].phase = "none"
  BY <1>1, <1>4 DEF Known, Placed, Moves
<1> QED
  BY <1>1, <1>2, <1>3, <1>4 DEF CallStep

\* A session keeps its call.
LEMMA CallKept ==
    ASSUME ManagerInv, DutyInv, [Next]_vars, NEW a \in Attempts
    PROVE  /\ sess[a].call # 0 =>
                 sess'[a].call = sess[a].call /\ sess'[a].dir = sess[a].dir /\ a <= counter
           /\ \/ sess'[a].call = sess[a].call
              \/ sess'[a].call = 0
              \/ Admits /\ a = counter + 1 /\ sess'[a].call = loop.call
              \/ Ready /\ sess'[a].call = Event.call /\ Binds(a, Event.call)
<1>1. counter \in Nat /\ Attempts \subseteq Nat
  BY DEF ManagerInv, TypeInv, TypeOK, MgrType, Attempts
<1>2. sess[a].call # 0 => a <= counter
  BY <1>1 DEF DutyInv
<1>3. ManagerStep
  BY StepManager
<1>4. CASE Steady \/ \E b \in Attempts : Removes(b)
  BY <1>2, <1>4 DEF Steady, Removes, Bound
<1>5. CASE Registers
  BY <1>1, <1>2, <1>5 DEF Registers, Bound
<1>6. CASE Admits
  BY <1>1, <1>2, <1>6 DEF Admits, Bound
<1>7. ASSUME NEW b \in Attempts, NEW c \in Calls, Binds(b, c)
      PROVE  /\ sess[a].call # 0 => sess'[a].call = sess[a].call /\ sess'[a].dir = sess[a].dir
             /\ \/ sess'[a].call = sess[a].call
                \/ Ready /\ sess'[a].call = Event.call /\ Binds(a, Event.call)
  BY <1>7 DEF Binds, Bound
<1> QED
  BY <1>2, <1>3, <1>4, <1>5, <1>6, <1>7 DEF ManagerStep

\* Where an event of the channel comes from.
LEMMA EventFrom ==
    ASSUME TypeInv, [Next]_vars, NEW i \in DOMAIN events'
    PROVE  \/ i \in DOMAIN events /\ events'[i] = events[i]
           \/ /\ Ready /\ events' = Tail(events) /\ UNCHANGED calls /\ i \in Nat
              /\ i + 1 \in DOMAIN events /\ events'[i] = events[i + 1]
           \/ \E c \in Calls, told \in Seq(EventRecords) : \E k \in DOMAIN told :
                 Tells(c, told) /\ i = Len(events) + k /\ events'[i] = told[k]
<1>1. EventStep
  BY EventSteps
<1>2. CASE events' = events
  BY <1>2
<1>3. CASE Ready /\ events' = Tail(events) /\ UNCHANGED calls
  <2>1. events \in Seq(EventRecords) /\ events # <<>>
    BY <1>3 DEF Ready, TypeInv, TypeOK, BareType, EventRecords
  <2> QED
    BY <1>3, <2>1
<1>4. ASSUME NEW c \in Calls, NEW told \in Seq(EventRecords), Tells(c, told)
      PROVE  \/ i \in DOMAIN events /\ events'[i] = events[i]
             \/ \E k \in DOMAIN told : i = Len(events) + k /\ events'[i] = told[k]
  BY <1>4, ToldAt DEF Tells
<1> QED
  BY <1>1, <1>2, <1>3, <1>4 DEF EventStep

LEMMA StepKnown == ManagerInv /\ DutyInv /\ Known /\ [Next]_vars => Known'
<1> SUFFICES ASSUME ManagerInv, DutyInv, Known, [Next]_vars PROVE Known'
  OBVIOUS
<1>0. TypeInv
  BY DEF ManagerInv
<1>1. /\ \A c \in Calls : Placed(c) => calls'[c].phase # "none"
      /\ \A c \in Calls : calls[c].phase = "closed" => calls'[c].phase = "closed"
      /\ \A c \in Calls : c > ncalls' => calls'[c].phase = "none"
  BY <1>0, CallsGoOn
<1>2. /\ \A i \in DOMAIN events : events[i].call \in Calls
      /\ \A a \in Attempts : sess[a].call # 0 => sess[a].call \in Calls
      /\ loop.call # 0 => loop.call \in Calls
      /\ Ready => Event.call \in Calls /\ Placed(Event.call)
  <2>1. Ready => 1 \in DOMAIN events /\ Event = events[1]
    BY <1>0 DEF Ready, Event, TypeInv, TypeOK, BareType
  <2>2. \A i \in DOMAIN events : events[i] \in EventRecords
    <3>1. events \in Seq(EventRecords)
      BY <1>0 DEF EventRecords, TypeInv, TypeOK, BareType
    <3> QED
      BY <3>1
  <2>3. \A i \in DOMAIN events : events[i].call \in Calls
    BY <2>2 DEF EventRecords
  <2>4. /\ \A a \in Attempts : sess[a].call # 0 => sess[a].call \in Calls
        /\ loop.call # 0 => loop.call \in Calls
    BY <1>0, CallBoundAssumption DEF TypeInv, TypeOK, MgrType, ProcType, Session, Calls
  <2> QED
    BY <2>1, <2>3, <2>4 DEF Known
<1>3. ASSUME NEW a \in Attempts, sess'[a].call # 0
      PROVE  calls'[sess'[a].call].phase # "none"
  <2>1. CASE sess'[a].call = sess[a].call
    BY <1>1, <1>2, <1>3, <2>1 DEF Known
  <2>2. CASE Admits /\ sess'[a].call = loop.call
    BY <1>1, <1>2, <1>3, <2>2 DEF Known
  <2>3. CASE Ready /\ sess'[a].call = Event.call
    BY <1>1, <1>2, <2>3
  <2> QED
    BY <1>3, <2>1, <2>2, <2>3, CallKept
<1>4. ASSUME NEW i \in DOMAIN events'
      PROVE  /\ events'[i].kind \in Emits /\ calls'[events'[i].call].phase # "none"
             /\ events'[i].kind = "CLOSED" => calls'[events'[i].call].phase = "closed"
  <2>1. ASSUME NEW j \in DOMAIN events, events'[i] = events[j]
        PROVE  /\ events'[i].kind \in Emits /\ calls'[events'[i].call].phase # "none"
               /\ events'[i].kind = "CLOSED" => calls'[events'[i].call].phase = "closed"
    BY <1>1, <1>2, <2>1 DEF Known
  <2>2. ASSUME NEW c \in Calls, NEW told \in Seq(EventRecords), Tells(c, told),
               NEW k \in DOMAIN told, events'[i] = told[k]
        PROVE  /\ events'[i].kind \in Emits /\ calls'[events'[i].call].phase # "none"
               /\ events'[i].kind = "CLOSED" => calls'[events'[i].call].phase = "closed"
    BY <2>2 DEF Tells, About
  <2> QED
    BY <1>0, <2>1, <2>2, EventFrom
<1>5. ASSUME loop'.call # 0
      PROVE  calls'[loop'.call].phase # "none"
  <2>1. loop'.call = loop.call \/ (Ready /\ loop'.call = Event.call)
    BY <1>0, <1>5, LoopSteps
  <2> QED
    BY <1>1, <1>2, <1>5, <2>1 DEF Known
<1> QED
  BY <1>1, <1>3, <1>4, <1>5 DEF Known, Placed

\* The call has ended, or is being hung up.
Doomed(c) ==
    calls[c].phase = "closed" \/ \E i \in DOMAIN cmds : cmds[i] = [op |-> "hangup", n |-> c]

\* There was an incoming session for the call.
Admitted(c) == \E a \in Attempts : sess[a].dir = "incoming" /\ sess[a].call = c

\* The event loop removes the session of a call that is over; a rejected call is doomed; a
\* call that is to be answered, or was, had a session.
Ending ==
    /\ loop.pc = "closed" =>
          /\ loop.call # 0 /\ sess[loop.att].call = loop.call
          /\ calls[loop.call].phase = "closed"
    /\ \A a \in Attempts, who \in Rejecters : rejecting[a][who] # "no" => Doomed(sess[a].call)
    /\ \A i \in DOMAIN cmds : cmds[i].op = "accept" => Admitted(cmds[i].n)
    /\ \A c \in Calls : calls[c].dir = "incoming" /\ calls[c].phase = "up" => Admitted(c)

LEMMA InitEnding == Init => Ending
BY DEF Init, Ending, Rejecters, NoneCall

\* The commands.
LEMMA CmdFrom ==
    ASSUME TypeInv, CmdStep, NEW i \in DOMAIN cmds'
    PROVE  \/ \E j \in DOMAIN cmds : cmds'[i] = cmds[j]
           \/ cmds'[i].op # "accept"
           \/ \E a \in Attempts : sess'[a].dir = "incoming" /\ sess'[a].call = cmds'[i].n
<1> DEFINE Commands == [op : {"dial", "accept", "hangup"}, n : Nat]
<1>1. cmds \in Seq(Commands)
  BY DEF TypeInv, TypeOK, BareType
<1> HIDE DEF Commands
<1>2. ASSUME NEW op \in {"dial", "accept", "hangup"}, NEW n \in Attempts \cup Calls,
             cmds' = Append(cmds, [op |-> op, n |-> n])
      PROVE  (\E j \in DOMAIN cmds : cmds'[i] = cmds[j]) \/ cmds'[i] = [op |-> op, n |-> n]
  BY <1>1, <1>2
<1>3. ASSUME cmds # <<>>, cmds' = Tail(cmds)
      PROVE  \E j \in DOMAIN cmds : cmds'[i] = cmds[j]
  <2>1. i \in Nat /\ i + 1 \in DOMAIN cmds /\ cmds'[i] = cmds[i + 1]
    BY <1>1, <1>3
  <2> QED
    BY <2>1
<1>4. CASE cmds' = cmds
  BY <1>4
<1>5. ASSUME NEW op \in {"dial", "accept", "hangup"}, NEW n \in Attempts \cup Calls,
             cmds' = Append(cmds, [op |-> op, n |-> n]),
             op = "accept" => \E a \in Attempts : sess'[a].dir = "incoming" /\ sess'[a].call = n
      PROVE  \/ \E j \in DOMAIN cmds : cmds'[i] = cmds[j]
             \/ cmds'[i].op # "accept"
             \/ \E a \in Attempts : sess'[a].dir = "incoming" /\ sess'[a].call = cmds'[i].n
  <2>1. CASE cmds'[i] = [op |-> op, n |-> n]
    <3>1. cmds'[i].op = op /\ cmds'[i].n = n
      BY <2>1
    <3> QED
      BY <1>5, <3>1
  <2> QED
    BY <1>2, <1>5, <2>1
<1> QED
  BY <1>3, <1>4, <1>5 DEF CmdStep

\* A hangup command is carried out.
LEMMA DoomedStays ==
    ASSUME ManagerInv, Known, [Next]_vars, NEW c \in Calls, Doomed(c), Placed(c)
    PROVE  Doomed(c)'
<1> DEFINE Commands == [op : {"dial", "accept", "hangup"}, n : Nat]
           hang == [op |-> "hangup", n |-> c]
<1>0. TypeInv
  BY DEF ManagerInv
<1>1. cmds \in Seq(Commands) /\ calls[c].phase \in {"none", "new", "ringing", "up", "closed"}
  BY <1>0 DEF TypeInv, TypeOK, BareType, Call
<1> HIDE DEF Commands
<1>2. CASE calls[c].phase = "closed"
  BY <1>0, <1>2, CallsGoOn DEF Doomed
<1>3. ASSUME NEW i \in DOMAIN cmds, cmds[i] = hang PROVE Doomed(c)'
  <2>1. CASE cmds' = cmds
    BY <1>3, <2>1 DEF Doomed
  <2>2. ASSUME NEW x, cmds' = Append(cmds, x) PROVE Doomed(c)'
    <3>1. i \in DOMAIN cmds' /\ cmds'[i] = cmds[i]
      BY <1>1, <2>2
    <3> QED
      BY <1>3, <3>1 DEF Doomed
  <2>3. CASE cmds # <<>> /\ cmds' = Tail(cmds) /\ (Head(cmds).op = "hangup" => BaresipHangsUp)
    <3>1. CASE i = 1
      <4>1. Head(cmds) = hang
        BY <1>1, <1>3, <3>1
      <4>2. BaresipHangsUp /\ Head(cmds).n = c
        BY <2>3, <4>1
      <4>3. calls'[c].phase = "closed"
        <5>1. Alive(c) => calls' = [calls EXCEPT ![c].phase = "closed"]
          BY <4>2 DEF BaresipHangsUp, Becomes
        <5>2. ~Alive(c) => calls' = calls
          BY <4>2 DEF BaresipHangsUp
        <5>3. calls \in [Calls -> Call]
          BY <1>0 DEF TypeInv, TypeOK, BareType
        <5> QED
          BY <1>1, <5>1, <5>2, <5>3 DEF Alive, Placed, Call
      <4> QED
        BY <4>3 DEF Doomed
    <3>2. CASE i # 1
      <4>1. i - 1 \in DOMAIN cmds' /\ cmds'[i - 1] = cmds[i]
        BY <1>1, <2>3, <3>2
      <4> QED
        BY <1>3, <4>1 DEF Doomed
    <3> QED
      BY <3>1, <3>2
  <2> QED
    BY <2>1, <2>2, <2>3, CmdSteps DEF CmdStep
<1> QED
  BY <1>2, <1>3 DEF Doomed

\* handleCallClosed: the session is the call's.
LEMMA ClosingSession ==
    ASSUME ManagerInv, OnCallClosed, Resolved(Event.call) # 0
    PROVE  LET a == Resolved(Event.call) IN
           /\ a \in Attempts /\ Event.call \in Calls /\ events # <<>> /\ Event.kind = "CLOSED"
           /\ sess'[a].call = Event.call
<1> DEFINE a == Resolved(Event.call)
           s == Closed(ResolvedSession(Event.call))
<1>1. TypeInv /\ Ready /\ Event.kind = "CLOSED" /\ Handles(Event.call, s)
  BY DEF ManagerInv, OnCallClosed
<1>2. Event.call \in Calls
  BY <1>1, EventType DEF TypeInv, TypeOK
<1>3. a \in Attempts
  BY <1>1, <1>2, ResolvedType DEF TypeInv, TypeOK
<1>4. sess' = [sess EXCEPT ![a] = s] /\ sess \in [Attempts -> Session]
  BY <1>1 DEF Handles, TypeInv, TypeOK, MgrType
<1>5. s.call = Event.call
  <2>1. ResolvedSession(Event.call) \in Session /\ ResolvedSession(Event.call).call = Event.call
    <3>1. sess[a] \in Session /\ Event.call \in 0 .. MaxCalls
      BY <1>2, <1>3, <1>4, CallBoundAssumption DEF Calls
    <3> QED
      BY <3>1 DEF ResolvedSession, Session
  <2> QED
    BY <2>1, EndSessionType
<1> QED
  BY <1>1, <1>2, <1>3, <1>4, <1>5 DEF Ready

LEMMA StepEnding == ManagerInv /\ DutyInv /\ Known /\ Ending /\ [Next]_vars => Ending'
<1> SUFFICES ASSUME ManagerInv, DutyInv, Known, Ending, [Next]_vars PROVE Ending'
  OBVIOUS
<1>0. TypeInv
  BY DEF ManagerInv
<1>1. ASSUME loop'.pc = "closed"
      PROVE  /\ loop'.call # 0 /\ sess'[loop'.att].call = loop'.call
             /\ calls'[loop'.call].phase = "closed"
  <2>1. CASE loop' = loop
    <3>1. /\ loop.att \in Attempts /\ loop.call # 0 /\ sess[loop.att].call = loop.call
          /\ calls[loop.call].phase = "closed"
      BY <1>0, <1>1, <2>1 DEF Ending, TypeInv, Held
    <3>2. loop.call \in Calls
      BY <1>0, <3>1, CallBoundAssumption DEF TypeInv, TypeOK, ProcType, Calls
    <3> QED
      BY <1>0, <2>1, <3>1, <3>2, CallKept, CallsGoOn
  <2>2. CASE OnCallClosed /\ loop'.att = Resolved(Event.call) /\ Resolved(Event.call) # 0
    <3>1. loop'.call = Event.call
      BY <2>2 DEF OnCallClosed
    <3>2. sess'[loop'.att].call = loop'.call /\ loop'.call \in Calls
      BY <2>2, <3>1, ClosingSession
    <3>3. 1 \in DOMAIN events /\ Event = events[1] /\ Event.kind = "CLOSED"
      BY <1>0, <2>2 DEF OnCallClosed, Ready, Event, TypeInv, TypeOK, BareType
    <3>4. calls[Event.call].phase = "closed"
      BY <3>3 DEF Known
    <3>5. loop'.call # 0
      BY <3>2 DEF Calls
    <3> QED
      BY <1>0, <3>1, <3>2, <3>4, <3>5, CallsGoOn
  <2> QED
    BY <1>0, <1>1, <2>1, <2>2, LoopSteps
<1>2. ASSUME NEW a \in Attempts, NEW who \in Rejecters, rejecting'[a][who] # "no"
      PROVE  (Doomed(sess[a].call))'
  <2>1. sess[a].dir = "incoming"
    BY <1>0, <1>2, RejectSteps DEF DutyInv, RecipientRejects, TimerRejects, TypeInv, Rooted
  <2>2. sess[a].call # 0
    BY <1>0, <2>1 DEF TypeInv, Rooted
  <2>3. PICK c \in Calls : c = sess[a].call /\ Placed(c)
    BY <1>0, <2>2, CallBoundAssumption DEF Known, TypeInv, TypeOK, MgrType, Session, Calls
  <2>4. sess'[a].call = c
    BY <2>2, <2>3, CallKept
  <2>5. Doomed(c)'
    <3>1. CASE rejecting[a][who] # "no"
      BY <2>3, <3>1, DoomedStays DEF Ending
    <3>2. CASE RecipientRejects(a) \/ TimerRejects(a)
      <4> DEFINE x == [op |-> "hangup", n |-> c]
      <4>1. cmds' = Append(cmds, x)
        BY <2>3, <3>2 DEF RecipientRejects, TimerRejects, Rejected, Send
      <4> HIDE DEF x
      <4>2. Len(cmds) + 1 \in DOMAIN cmds' /\ cmds'[Len(cmds) + 1] = x
        BY <1>0, <4>1 DEF TypeInv, TypeOK, BareType
      <4> QED
        BY <4>2 DEF Doomed, x
    <3> QED
      BY <1>0, <1>2, <3>1, <3>2, RejectSteps
  <2> QED
    BY <2>4, <2>5 DEF Doomed
<1>3. ASSUME NEW c \in Calls, Admitted(c)
      PROVE  \E a \in Attempts : sess'[a].dir = "incoming" /\ sess'[a].call = c
  <2>1. PICK a \in Attempts : sess[a].dir = "incoming" /\ sess[a].call = c
    BY <1>3 DEF Admitted
  <2>2. c # 0
    BY DEF Calls
  <2> QED
    BY <2>1, <2>2, CallKept
<1>4. ASSUME NEW i \in DOMAIN cmds', cmds'[i].op = "accept"
      PROVE  \E a \in Attempts : sess'[a].dir = "incoming" /\ sess'[a].call = cmds'[i].n
  <2>1. ASSUME NEW j \in DOMAIN cmds, cmds'[i] = cmds[j]
        PROVE  \E a \in Attempts : sess'[a].dir = "incoming" /\ sess'[a].call = cmds'[i].n
    <3>1. cmds[j].op = "accept" /\ cmds[j].n \in Calls
      BY <1>0, <1>4, <2>1 DEF TypeInv, Written
    <3>2. Admitted(cmds[j].n)
      BY <3>1 DEF Ending
    <3> QED
      BY <1>3, <2>1, <3>1, <3>2
  <2> QED
    BY <1>0, <1>4, <2>1, CmdSteps, CmdFrom
<1>5. ASSUME NEW c \in Calls, calls'[c].dir = "incoming", calls'[c].phase = "up"
      PROVE  \E a \in Attempts : sess'[a].dir = "incoming" /\ sess'[a].call = c
  <2>1. CASE calls'[c] = calls[c]
    BY <1>3, <1>5, <2>1 DEF Ending
  <2>2. CASE Moves(c)
    <3>1. cmds # <<>> /\ Head(cmds).op = "accept" /\ Head(cmds).n = c
      BY <1>5, <2>2 DEF Moves
    <3>2. Admitted(c)
      BY <1>0, <3>1, HeadType DEF Ending
    <3> QED
      BY <1>3, <3>2
  <2>3. CASE Places
    BY <1>5, <2>1, <2>3 DEF Places
  <2> QED
    BY <1>0, <2>1, <2>2, <2>3, CallSteps DEF CallStep, Moves
<1> QED
  BY <1>1, <1>2, <1>4, <1>5 DEF Ending, Admitted

\* If a setup announces a call once: it is announced before anything else about it is
\* reported, so nothing is found under its call-id when it comes in.
Announced ==
    /\ loop.pc \in {"incoming", "create"} => byCallID[loop.call] = 0
    /\ \A i \in DOMAIN events : events[i].kind = "INCOMING" =>
          /\ byCallID[events[i].call] = 0
          /\ loop.pc \in {"incoming", "create"} => loop.call # events[i].call
          /\ \A j \in DOMAIN events : j < i => events[j].call # events[i].call

\* The attempt is over.
Gone(a) ==
    sess[a].dir = "outgoing" /\ a \notin byAttempt /\ ~(dialer.pc \in Working /\ dialer.att = a)

\* A session loses its call's entry only when the call is doomed, or it is an attempt that
\* is over.
Owned ==
    \A a \in Attempts : sess[a].call # 0 =>
        byCallID[sess[a].call] = a \/ Doomed(sess[a].call) \/ Gone(a)

LEMMA InitOwned == Init => Announced /\ Owned
BY DEF Init, Announced, Owned, NewCallSession

\* The first event.
LEMMA HeadEvent ==
    ASSUME TypeInv, Ready
    PROVE  /\ 1 \in DOMAIN events /\ Event = events[1] /\ Event.call \in Calls
           /\ Tail(events) # events
           /\ \A i \in DOMAIN Tail(events) :
                 i \in Nat /\ i >= 1 /\ i + 1 \in DOMAIN events /\ Tail(events)[i] = events[i + 1]
<1>1. events \in Seq(EventRecords) /\ events # <<>>
  BY DEF Ready, TypeInv, TypeOK, BareType, EventRecords
<1>2. 1 \in DOMAIN events /\ Event = events[1] /\ Event \in EventRecords
  BY <1>1 DEF Event
<1>3. Tail(events) # events
  <2>1. Len(Tail(events)) # Len(events)
    BY <1>1
  <2> QED
    BY <2>1
<1>4. \A i \in DOMAIN Tail(events) :
         i \in Nat /\ i >= 1 /\ i + 1 \in DOMAIN events /\ Tail(events)[i] = events[i + 1]
  BY <1>1
<1> QED
  BY <1>2, <1>3, <1>4 DEF EventRecords

\* An incoming signal that matters finds nothing under the call-id.
LEMMA SignalFindsNothing ==
    ASSUME TypeInv, Announced, Ready, OnIncomingCall
    PROVE  byCallID[Event.call] = 0
BY HeadEvent DEF OnIncomingCall, IncomingSignal, Announced

\* Who changes an entry of the index.
LEMMA EntrySteps ==
    ASSUME ManagerInv, [Next]_vars, NEW c \in Calls, byCallID'[c] # byCallID[c]
    PROVE  \/ Admits /\ CreateIncoming /\ c = loop.call
           \/ Ready /\ c = Event.call /\ \E h \in Attempts : Binds(h, c)
           \/ byCallID'[c] = 0 /\ \E b \in Attempts : Removes(b) /\ Removing(b) /\ sess[b].call = c
<1>1. ManagerStep
  BY StepManager
<1>2. ASSUME NEW h \in Attempts, NEW d \in Calls, Binds(h, d)
      PROVE  Ready /\ c = Event.call /\ Binds(h, c)
  BY <1>2 DEF Binds
<1> QED
  BY <1>1, <1>2 DEF ManagerStep, Steady, Registers, Admits, Removes

LEMMA StepAnnounced ==
    ASSUME ManagerInv, Known, Announced, OneAnnouncement, [Next]_vars
    PROVE  Announced'
<1>0. TypeInv
  BY DEF ManagerInv
\* While a call is being taken in, nobody else binds it.
<1>1. ASSUME NEW c \in Calls, byCallID[c] = 0,
             ~(loop.pc = "create" /\ loop.call = c /\ loop'.pc = "idle"),
             Ready => c # Event.call
      PROVE  byCallID'[c] = 0
  <2>1. CreateIncoming => loop.pc = "create" /\ loop'.pc = "idle"
    BY DEF CreateIncoming, Loop
  <2> QED
    BY <1>1, <2>1, EntrySteps
<1>2. ASSUME loop'.pc \in {"incoming", "create"}
      PROVE  byCallID'[loop'.call] = 0
  <2>1. CASE loop' = loop \/ (AdmitIncoming /\ loop.pc = "incoming" /\ loop'.call = loop.call)
    <3>1. loop.pc \in {"incoming", "create"} /\ loop'.call = loop.call
      BY <1>2, <2>1
    <3>2. loop.call \in Calls /\ byCallID[loop.call] = 0 /\ ~Ready
      BY <1>0, <3>1 DEF TypeInv, Held, Announced, Ready
    <3>3. loop'.pc # "idle"
      BY <1>2
    <3> QED
      BY <1>1, <3>1, <3>2, <3>3
  <2>2. CASE Ready /\ OnIncomingCall /\ loop'.call = Event.call
    <3>1. loop.pc = "idle"
      BY <2>2 DEF Ready
    <3>2. UNCHANGED mgr
      BY <1>2, <2>2, <3>1 DEF OnIncomingCall
    <3> QED
      BY <1>0, <2>2, <3>2, SignalFindsNothing
  <2> QED
    BY <1>0, <1>2, <2>1, <2>2, LoopSteps
<1>3. \A i \in DOMAIN events : events[i].call \in Calls /\ Placed(events[i].call)
  <2>1. events \in Seq(EventRecords)
    BY <1>0 DEF TypeInv, TypeOK, BareType, EventRecords
  <2>2. \A i \in DOMAIN events : events[i] \in EventRecords
    BY <2>1
  <2> QED
    BY <2>2 DEF EventRecords, Known
<1> DEFINE First(i) ==
              /\ byCallID'[events'[i].call] = 0
              /\ loop'.pc \in {"incoming", "create"} => loop'.call # events'[i].call
              /\ \A j \in DOMAIN events' : j < i => events'[j].call # events'[i].call
<1>4. ASSUME events' = events, NEW i \in DOMAIN events', events'[i].kind = "INCOMING"
      PROVE  First(i)
  <2> DEFINE c == events[i].call
  <2>1. /\ c \in Calls /\ byCallID[c] = 0
        /\ loop.pc \in {"incoming", "create"} => loop.call # c
        /\ \A j \in DOMAIN events : j < i => events[j].call # c
    BY <1>3, <1>4 DEF Announced
  <2>2. byCallID'[c] = 0
    <3>1. ~Ready \/ ~ \E h \in Attempts : Binds(h, c)
      BY <1>0, <1>4, HeadEvent DEF Binds
    <3>2. CreateIncoming => loop.pc = "create"
      BY DEF CreateIncoming, Loop
    <3> QED
      BY <2>1, <3>1, <3>2, EntrySteps
  <2>3. ASSUME loop'.pc \in {"incoming", "create"} PROVE loop'.call # c
    <3>1. ~(Ready /\ OnIncomingCall)
      BY <1>0, <1>4, HeadEvent DEF OnIncomingCall
    <3> QED
      BY <1>0, <2>1, <2>3, <3>1, LoopSteps
  <2> QED
    BY <1>4, <2>1, <2>2, <2>3
<1>5. ASSUME Ready, events' = Tail(events), NEW i \in DOMAIN events', events'[i].kind = "INCOMING"
      PROVE  First(i)
  <2>1. /\ i \in Nat /\ i >= 1 /\ i + 1 \in DOMAIN events /\ events'[i] = events[i + 1]
        /\ 1 \in DOMAIN events /\ Event = events[1] /\ Event.call \in Calls
    BY <1>0, <1>5, HeadEvent
  <2> DEFINE c == events[i + 1].call
  <2>2. /\ c \in Calls /\ byCallID[c] = 0
        /\ \A j \in DOMAIN events : j < i + 1 => events[j].call # c
    BY <1>3, <1>5, <2>1 DEF Announced
  <2>3. c # Event.call
    <3>1. 1 < i + 1
      BY <2>1
    <3> QED
      BY <2>1, <2>2, <3>1
  <2>4. byCallID'[c] = 0
    <3>1. loop.pc = "idle"
      BY <1>5 DEF Ready
    <3> QED
      BY <1>1, <2>2, <2>3, <3>1
  <2>5. ASSUME loop'.pc \in {"incoming", "create"} PROVE loop'.call # c
    <3>1. loop.pc = "idle"
      BY <1>5 DEF Ready
    <3>2. loop'.call = Event.call
      BY <1>0, <2>5, <3>1, LoopSteps
    <3> QED
      BY <2>3, <3>2
  <2>6. ASSUME NEW j \in DOMAIN events', j < i PROVE events'[j].call # c
    <3>1. j \in Nat /\ j + 1 \in DOMAIN events /\ events'[j] = events[j + 1]
      BY <1>0, <1>5, HeadEvent
    <3>2. j + 1 < i + 1
      BY <2>1, <2>6, <3>1
    <3> QED
      BY <2>2, <3>1, <3>2
  <2> QED
    BY <2>1, <2>4, <2>5, <2>6
<1>6. ASSUME NEW n \in Calls, NEW told \in Seq(EventRecords), Tells(n, told),
             NEW i \in DOMAIN events', events'[i].kind = "INCOMING"
      PROVE  First(i)
  <2>1. /\ UNCHANGED <<mgr, loop>> /\ Len(events) \in Nat /\ DOMAIN events = 1 .. Len(events)
        /\ DOMAIN told \subseteq Nat \ {0}
    BY <1>0, <1>6 DEF Tells, TypeInv, TypeOK, BareType
  <2>2. \A j \in DOMAIN events' :
           \/ j \in DOMAIN events /\ events'[j] = events[j]
           \/ \E k \in DOMAIN told : j = Len(events) + k /\ events'[j] = told[k]
    BY <1>0, <1>6, ToldAt DEF Tells
  <2>3. CASE i \in DOMAIN events /\ events'[i] = events[i]
    <3>1. \A j \in DOMAIN events' : j < i => j \in DOMAIN events /\ events'[j] = events[j]
      BY <2>1, <2>2, <2>3
    <3> QED
      BY <1>6, <2>1, <2>3, <3>1 DEF Announced
  <2>4. ASSUME NEW k \in DOMAIN told, i = Len(events) + k, events'[i] = told[k]
        PROVE  First(i)
    <3>1. told[k].kind = "INCOMING" /\ told[k].call = n /\ "INCOMING" \in Emits
      BY <1>6, <2>4 DEF Tells, About
    <3>2. n = ncalls + 1 /\ k = 1
      BY <1>6, <3>1 DEF Tells, OneAnnouncement
    <3>3. ~Placed(n)
      <4>1. ncalls \in Nat
        BY <1>0 DEF TypeInv, TypeOK, BareType
      <4> QED
        BY <3>2, <4>1 DEF Known
    <3>4. byCallID[n] = 0
      <4>1. byCallID[n] # 0 => byCallID[n] \in Attempts /\ sess[byCallID[n]].call = n /\ n # 0
        BY <1>0, CallBoundAssumption
           DEF ManagerInv, IndexLeads, TypeInv, TypeOK, MgrType, Attempts, Calls
      <4> QED
        BY <3>3, <4>1 DEF Known
    <3>5. loop.call # n
      <4>1. n # 0
        BY DEF Calls
      <4> QED
        BY <3>3, <4>1 DEF Known
    <3>6. \A j \in DOMAIN events' : j < i => j \in DOMAIN events /\ events'[j] = events[j]
      BY <2>1, <2>2, <2>4, <3>2
    <3>7. \A j \in DOMAIN events' : j < i => events'[j].call # n
      BY <1>3, <3>3, <3>6
    <3> QED
      BY <2>1, <2>4, <3>1, <3>4, <3>5, <3>7
  <2> QED
    BY <2>2, <2>3, <2>4
<1>7. \A i \in DOMAIN events' : events'[i].kind = "INCOMING" => First(i)
  <2> HIDE DEF First
  <2> QED
    BY <1>0, <1>4, <1>5, <1>6, EventSteps DEF EventStep
<1> QED
  BY <1>2, <1>7 DEF Announced

\* An attempt that is over stays over.
LEMMA GoneStays ==
    ASSUME ManagerInv, DutyInv, [Next]_vars, NEW a \in Attempts, sess[a].call # 0, Gone(a)
    PROVE  Gone(a)'
<1>0. TypeInv
  BY DEF ManagerInv
<1>1. sess'[a].dir = "outgoing" /\ a <= counter /\ counter \in Nat /\ a \in Nat
  BY <1>0, CallKept DEF Gone, TypeInv, TypeOK, MgrType, Attempts
<1>2. a # counter + 1
  BY <1>1
<1>3. a \notin byAttempt'
  <2>1. ManagerStep
    BY StepManager
  <2> QED
    BY <1>2, <2>1 DEF Gone, ManagerStep, Steady, Registers, Admits, Removes, Binds
<1>4. ~(dialer'.pc \in Working /\ dialer'.att = a)
  BY <1>0, <1>2, DialerSteps DEF Gone
<1> QED
  BY <1>1, <1>3, <1>4 DEF Gone

LEMMA StepOwned ==
    ASSUME ManagerInv, DutyInv, Known, Ending, Announced, Owned, [Next]_vars
    PROVE  Owned'
<1>0. TypeInv
  BY DEF ManagerInv
<1> SUFFICES ASSUME NEW a \in Attempts, sess'[a].call # 0
             PROVE  byCallID'[sess'[a].call] = a \/ (Doomed(sess[a].call))' \/ Gone(a)'
  BY DEF Owned
<1>1. a # 0
  BY DEF Attempts
<1>2. CASE sess'[a].call = sess[a].call
  <2>1. PICK c \in Calls : c = sess[a].call /\ Placed(c)
    BY <1>0, <1>2, CallBoundAssumption DEF Known, TypeInv, TypeOK, MgrType, Session, Calls
  <2>2. sess[a].call # 0 /\ sess'[a].call = c
    BY <1>2, <2>1
  <2>3. Doomed(c)' => (Doomed(sess[a].call))'
    BY <2>2 DEF Doomed
  <2>4. CASE Doomed(c)
    BY <2>1, <2>3, <2>4, DoomedStays
  <2>5. CASE Gone(a)
    BY <2>2, <2>5, GoneStays
  <2>6. CASE byCallID[c] = a /\ byCallID'[c] # a
    <3>1. \A h \in Attempts : ~(Ready /\ c = Event.call /\ Binds(h, c))
      BY <1>0, <1>1, <2>6, SignalFindsNothing DEF Binds
    <3>2. ~(CreateIncoming /\ c = loop.call)
      BY <1>1, <2>6 DEF Announced, CreateIncoming, Loop
    <3>3. PICK b \in Attempts : Removes(b) /\ Removing(b) /\ sess[b].call = c
      BY <2>6, <3>1, <3>2, EntrySteps
    <3>4. CASE (RefusedEnds \/ DialFails) /\ b = dialer.att
      <4>1. dialer.pc \in Working /\ dialer'.pc = "idle"
        BY <1>0, <3>4
           DEF RefusedEnds, DialFails, Dialer, Working, TypeInv, TypeOK, ProcType
      <4>2. CASE b = a
        <5>1. sess'[a].dir = "outgoing"
          BY <2>2, <3>4, <4>1, <4>2, CallKept DEF DutyInv
        <5>2. a \notin byAttempt'
          BY <3>3, <4>2 DEF Removes
        <5> QED
          BY <4>1, <5>1, <5>2 DEF Gone, Working
      <4>3. CASE b # a
        <5>1. ~Gone(b)
          BY <3>4, <4>1 DEF Gone
        <5>2. Doomed(c)
          BY <2>1, <2>2, <2>6, <3>3, <4>3, <5>1 DEF Owned
        <5> QED
          BY <2>1, <2>3, <5>2, DoomedStays
      <4> QED
        BY <4>2, <4>3
    <3>5. CASE ClosedEnds /\ b = loop.att
      <4>1. Doomed(c)
        BY <3>3, <3>5 DEF ClosedEnds, Loop, Ending, Doomed
      <4> QED
        BY <2>1, <2>3, <4>1, DoomedStays
    <3>6. ASSUME NEW who \in Rejecters, EndReject(b, who)
          PROVE  Doomed(c)'
      <4>1. Doomed(c)
        BY <3>3, <3>6 DEF EndReject, Ending
      <4> QED
        BY <2>1, <4>1, DoomedStays
    <3> QED
      BY <2>3, <3>3, <3>4, <3>5, <3>6 DEF Removing
  <2> QED
    BY <2>1, <2>2, <2>4, <2>5, <2>6 DEF Owned
<1>3. CASE Admits /\ a = counter + 1 /\ sess'[a].call = loop.call
  BY <1>3 DEF Admits
<1>4. CASE Ready /\ sess'[a].call = Event.call /\ Binds(a, Event.call)
  <2>1. Event.call \in Calls
    BY <1>0, <1>4, HeadEvent
  <2> QED
    BY <1>4, <2>1 DEF Binds
<1> QED
  BY <1>2, <1>3, <1>4, CallKept

\* The inductive invariant.
Remembered == Known /\ Ending /\ (OneAnnouncement => Announced /\ Owned)

LEMMA RememberedSuffices == ManagerInv /\ Remembered => NoForgottenCall
<1> SUFFICES ASSUME ManagerInv, Remembered, OneAnnouncement, NEW c \in Calls,
                    calls[c].dir = "incoming", calls[c].phase = "up"
             PROVE  byCallID[c] # 0 \/ \E i \in DOMAIN cmds : cmds[i] = [op |-> "hangup", n |-> c]
  BY DEF NoForgottenCall
<1>1. PICK a \in Attempts : sess[a].dir = "incoming" /\ sess[a].call = c
  BY DEF Remembered, Ending, Admitted
<1>2. c # 0 /\ a # 0
  BY DEF Calls, Attempts
<1>3. byCallID[c] = a \/ Doomed(c)
  BY <1>1, <1>2 DEF Remembered, Owned, Gone
<1> QED
  BY <1>2, <1>3 DEF Doomed

\* handleIncomingCall, NewIncomingSession, rejectCall, RemoveSession: in a setup that
\* announces a call once, whatever the goroutines do, a call that was answered here and is
\* up is found by its call-id or is being hung up.
THEOREM AnsweredNeverForgotten == Spec => []NoForgottenCall
<1>1. Init => ManagerInv /\ DutyInv /\ Remembered
  BY InitType, InitManager, InitDuty, InitKnown, InitEnding, InitOwned DEF ManagerInv, Remembered
<1>2. ManagerInv /\ DutyInv /\ Remembered /\ [Next]_vars => (ManagerInv /\ DutyInv /\ Remembered)'
  <2> SUFFICES ASSUME ManagerInv, DutyInv, Remembered, [Next]_vars
               PROVE  (ManagerInv /\ DutyInv /\ Remembered)'
    OBVIOUS
  <2>1. ManagerInv' /\ DutyInv'
    BY StepType, StepManager, StepDuty DEF ManagerInv
  <2>2. Known' /\ Ending'
    BY StepKnown, StepEnding DEF Remembered
  <2>3. OneAnnouncement => Announced' /\ Owned'
    BY StepAnnounced, StepOwned DEF Remembered
  <2>4. OneAnnouncement' = OneAnnouncement
    BY DEF OneAnnouncement
  <2> QED
    BY <2>1, <2>2, <2>3, <2>4 DEF Remembered
<1>3. ManagerInv /\ Remembered => NoForgottenCall
  BY RememberedSuffices
<1> QED
  BY <1>1, <1>2, <1>3, PTL DEF Spec
=============================================================================
