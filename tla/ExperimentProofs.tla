-------------------------- MODULE ExperimentProofs --------------------------
(***************************************************************************)
(* Theorems about Experiment and the control connection it dials over, for *)
(* every number of attempts, callers and faults and every capacity:        *)
(* answers reach their commands, types, the order of the rows, and that    *)
(* nothing is forgotten.  ExpInv is the invariant of the first two, with   *)
(* RowInv of the rows, with ForgetInv of the last: while nothing fails, the*)
(* frames under way and the events not handled are one stream in which the *)
(* closing of a call comes last; an attempt has one call, is registered    *)
(* until that closing is handled, and is reported by the step that does.   *)
(***************************************************************************)
EXTENDS Experiment, FiniteSetTheorems, SequenceTheorems, TLAPS

USE DEF commands, reading, client, phone, control, main, evars, Rest

-----------------------------------------------------------------------------
(* The control connection. *)

Ops == {"dial", "hangup"}
Responses == [kind : {"response"}, token : Nat, op : Ops, arg : Nat, ok : BOOLEAN]
Events == [kind : {"event"}, type : {"outgoing", "answered", "closed"}, call : Nat]
Frames == Responses \cup Events \cup [kind : {"broken"}]
Commands == [pc : {"idle", "write", "wait", "done"}, op : Ops \cup {"none"}, arg : Nat,
             token : Nat, chan : Seq(Responses), result : Results \cup {"none"}]

Errors == {"read error"}

Held ==
    /\ tokens \in Nat
    /\ cmd \in [Callers -> Commands]
    /\ pending \in [DOMAIN pending -> Callers] /\ DOMAIN pending \subseteq 1 .. tokens
    /\ wire \in Seq(Commands) /\ back \in Seq(Frames) /\ owed \subseteq Responses

Connected ==
    /\ link \in {"up", "down"} /\ reader \in {"run", "stuck", "stopped"}
    /\ eventChan \in Seq(Events) /\ Len(eventChan) <= EventCap
    /\ errorChan \in Seq(Errors) /\ Len(errorChan) <= 1
    /\ reader # "stopped" => errorChan = <<>>
    /\ closed \in BOOLEAN /\ faults \in 0 .. MaxFaults + 1

\* Nothing failed, and the client is not closed.
Quiet == faults = 0 /\ ~closed

\* The same command, as far as an answer goes.
Same(r, k) == r.op = k.op /\ r.arg = k.arg
Awaiting(k) == k.pc \in {"write", "wait"} /\ k.chan = <<>>

\* A command has a token of its own as long as its caller is not done with it ...
OwnToken ==
    \A c \in Callers :
       /\ cmd[c].pc = "idle" => cmd[c] = NoCommand
       /\ cmd[c].pc # "idle" =>
             /\ cmd[c].op \in Ops /\ cmd[c].token \in 1 .. tokens
             /\ \A d \in Callers : cmd[d].token = cmd[c].token => d = c

\* ... which says what is on the wire, and what is answered.
TokenSays ==
    /\ \A i \in DOMAIN wire :
          /\ wire[i].op \in Ops /\ wire[i].token \in 1 .. tokens
          /\ \A c \in Callers : cmd[c].token = wire[i].token => Same(wire[i], cmd[c])
    /\ \A r \in owed :
          /\ r.token \in 1 .. tokens
          /\ \A c \in Callers : cmd[c].token = r.token => Same(r, cmd[c])
    /\ \A i \in DOMAIN back : back[i].kind = "response" =>
          /\ back[i].token \in 1 .. tokens
          /\ \A c \in Callers : cmd[c].token = back[i].token => Same(back[i], cmd[c])

Table ==
    /\ \A c \in Callers : cmd[c].chan # <<>> =>
          Len(cmd[c].chan) = 1 /\ Same(Head(cmd[c].chan), cmd[c])
    /\ \A t \in DOMAIN pending : Awaiting(cmd[pending[t]]) /\ cmd[pending[t]].token = t
    /\ \A c \in Callers : Awaiting(cmd[c]) => cmd[c].token \in DOMAIN pending

MatchInv == Held /\ OwnToken /\ TokenSays /\ Table
-----------------------------------------------------------------------------
(* The experiment. *)

Calls == [state : {"ringing", "up", "over"}, att : Attempts]
Records == [att : Attempts, outcome : {"answered", "oda", "closed", "error"}]
Sessions == [reg : BOOLEAN, open : BOOLEAN, call : Nat,
             sent : BOOLEAN, answered : BOOLEAN, emitted : BOOLEAN]
Flags == [here : BOOLEAN, answered : BOOLEAN, oda : BOOLEAN, terminal : BOOLEAN,
          pending : BOOLEAN, hangup : BOOLEAN]
Dialling == {"dial", "answer", "mark", "dialled"}
Handling == {"handle", "hangup"}
Runners == [pc : Dialling \cup Handling \cup {"start", "wait", "done", "aborted"},
            started : Nat, completed : Nat, att : Nat, res : {<<>>} \cup Records]

Shaped ==
    /\ exp \in Experiments
    /\ calls \in Seq(Calls)
    /\ att \in [Attempts -> Sessions]
    /\ results \in Seq(Records) /\ rows \in Seq(Records)
    /\ runner \in Runners
    /\ inFlight \in [Attempts -> Flags]
    /\ loop \in [pc : {"idle", "answer", "mark", "ask", "cleanup", "ended"}, att : Nat]
    /\ loop.pc \in {"answer", "mark", "ask", "cleanup"} => loop.att \in Attempts
    /\ oda \in [Attempts -> {"off", "ready", "asked", "hangup", "wait", "over"}]

InFlight == {a \in Attempts : inFlight[a].here}

\* Where the runner is, and how many attempts it has started and completed.
Progress ==
    /\ runner.started <= exp.runs /\ runner.completed <= runner.started
    /\ Cardinality(InFlight) = runner.started - runner.completed
    /\ \A a \in InFlight : a <= runner.started
    /\ runner.pc \in Dialling => runner.att = runner.started + 1 /\ runner.started < exp.runs
    /\ runner.pc \notin Dialling \cup {"aborted"} => runner.att = runner.started
    /\ runner.pc = "aborted" => runner.att \in runner.started .. runner.started + 1
    /\ runner.pc = "aborted" => runner.att \in 0 .. exp.runs
    /\ runner.pc = "start" => runner.started < exp.runs
    /\ runner.pc \in Handling => runner.res \in Records /\ inFlight[runner.res.att].here
    /\ runner.pc \notin Handling => runner.res = <<>>
    /\ runner.pc = "done" => runner.completed = exp.runs
    /\ closed => runner.pc = "done"

\* The runner's command; nobody else dials.
Commanded ==
    LET k == cmd["runner"] IN
    /\ \A c \in Callers \ {"runner"} : cmd[c].op # "dial"
    /\ runner.pc \in Dialling => k.pc # "idle" /\ k.op = "dial" /\ k.arg = runner.att
    /\ runner.pc \in Dialling \ {"dial"} => k.pc = "done"
    /\ runner.pc = "hangup" => k.pc # "idle" /\ k.op = "hangup"
    /\ runner.pc \notin Dialling \cup {"hangup"} => k.pc = "idle"

\* Who has been answered has a call; commands and events are about calls there are.
Known ==
    /\ \A a \in Attempts :
          /\ att[a].call <= Len(calls)
          /\ att[a].answered => att[a].call # 0
          /\ oda[a] \notin {"off", "ready"} => att[a].answered
    /\ \A i \in DOMAIN results : results[i].outcome = "answered" => att[results[i].att].answered
    /\ runner.res # <<>> /\ runner.res.outcome = "answered" => att[runner.res.att].answered
    /\ loop.pc \in {"answer", "mark", "ask"} => att[loop.att].answered
    /\ \A i \in DOMAIN eventChan : eventChan[i].call \in DOMAIN calls
    /\ \A i \in DOMAIN back : back[i].kind = "event" => back[i].call \in DOMAIN calls
    /\ \A i \in DOMAIN wire :
          wire[i].arg \in IF wire[i].op = "dial" THEN Attempts ELSE DOMAIN calls
    /\ \A c \in Callers : cmd[c].pc # "idle" =>
          cmd[c].arg \in IF cmd[c].op = "dial" THEN Attempts ELSE DOMAIN calls

ExpInv == Connected /\ MatchInv /\ Shaped /\ Progress /\ Commanded /\ Known
-----------------------------------------------------------------------------
(* Rows. *)

HasRow(a, outcome) == \E i \in DOMAIN rows : rows[i] = Record(a, outcome)

\* No attempt that is in flight fails: an error ends the experiment.
NoError ==
    runner.pc # "aborted" =>
       /\ \A i \in DOMAIN results : results[i].outcome # "error"
       /\ runner.res # <<>> => runner.res.outcome # "error"

\* What inFlight says has been written is what has been written.
WrittenSays ==
    /\ \A i \in DOMAIN rows : rows[i].att <= runner.started
    /\ \A a \in InFlight :
          /\ ~inFlight[a].terminal
          /\ inFlight[a].oda => inFlight[a].answered
          /\ HasRow(a, "answered") => inFlight[a].answered
          /\ HasRow(a, "oda") => inFlight[a].oda
          /\ ~HasRow(a, "closed") /\ ~HasRow(a, "error")

RowInv == NoError /\ WrittenSays /\ RowsInOrder
-----------------------------------------------------------------------------
-----------------------------------------------------------------------------
(* Frames, commands, tokens. *)

LEMMA ExpConst == /\ "runner" \in Callers /\ "oda" \in Callers
                  /\ MaxRuns \in Nat \ {0} /\ Concurrency \in Nat \ {0}
                  /\ ResultCap \in Nat \ {0} /\ EventCap \in Nat \ {0} /\ MaxFaults \in Nat
                  /\ exp \in Experiments => exp.runs \in 1 .. MaxRuns /\ exp.oda \in BOOLEAN
BY ExperimentAssumption, CapAssumption

LEMMA EventIsFrame ==
    ASSUME NEW type \in {"outgoing", "answered", "closed"}, NEW n \in Nat
    PROVE  /\ Event(type, n) \in Events /\ Event(type, n) \in Frames
           /\ Event(type, n).kind = "event" /\ Event(type, n).call = n
           /\ Event(type, n).type = type
BY DEF Event, Events, Frames

LEMMA FrameKinds ==
    ASSUME NEW f \in Frames
    PROVE  /\ f.kind \in {"response", "event", "broken"}
           /\ f.kind = "response" => f \in Responses
           /\ f.kind = "event" => f \in Events
BY DEF Frames, Responses, Events

\* The frames of a sequence: one more, one less.
LEMMA Longer ==
    ASSUME NEW S, NEW q \in Seq(S), NEW x \in S
    PROVE  /\ Append(q, x) \in Seq(S) /\ Len(Append(q, x)) = Len(q) + 1
           /\ DOMAIN Append(q, x) = DOMAIN q \cup {Len(q) + 1}
           /\ \A i \in DOMAIN q : Append(q, x)[i] = q[i] /\ i \in 1 .. Len(q)
           /\ Append(q, x)[Len(q) + 1] = x
           /\ \A i \in DOMAIN Append(q, x) :
                 \/ i \in DOMAIN q /\ Append(q, x)[i] = q[i]
                 \/ i = Len(q) + 1 /\ Append(q, x)[i] = x
OBVIOUS

LEMMA Shorter ==
    ASSUME NEW S, NEW q \in Seq(S), q # <<>>
    PROVE  /\ Tail(q) \in Seq(S) /\ Head(q) \in S /\ Head(q) = q[1] /\ 1 \in DOMAIN q
           /\ Len(Tail(q)) = Len(q) - 1
           /\ \A i \in DOMAIN Tail(q) : i + 1 \in DOMAIN q /\ Tail(q)[i] = q[i + 1]
           /\ \A i \in DOMAIN q : i # 1 => i - 1 \in DOMAIN Tail(q) /\ Tail(q)[i - 1] = q[i]
OBVIOUS

\* What Issue, and the end of a command, do to the table.
LEMMA TableWith ==
    ASSUME NEW t, NEW c \in Callers, pending \in [DOMAIN pending -> Callers]
    PROVE  LET p == [u \in DOMAIN pending \cup {t} |-> IF u = t THEN c ELSE pending[u]] IN
           /\ DOMAIN p = DOMAIN pending \cup {t} /\ p[t] = c
           /\ \A u \in DOMAIN pending : u # t => p[u] = pending[u]
           /\ p \in [DOMAIN p -> Callers]
OBVIOUS

LEMMA TableWithout ==
    ASSUME NEW t, pending \in [DOMAIN pending -> Callers]
    PROVE  /\ DOMAIN Forgotten(t) = DOMAIN pending \ {t}
           /\ \A u \in DOMAIN Forgotten(t) : Forgotten(t)[u] = pending[u]
           /\ Forgotten(t) \in [DOMAIN Forgotten(t) -> Callers]
BY DEF Forgotten

-----------------------------------------------------------------------------
(* Matched: what a step can do to the commands and their answers. *)

Issues(c, op, arg) == Issue(c, op, arg) /\ UNCHANGED <<wire, back, owed>>

Frees(c) ==
    /\ cmd[c].pc = "done" /\ cmd' = [cmd EXCEPT ![c] = NoCommand]
    /\ UNCHANGED <<tokens, pending, wire, back, owed>>

Writes(c) ==
    /\ cmd[c].pc = "write" /\ cmd' = [cmd EXCEPT ![c].pc = "wait"]
    /\ wire' \in {wire, Append(wire, cmd[c])}
    /\ UNCHANGED <<tokens, pending, back, owed>>

EndsCommand(c) ==
    /\ cmd[c].pc \in {"write", "wait"}
    /\ \E result \in Results : Returns(c, result)
    /\ \/ pending' = Forgotten(cmd[c].token)
       \/ cmd[c].chan # <<>> /\ pending' = pending
    /\ UNCHANGED <<tokens, wire, back, owed>>

Routes ==
    /\ back # <<>> /\ Head(back).kind = "response" /\ Route(Head(back)) /\ back' = Tail(back)
    /\ UNCHANGED <<tokens, wire, owed>>

\* Commands are read or lost, answered, and answers sent or lost: there is no new command,
\* and no answer but to a command on the wire.
Answer(r) ==
    \/ r \in owed \/ \E i \in DOMAIN back : back[i] = r
    \/ \E i \in DOMAIN wire : r.token = wire[i].token /\ Same(r, wire[i])

Answers ==
    /\ UNCHANGED commands
    /\ wire' \in Seq(Commands) /\ back' \in Seq(Frames) /\ owed' \subseteq Responses
    /\ \A i \in DOMAIN wire' : \E j \in DOMAIN wire : wire'[i] = wire[j]
    /\ \A r \in owed' : Answer(r)
    /\ \A i \in DOMAIN back' : back'[i].kind = "response" => Answer(back'[i])

LEMMA IssuesMatch ==
    ASSUME MatchInv, NEW c \in Callers, NEW op \in Ops, NEW arg \in Nat, Issues(c, op, arg)
    PROVE  MatchInv'
<1> DEFINE t == tokens + 1
           k == [NoCommand EXCEPT !.pc = "write", !.op = op, !.arg = arg, !.token = t]
<1>1. /\ tokens \in Nat /\ t \in Nat /\ tokens' = t /\ t \notin 1 .. tokens /\ t \in 1 .. t
      /\ \A u \in 1 .. tokens : u \in 1 .. t /\ u # t
      /\ t # 0
  BY DEF MatchInv, Held, Issues, Issue, NextToken
<1>2. k \in Commands /\ k.pc = "write" /\ k.op = op /\ k.arg = arg /\ k.token = t /\ k.chan = <<>>
  <2>1. NoCommand \in Commands /\ NoCommand.chan = <<>>
    BY DEF NoCommand, Commands
  <2> HIDE DEF t
  <2> QED
    BY <1>1, <2>1 DEF Commands
<1>3. /\ cmd' \in [Callers -> Commands] /\ cmd'[c] = k
      /\ \A d \in Callers : d # c => cmd'[d] = cmd[d]
      /\ cmd[c].pc = "idle" /\ cmd \in [Callers -> Commands]
  <2>1. cmd' = [cmd EXCEPT ![c] = k] /\ cmd[c].pc = "idle" /\ cmd \in [Callers -> Commands]
    BY DEF MatchInv, Held, Issues, Issue, NextToken
  <2> HIDE DEF k
  <2> QED
    BY <1>2, <2>1
<1>4. /\ pending' \in [DOMAIN pending' -> Callers] /\ DOMAIN pending' = DOMAIN pending \cup {t}
      /\ pending'[t] = c /\ \A u \in DOMAIN pending : u # t => pending'[u] = pending[u]
      /\ DOMAIN pending \subseteq 1 .. tokens
  <2>1. pending' = [u \in DOMAIN pending \cup {t} |-> IF u = t THEN c ELSE pending[u]]
    BY DEF Issues, Issue, NextToken
  <2>2. pending \in [DOMAIN pending -> Callers] /\ DOMAIN pending \subseteq 1 .. tokens
    BY DEF MatchInv, Held
  <2> QED
    BY <2>1, <2>2, TableWith
<1>5. UNCHANGED <<wire, back, owed>>
  BY DEF Issues
<1> HIDE DEF k, t
\* No other command has the token.
<1>6. \A d \in Callers : d # c => cmd[d].token \in 1 .. tokens \/ cmd[d] = NoCommand
  BY <1>3 DEF MatchInv, OwnToken
<1>7. \A d \in Callers : d # c => cmd'[d].token # t
  BY <1>1, <1>3, <1>6 DEF NoCommand
<1>8. Held'
  BY <1>1, <1>3, <1>4, <1>5 DEF MatchInv, Held
<1>9. OwnToken'
  <2> SUFFICES ASSUME NEW d \in Callers
               PROVE  /\ cmd'[d].pc = "idle" => cmd'[d] = NoCommand
                      /\ cmd'[d].pc # "idle" =>
                            /\ cmd'[d].op \in Ops /\ cmd'[d].token \in 1 .. tokens'
                            /\ \A e \in Callers : cmd'[e].token = cmd'[d].token => e = d
    BY DEF OwnToken
  <2>1. CASE d = c
    BY <1>1, <1>2, <1>3, <1>7, <2>1
  <2>2. CASE d # c
    <3>1. ASSUME cmd[d].pc # "idle" PROVE cmd[d].token # t /\ cmd[d].token \in 1 .. tokens'
      BY <1>1, <1>3, <3>1, <2>2 DEF MatchInv, OwnToken
    <3> QED
      BY <1>1, <1>2, <1>3, <2>2, <3>1 DEF MatchInv, OwnToken
  <2> QED
    BY <2>1, <2>2
<1>10. TokenSays'
  <2>1. \A m : m.token \in 1 .. tokens /\ (\A d \in Callers : cmd[d].token = m.token => Same(m, cmd[d]))
           => m.token \in 1 .. tokens' /\ (\A d \in Callers : cmd'[d].token = m.token => Same(m, cmd'[d]))
    BY <1>1, <1>2, <1>3
  <2> QED
    BY <1>5, <2>1 DEF MatchInv, TokenSays
<1>11. Table'
  <2>1. \A d \in Callers : cmd'[d].chan # <<>> =>
           Len(cmd'[d].chan) = 1 /\ Same(Head(cmd'[d].chan), cmd'[d])
    BY <1>2, <1>3 DEF MatchInv, Table
  <2>2. \A u \in DOMAIN pending' : Awaiting(cmd'[pending'[u]]) /\ cmd'[pending'[u]].token = u
    <3> SUFFICES ASSUME NEW u \in DOMAIN pending'
                 PROVE  Awaiting(cmd'[pending'[u]]) /\ cmd'[pending'[u]].token = u
      OBVIOUS
    <3>1. CASE u = t
      BY <1>2, <1>3, <1>4, <3>1 DEF Awaiting
    <3>2. CASE u # t
      <4>1. u \in DOMAIN pending /\ pending'[u] = pending[u]
        BY <1>4, <3>2
      <4>2. Awaiting(cmd[pending[u]]) /\ cmd[pending[u]].token = u /\ pending[u] \in Callers
        BY <4>1 DEF MatchInv, Table, Held
      <4> QED
        BY <1>3, <4>1, <4>2 DEF Awaiting
    <3> QED
      BY <3>1, <3>2
  <2>3. \A d \in Callers : Awaiting(cmd'[d]) => cmd'[d].token \in DOMAIN pending'
    BY <1>2, <1>3, <1>4 DEF MatchInv, Table, Awaiting
  <2> QED
    BY <2>1, <2>2, <2>3 DEF Table
<1> QED
  BY <1>8, <1>9, <1>10, <1>11 DEF MatchInv

\* A caller that is done with its command, or has its result.
LEMMA FreesMatch ==
    ASSUME MatchInv, NEW c \in Callers, Frees(c)
    PROVE  MatchInv'
<1>1. NoCommand \in Commands /\ NoCommand.token = 0 /\ NoCommand.chan = <<>> /\ NoCommand.pc = "idle"
  BY DEF NoCommand, Commands
<1>2. /\ cmd' \in [Callers -> Commands] /\ cmd'[c] = NoCommand
      /\ \A d \in Callers : d # c => cmd'[d] = cmd[d]
      /\ cmd \in [Callers -> Commands] /\ cmd[c].pc = "done"
  BY <1>1 DEF MatchInv, Held, Frees
<1>3. UNCHANGED <<tokens, pending, wire, back, owed>>
  BY DEF Frees
<1>4. Held'
  BY <1>2, <1>3 DEF MatchInv, Held
<1>5. OwnToken'
  <2>1. \A n \in 1 .. tokens : n # 0
    BY DEF MatchInv, Held
  <2> QED
    BY <1>1, <1>2, <1>3, <2>1 DEF MatchInv, OwnToken
<1>6. TokenSays'
  <2>1. \A n \in 1 .. tokens : n # 0
    BY DEF MatchInv, Held
  <2>2. \A m : m.token \in 1 .. tokens /\ (\A d \in Callers : cmd[d].token = m.token => Same(m, cmd[d]))
           => (\A d \in Callers : cmd'[d].token = m.token => Same(m, cmd'[d]))
    BY <1>1, <1>2, <2>1
  <2> QED
    BY <1>3, <2>2 DEF MatchInv, TokenSays
<1>7. Table'
  <2>1. \A t \in DOMAIN pending : pending[t] # c /\ pending[t] \in Callers
    BY <1>2 DEF MatchInv, Held, Table, Awaiting
  <2> QED
    BY <1>1, <1>2, <1>3, <2>1 DEF MatchInv, Table, Awaiting
<1> QED
  BY <1>4, <1>5, <1>6, <1>7 DEF MatchInv

LEMMA EndsMatch ==
    ASSUME MatchInv, NEW c \in Callers, EndsCommand(c)
    PROVE  MatchInv'
<1>1. PICK result \in Results : Returns(c, result)
  BY DEF EndsCommand
<1>2. /\ cmd' \in [Callers -> Commands] /\ cmd'[c].pc = "done"
      /\ \A d \in Callers : d # c => cmd'[d] = cmd[d]
      /\ \A d \in Callers : /\ cmd'[d].token = cmd[d].token /\ cmd'[d].chan = cmd[d].chan
                            /\ cmd'[d].op = cmd[d].op /\ cmd'[d].arg = cmd[d].arg
      /\ cmd \in [Callers -> Commands] /\ cmd[c].pc \in {"write", "wait"}
  <2>1. cmd \in [Callers -> Commands] /\ cmd[c] \in Commands /\ cmd[c].pc \in {"write", "wait"}
    BY DEF MatchInv, Held, EndsCommand
  <2> DEFINE k == [cmd[c] EXCEPT !.pc = "done", !.result = result]
  <2>2. cmd' = [cmd EXCEPT ![c] = k]
    BY <1>1, <2>1 DEF Returns
  <2>3. /\ k \in Commands /\ k.pc = "done" /\ k.token = cmd[c].token /\ k.chan = cmd[c].chan
        /\ k.op = cmd[c].op /\ k.arg = cmd[c].arg
    BY <2>1 DEF Commands
  <2> HIDE DEF k
  <2> QED
    BY <2>1, <2>2, <2>3
<1>3. UNCHANGED <<tokens, wire, back, owed>>
  BY DEF EndsCommand
<1>4. /\ pending' \in [DOMAIN pending' -> Callers] /\ DOMAIN pending' \subseteq DOMAIN pending
      /\ DOMAIN pending' = DOMAIN pending \ {cmd[c].token}
      /\ \A t \in DOMAIN pending' : pending'[t] = pending[t]
  <2>1. pending \in [DOMAIN pending -> Callers]
    BY DEF MatchInv, Held
  <2>2. CASE pending' = Forgotten(cmd[c].token)
    BY <2>1, <2>2, TableWithout
  <2>3. CASE cmd[c].chan # <<>> /\ pending' = pending
    <3>1. cmd[c].token \notin DOMAIN pending
      BY <1>2, <2>1, <2>3 DEF MatchInv, OwnToken, Table, Awaiting
    <3> QED
      BY <2>1, <2>3, <3>1
  <2> QED
    BY <2>2, <2>3 DEF EndsCommand
<1>5. Held'
  BY <1>2, <1>3, <1>4 DEF MatchInv, Held
<1>6. OwnToken'
  BY <1>2, <1>3 DEF MatchInv, OwnToken
<1>7. TokenSays'
  BY <1>2, <1>3 DEF MatchInv, TokenSays, Same
<1>8. Table'
  <2>1. \A t \in DOMAIN pending : pending[t] \in Callers /\ cmd[pending[t]].token = t
    BY DEF MatchInv, Held, Table
  <2>2. \A t \in DOMAIN pending' : Awaiting(cmd'[pending'[t]]) /\ cmd'[pending'[t]].token = t
    BY <1>2, <1>4, <2>1 DEF MatchInv, Table, Awaiting
  <2>3. \A d \in Callers : Awaiting(cmd'[d]) => cmd'[d].token \in DOMAIN pending'
    <3> SUFFICES ASSUME NEW d \in Callers, Awaiting(cmd'[d])
                 PROVE  cmd'[d].token \in DOMAIN pending'
      OBVIOUS
    <3>1. d # c /\ Awaiting(cmd[d])
      BY <1>2 DEF Awaiting
    <3>2. cmd[d].token # cmd[c].token
      BY <1>2, <3>1 DEF MatchInv, OwnToken
    <3> QED
      BY <1>2, <1>4, <3>1, <3>2 DEF MatchInv, Table
  <2> QED
    BY <1>2, <2>2, <2>3 DEF MatchInv, Table, Same
<1> QED
  BY <1>5, <1>6, <1>7, <1>8 DEF MatchInv

LEMMA WritesMatch ==
    ASSUME MatchInv, NEW c \in Callers, Writes(c)
    PROVE  MatchInv'
<1>1. /\ cmd' \in [Callers -> Commands] /\ cmd'[c].pc = "wait"
      /\ \A d \in Callers : d # c => cmd'[d] = cmd[d]
      /\ \A d \in Callers : /\ cmd'[d].token = cmd[d].token /\ cmd'[d].chan = cmd[d].chan
                            /\ cmd'[d].op = cmd[d].op /\ cmd'[d].arg = cmd[d].arg
      /\ cmd \in [Callers -> Commands] /\ cmd[c].pc = "write"
  BY DEF MatchInv, Held, Writes, Commands
<1>2. UNCHANGED <<tokens, pending, back, owed>>
  BY DEF Writes
<1>3. /\ wire' \in Seq(Commands)
      /\ \A i \in DOMAIN wire' : wire'[i] = cmd[c] \/ \E j \in DOMAIN wire : wire'[i] = wire[j]
  <2>1. cmd[c] \in Commands /\ wire \in Seq(Commands) /\ wire' \in {wire, Append(wire, cmd[c])}
    BY DEF MatchInv, Held, Writes
  <2> QED
    BY <2>1, Longer
<1>4. Held'
  BY <1>1, <1>2, <1>3 DEF MatchInv, Held
<1>5. OwnToken'
  BY <1>1, <1>2 DEF MatchInv, OwnToken
<1>6. TokenSays'
  <2>1. /\ cmd[c].op \in Ops /\ cmd[c].token \in 1 .. tokens
        /\ \A d \in Callers : cmd[d].token = cmd[c].token => Same(cmd[c], cmd[d])
    BY <1>1 DEF MatchInv, OwnToken, Same
  <2> QED
    BY <1>1, <1>2, <1>3, <2>1 DEF MatchInv, TokenSays, Same
<1>7. Table'
  <2>1. \A t \in DOMAIN pending : pending[t] \in Callers
    BY DEF MatchInv, Held
  <2> QED
    BY <1>1, <1>2, <2>1 DEF MatchInv, Table, Awaiting, Same
<1> QED
  BY <1>4, <1>5, <1>6, <1>7 DEF MatchInv

LEMMA AnswersMatch ==
    ASSUME MatchInv, Answers
    PROVE  MatchInv'
<1>1. Held' /\ OwnToken' /\ Table'
  BY DEF MatchInv, Held, OwnToken, Table, Answers, Awaiting, Same
<1>2. \A r : Answer(r) /\ (r \in owed \/ r.kind = "response") =>
         /\ r.token \in 1 .. tokens
         /\ \A c \in Callers : cmd[c].token = r.token => Same(r, cmd[c])
  BY DEF MatchInv, TokenSays, Answer, Same
<1>3. \A r \in owed' : r.kind = "response"
  BY DEF Answers, Responses
<1>4. TokenSays'
  BY <1>2, <1>3 DEF MatchInv, TokenSays, Answers, Same
<1> QED
  BY <1>1, <1>4 DEF MatchInv

\* A response goes to the command under whose token it comes.
LEMMA RoutesMatch ==
    ASSUME MatchInv, Routes
    PROVE  MatchInv'
<1> DEFINE r == Head(back)
<1>1. /\ r \in Responses /\ r = back[1] /\ 1 \in DOMAIN back /\ back' = Tail(back)
      /\ back' \in Seq(Frames) /\ \A i \in DOMAIN back' : \E j \in DOMAIN back : back'[i] = back[j]
      /\ Route(r) /\ UNCHANGED <<tokens, wire, owed>>
  <2>1. back \in Seq(Frames) /\ back # <<>> /\ r.kind = "response" /\ back' = Tail(back)
    BY DEF MatchInv, Held, Routes
  <2> QED
    BY <2>1, Shorter, FrameKinds DEF Routes
<1> HIDE DEF r
<1>2. Same(r, r) /\ \A c \in Callers : cmd[c].token = r.token => Same(r, cmd[c])
  BY <1>1 DEF MatchInv, TokenSays, Responses, Same
<1>3. pending \in [DOMAIN pending -> Callers] /\ cmd \in [Callers -> Commands]
  BY DEF MatchInv, Held
<1>4. CASE r.token \notin DOMAIN pending
  <2>1. UNCHANGED <<cmd, pending>>
    BY <1>1, <1>4 DEF Route
  <2>2. Answers
    <3>1. \A i \in DOMAIN back' : Answer(back'[i])
      BY <1>1 DEF Answer
    <3> QED
      BY <1>1, <2>1, <3>1 DEF Answers, Answer, MatchInv, Held
  <2> QED
    BY <2>2, AnswersMatch
<1>5. CASE r.token \in DOMAIN pending
  <2> DEFINE c == pending[r.token]
             k == [cmd[c] EXCEPT !.chan = Append(@, r)]
  <2>1. /\ c \in Callers /\ Awaiting(cmd[c]) /\ cmd[c].token = r.token /\ cmd[c] \in Commands
        /\ cmd' = [cmd EXCEPT ![c] = k] /\ pending' = Forgotten(r.token)
    <3>1. c \in Callers /\ Awaiting(cmd[c]) /\ cmd[c].token = r.token
      BY <1>3, <1>5 DEF MatchInv, Table
    <3>2. cmd' = [cmd EXCEPT ![c] = k] /\ pending' = Forgotten(r.token)
      BY <1>1, <1>3, <1>5, <3>1 DEF Route
    <3> QED
      BY <1>3, <3>1, <3>2
  <2>2. /\ k \in Commands /\ k.pc = cmd[c].pc /\ k.token = cmd[c].token /\ k.op = cmd[c].op
        /\ k.arg = cmd[c].arg /\ k.chan = <<r>>
    <3>1. cmd[c].chan = <<>> /\ Append(cmd[c].chan, r) = <<r>> /\ <<r>> \in Seq(Responses)
      BY <1>1, <2>1 DEF Awaiting
    <3>2. k = [cmd[c] EXCEPT !.chan = <<r>>]
      BY <3>1
    <3> HIDE DEF k, c
    <3> QED
      BY <2>1, <3>1, <3>2 DEF Commands
  <2> HIDE DEF k
  <2>3. /\ cmd' \in [Callers -> Commands] /\ cmd'[c] = k
        /\ \A d \in Callers : d # c => cmd'[d] = cmd[d]
        /\ \A d \in Callers : /\ cmd'[d].token = cmd[d].token /\ cmd'[d].pc = cmd[d].pc
                              /\ cmd'[d].op = cmd[d].op /\ cmd'[d].arg = cmd[d].arg
    BY <1>3, <2>1, <2>2
  <2>4. /\ pending' \in [DOMAIN pending' -> Callers]
        /\ DOMAIN pending' = DOMAIN pending \ {r.token}
        /\ \A t \in DOMAIN pending' : pending'[t] = pending[t]
    BY <1>3, <2>1, TableWithout
  <2> HIDE DEF c
  <2>5. Held'
    BY <1>1, <2>3, <2>4 DEF MatchInv, Held
  <2>6. OwnToken'
    <3>1. cmd[c].pc # "idle"
      BY <2>1 DEF Awaiting
    <3> QED
      BY <1>1, <2>3, <3>1 DEF MatchInv, OwnToken
  <2>7. TokenSays'
    BY <1>1, <2>3 DEF MatchInv, TokenSays, Same
  <2>8. Table'
    <3>1. \A d \in Callers : cmd'[d].chan # <<>> =>
             Len(cmd'[d].chan) = 1 /\ Same(Head(cmd'[d].chan), cmd'[d])
      <4>1. Len(k.chan) = 1 /\ Head(k.chan) = r
        BY <2>2
      <4>2. Same(r, k)
        BY <1>2, <2>1, <2>2 DEF Same
      <4> QED
        BY <2>3, <4>1, <4>2 DEF MatchInv, Table
    <3>2. \A t \in DOMAIN pending' : Awaiting(cmd'[pending'[t]]) /\ cmd'[pending'[t]].token = t
      <4> SUFFICES ASSUME NEW t \in DOMAIN pending'
                   PROVE  Awaiting(cmd'[pending'[t]]) /\ cmd'[pending'[t]].token = t
        OBVIOUS
      <4>1. t # r.token /\ pending'[t] = pending[t] /\ t \in DOMAIN pending /\ pending[t] \in Callers
        BY <1>3, <2>4
      <4>2. Awaiting(cmd[pending[t]]) /\ cmd[pending[t]].token = t
        BY <4>1 DEF MatchInv, Table
      <4>3. pending[t] # c
        BY <2>1, <4>1, <4>2
      <4> QED
        BY <2>3, <4>1, <4>2, <4>3
    <3>3. \A d \in Callers : Awaiting(cmd'[d]) => cmd'[d].token \in DOMAIN pending'
      <4> SUFFICES ASSUME NEW d \in Callers, Awaiting(cmd'[d])
                   PROVE  cmd'[d].token \in DOMAIN pending'
        OBVIOUS
      <4>1. d # c
        BY <2>2, <2>3 DEF Awaiting
      <4>2. Awaiting(cmd[d]) /\ cmd[d].pc # "idle" /\ cmd[c].pc # "idle"
        BY <2>1, <2>3, <4>1 DEF Awaiting
      <4>3. cmd[d].token # r.token
        BY <2>1, <4>1, <4>2 DEF MatchInv, OwnToken
      <4> QED
        BY <2>3, <2>4, <4>2, <4>3 DEF MatchInv, Table
    <3> QED
      BY <3>1, <3>2, <3>3 DEF Table
  <2> QED
    BY <2>5, <2>6, <2>7, <2>8 DEF MatchInv
<1> QED
  BY <1>4, <1>5

-----------------------------------------------------------------------------
(* Which action does what to the commands. *)

\* What is emitted comes last.
LEMMA Emitted ==
    ASSUME NEW q \in Seq(Frames), NEW n \in Nat,
           NEW type \in {"outgoing", "answered", "closed"}
    PROVE  LET p == Emit(q, type, n) IN
           /\ p \in {q, Append(q, Event(type, n))} /\ p \in Seq(Frames)
           /\ link = "up" => p = Append(q, Event(type, n))
           /\ \A i \in DOMAIN p : (i \in DOMAIN q /\ p[i] = q[i]) \/ p[i] = Event(type, n)
           /\ \A i \in DOMAIN q : i \in DOMAIN p /\ p[i] = q[i]
<1>1. Event(type, n) \in Frames
  BY EventIsFrame
<1> QED
  BY <1>1, Longer DEF Emit

\* A frame that is put into the stream.
LEMMA Put ==
    ASSUME NEW q \in Seq(Frames), NEW f \in Frames
    PROVE  LET p == Append(q, f) IN
           /\ p \in Seq(Frames)
           /\ \A i \in DOMAIN p : (i \in DOMAIN q /\ p[i] = q[i]) \/ p[i] = f
           /\ \A i \in DOMAIN q : i \in DOMAIN p /\ p[i] = q[i]
BY Longer

LEMMA NoneLeft ==
    ASSUME NEW S, NEW q \in Seq(S), NEW p \in {q, <<>>}
    PROVE  p \in Seq(S) /\ \A i \in DOMAIN p : i \in DOMAIN q /\ p[i] = q[i]
<1>1. CASE p = <<>>
  BY <1>1
<1> QED
  BY <1>1

LEMMA HandleAnswers == ASSUME MatchInv, Shaped, HandleCommand PROVE Answers
<1> DEFINE k == Head(wire)
           n == Len(calls) + 1
           Reply(ok) == [kind |-> "response", token |-> k.token, op |-> k.op, arg |-> k.arg, ok |-> ok]
<1>1. /\ wire \in Seq(Commands) /\ wire # <<>> /\ wire' = Tail(wire) /\ UNCHANGED commands
      /\ back \in Seq(Frames) /\ owed \subseteq Responses /\ n \in Nat
  BY DEF MatchInv, Held, Shaped, HandleCommand
<1>2. /\ wire' \in Seq(Commands) /\ \A i \in DOMAIN wire' : \E j \in DOMAIN wire : wire'[i] = wire[j]
      /\ 1 \in DOMAIN wire /\ k = wire[1] /\ k \in Commands
  BY <1>1, Shorter
<1>3. k.op \in Ops /\ k.token \in Nat /\ k.arg \in Nat
  BY <1>2 DEF MatchInv, TokenSays, Commands
<1>4. \A ok \in BOOLEAN : Reply(ok) \in Responses /\ Reply(ok) \in Frames /\ Answer(Reply(ok))
                          /\ Reply(ok).kind = "response"
  BY <1>2, <1>3 DEF Responses, Frames, Answer, Same
<1>5. \A i \in DOMAIN back : Answer(back[i])
  BY DEF Answer
<1>6. \A type \in {"outgoing", "answered", "closed"} : \A m \in Nat :
         Event(type, m) \in Frames /\ Event(type, m).kind # "response"
  BY EventIsFrame
<1>7. CASE k.op = "dial" /\ back' = Emit(back, "outgoing", n) /\ owed' = owed \cup {Reply(TRUE)}
  <2>1. /\ back' \in Seq(Frames)
        /\ \A i \in DOMAIN back' : (i \in DOMAIN back /\ back'[i] = back[i]) \/ back'[i] = Event("outgoing", n)
    BY <1>1, <1>7, Emitted
  <2> HIDE DEF n
  <2>2. \A i \in DOMAIN back' : back'[i].kind = "response" => Answer(back'[i])
    BY <1>1, <1>5, <1>6, <2>1
  <2>3. owed' \subseteq Responses /\ \A r \in owed' : Answer(r)
    BY <1>1, <1>4, <1>7 DEF Answer
  <2> QED
    BY <1>1, <1>2, <2>1, <2>2, <2>3 DEF Answers
<1>8. CASE back' = back /\ \E ok \in BOOLEAN : owed' = owed \cup {Reply(ok)}
  <2>1. owed' \subseteq Responses /\ \A r \in owed' : Answer(r)
    BY <1>1, <1>4, <1>8 DEF Answer
  <2> QED
    BY <1>1, <1>2, <1>5, <1>8, <2>1 DEF Answers
<1>9. CASE back' = Append(back, Reply(TRUE)) /\ owed' = owed
  <2> HIDE DEF Reply
  <2>1. /\ back' \in Seq(Frames)
        /\ \A i \in DOMAIN back' : (i \in DOMAIN back /\ back'[i] = back[i]) \/ back'[i] = Reply(TRUE)
    BY <1>1, <1>4, <1>9, Put
  <2>2. \A i \in DOMAIN back' : Answer(back'[i])
    BY <1>4, <1>5, <2>1
  <2>3. \A r \in owed' : Answer(r)
    BY <1>9 DEF Answer
  <2> QED
    BY <1>1, <1>2, <1>9, <2>1, <2>2, <2>3 DEF Answers
<1>10. CASE /\ back' \in {Append(Emit(back, "closed", k.arg), Reply(TRUE)),
                          Emit(Append(back, Reply(TRUE)), "closed", k.arg)}
            /\ owed' = owed
  <2> HIDE DEF Reply, k
  <2>1. \A q \in Seq(Frames) : Append(q, Reply(TRUE)) \in Seq(Frames) /\ Emit(q, "closed", k.arg) \in Seq(Frames)
    BY <1>3, <1>4, Put, Emitted
  <2>2. /\ back' \in Seq(Frames)
        /\ \A i \in DOMAIN back' : \/ i \in DOMAIN back /\ back'[i] = back[i]
                                   \/ back'[i] = Reply(TRUE)
                                   \/ back'[i] = Event("closed", k.arg)
    <3>1. CASE back' = Append(Emit(back, "closed", k.arg), Reply(TRUE))
      <4> DEFINE q == Emit(back, "closed", k.arg)
      <4>1. /\ q \in Seq(Frames)
            /\ \A i \in DOMAIN q : (i \in DOMAIN back /\ q[i] = back[i]) \/ q[i] = Event("closed", k.arg)
        BY <1>1, <1>3, Emitted
      <4> HIDE DEF q
      <4>2. /\ Append(q, Reply(TRUE)) \in Seq(Frames)
            /\ \A i \in DOMAIN Append(q, Reply(TRUE)) :
                  (i \in DOMAIN q /\ Append(q, Reply(TRUE))[i] = q[i]) \/ Append(q, Reply(TRUE))[i] = Reply(TRUE)
        BY <1>4, <4>1, Put
      <4> QED
        BY <3>1, <4>1, <4>2 DEF q
    <3>2. CASE back' = Emit(Append(back, Reply(TRUE)), "closed", k.arg)
      <4> DEFINE q == Append(back, Reply(TRUE))
      <4>1. /\ q \in Seq(Frames)
            /\ \A i \in DOMAIN q : (i \in DOMAIN back /\ q[i] = back[i]) \/ q[i] = Reply(TRUE)
        BY <1>1, <1>4, Put
      <4> HIDE DEF q
      <4>2. /\ Emit(q, "closed", k.arg) \in Seq(Frames)
            /\ \A i \in DOMAIN Emit(q, "closed", k.arg) :
                  \/ i \in DOMAIN q /\ Emit(q, "closed", k.arg)[i] = q[i]
                  \/ Emit(q, "closed", k.arg)[i] = Event("closed", k.arg)
        BY <1>3, <4>1, Emitted
      <4> QED
        BY <3>2, <4>1, <4>2 DEF q
    <3> QED
      BY <1>10, <3>1, <3>2
  <2>3. \A i \in DOMAIN back' : back'[i].kind = "response" => Answer(back'[i])
    BY <1>3, <1>4, <1>5, <1>6, <2>2
  <2>4. \A r \in owed' : Answer(r)
    BY <1>10 DEF Answer
  <2> QED
    BY <1>1, <1>2, <1>10, <2>2, <2>3, <2>4 DEF Answers
<1>11. HandleCommand
  OBVIOUS
<1> QED
  BY <1>7, <1>8, <1>9, <1>10, <1>11 DEF HandleCommand

\* Frames come that are no responses, are read, or are lost.
LEMMA FramesAnswer ==
    ASSUME MatchInv, UNCHANGED <<commands, owed>>, wire' \in {wire, <<>>},
           back' \in Seq(Frames),
           \A i \in DOMAIN back' : back'[i].kind # "response" \/ \E j \in DOMAIN back : back'[i] = back[j]
    PROVE  Answers
<1>1. wire' \in Seq(Commands) /\ \A i \in DOMAIN wire' : \E j \in DOMAIN wire : wire'[i] = wire[j]
  BY NoneLeft DEF MatchInv, Held
<1> QED
  BY <1>1 DEF MatchInv, Held, Answers, Answer

LEMMA IdleAnswers == ASSUME MatchInv, UNCHANGED <<commands, owed, wire, back>> PROVE Answers
<1>1. back' \in Seq(Frames) /\ \A i \in DOMAIN back' : \E j \in DOMAIN back : back'[i] = back[j]
  BY DEF MatchInv, Held
<1> QED
  BY <1>1, FramesAnswer

LEMMA BaresipAnswers ==
    ASSUME MatchInv, Shaped, Respond \/ Callee \/ Faults
    PROVE  Answers
<1>1. /\ back \in Seq(Frames) /\ owed \subseteq Responses /\ wire \in Seq(Commands)
      /\ \A i \in DOMAIN back : Answer(back[i])
  BY DEF MatchInv, Held, Answer
<1>2. CASE Respond
  <2>1. PICK r \in owed : owed' = owed \ {r} /\ back' \in {back, Append(back, r)}
    BY <1>2 DEF Respond
  <2>2. r \in Frames /\ Answer(r) /\ \A s \in owed : Answer(s)
    BY <1>1 DEF Frames, Answer
  <2>3. back' \in Seq(Frames) /\ \A i \in DOMAIN back' : Answer(back'[i])
    BY <1>1, <2>1, <2>2, Put
  <2> QED
    BY <1>1, <1>2, <2>1, <2>2, <2>3 DEF Respond, Answers
<1>3. CASE Callee
  <2>1. PICK n \in Callees : Answered(n) \/ Ended(n)
    BY <1>3 DEF Callee
  <2>2. n \in Nat
    BY DEF Shaped, Callees
  <2>3. /\ UNCHANGED <<commands, wire, owed>>
        /\ \/ back' = Emit(back, "answered", n) \/ back' = Emit(back, "closed", n)
           \/ back' = Emit(Emit(back, "answered", n), "answered", n)
    BY <2>1 DEF Answered, Ended
  <2>4. \A type \in {"answered", "closed"} : Event(type, n).kind = "event"
    BY <2>2, EventIsFrame
  <2>5. ASSUME NEW q \in Seq(Frames), NEW type \in {"answered", "closed"}
        PROVE
           /\ Emit(q, type, n) \in Seq(Frames)
           /\ \A i \in DOMAIN Emit(q, type, n) :
                 Emit(q, type, n)[i].kind # "response" \/ \E j \in DOMAIN q : Emit(q, type, n)[i] = q[j]
    <3>1. /\ Emit(q, type, n) \in Seq(Frames)
          /\ \A i \in DOMAIN Emit(q, type, n) :
                (i \in DOMAIN q /\ Emit(q, type, n)[i] = q[i]) \/ Emit(q, type, n)[i] = Event(type, n)
      <4>1. type \in {"outgoing", "answered", "closed"}
        OBVIOUS
      <4> QED
        BY <2>2, <4>1, Emitted
    <3> QED
      BY <2>4, <3>1
  <2> DEFINE q == Emit(back, "answered", n)
  <2>6. /\ q \in Seq(Frames)
        /\ \A i \in DOMAIN q : q[i].kind # "response" \/ \E j \in DOMAIN back : q[i] = back[j]
    BY <1>1, <2>5
  <2> HIDE DEF q
  <2>7. /\ back' \in Seq(Frames)
        /\ \A i \in DOMAIN back' : back'[i].kind # "response" \/ \E j \in DOMAIN back : back'[i] = back[j]
    <3>1. CASE back' = Emit(q, "answered", n)
      BY <2>5, <2>6, <3>1
    <3>2. CASE back' = q
      BY <2>6, <3>2
    <3>3. CASE back' = Emit(back, "closed", n)
      BY <1>1, <2>5, <3>3
    <3> QED
      BY <2>3, <3>1, <3>2, <3>3 DEF q
  <2> QED
    BY <2>3, <2>7, FramesAnswer
<1>4. CASE LoseLink /\ Rest
  <2>1. back' \in Seq(Frames) /\ \A i \in DOMAIN back' : \E j \in DOMAIN back : back'[i] = back[j]
    BY <1>1, <1>4, NoneLeft DEF LoseLink
  <2> QED
    BY <1>4, <2>1, FramesAnswer DEF LoseLink
<1>5. CASE Garble /\ Rest
  <2> DEFINE f == [kind |-> "broken"]
  <2>1. f \in Frames /\ f.kind # "response"
    BY DEF Frames
  <2>2. back' = Append(back, f) /\ UNCHANGED <<commands, owed, wire>>
    BY <1>5 DEF Garble
  <2> HIDE DEF f
  <2>3. /\ back' \in Seq(Frames)
        /\ \A i \in DOMAIN back' : (i \in DOMAIN back /\ back'[i] = back[i]) \/ back'[i] = f
    BY <1>1, <2>1, <2>2, Put
  <2> QED
    BY <2>1, <2>2, <2>3, FramesAnswer
<1> QED
  BY <1>2, <1>3, <1>4, <1>5 DEF Faults

LEMMA CmdSteps ==
    ASSUME ExpInv, Next
    PROVE  \/ Answers \/ Routes
           \/ \E c \in Callers : \/ Frees(c) \/ EndsCommand(c) \/ Writes(c)
                                 \/ \E op \in Ops, arg \in Nat : Issues(c, op, arg)
<1>0. MatchInv /\ Shaped /\ Progress /\ "runner" \in Callers /\ "oda" \in Callers
  BY ExpConst DEF ExpInv
<1>1. CASE Baresip \/ Callee \/ Faults
  BY <1>0, <1>1, HandleAnswers, BaresipAnswers DEF Baresip
<1>2. CASE Client
  <2>1. CASE ReadFrame /\ Rest
    <3>1. /\ back \in Seq(Frames) /\ back # <<>> /\ back' = Tail(back) /\ UNCHANGED <<tokens, wire, owed>>
      BY <1>0, <2>1 DEF MatchInv, Held, ReadFrame
    <3>2. Head(back) \in Frames /\ back' \in Seq(Frames) /\ \A i \in DOMAIN back' : \E j \in DOMAIN back : back'[i] = back[j]
      BY <3>1, Shorter
    <3>3. CASE Head(back).kind = "response"
      BY <2>1, <3>1, <3>3 DEF ReadFrame, Routes
    <3>4. CASE Head(back).kind # "response"
      <4>1. UNCHANGED <<cmd, pending>>
        BY <2>1, <3>2, <3>4, FrameKinds DEF ReadFrame
      <4> QED
        BY <1>0, <3>1, <3>2, <4>1, FramesAnswer
    <3> QED
      BY <3>3, <3>4
  <2>2. CASE StopReading /\ Rest
    BY <1>0, <2>2, IdleAnswers DEF StopReading
  <2>3. ASSUME NEW c \in Callers, CallerSteps(c), Rest
        PROVE  EndsCommand(c) \/ Writes(c)
    <3>1. CASE Write(c)
      BY <2>3, <3>1 DEF Write, Writes, EndsCommand, Results
    <3>2. CASE TakeResponse(c)
      BY <2>3, <3>2 DEF TakeResponse, EndsCommand, Results
    <3>3. CASE Timeout(c)
      BY <2>3, <3>3 DEF Timeout, Expires, GiveUp, EndsCommand, Results
    <3>4. CASE CloseEndsWait(c)
      BY <2>3, <3>4 DEF CloseEndsWait, GiveUp, EndsCommand, Results
    <3> QED
      BY <2>3, <3>1, <3>2, <3>3, <3>4 DEF CallerSteps
  <2> QED
    BY <1>2, <2>1, <2>2, <2>3 DEF Client, ReaderSteps
<1>3. CASE Run
  <2>1. CASE StartOne
    <3>1. runner.att + 1 \in Nat
      BY <1>0 DEF Shaped, Runners
    <3>2. CASE Busy
      BY <1>0, <2>1, <3>2, IdleAnswers DEF StartOne
    <3>3. CASE ~Busy
      <4>1. Issues("runner", "dial", runner.att + 1)
        BY <2>1, <3>3 DEF StartOne, Issues
      <4> QED
        BY <1>0, <3>1, <4>1 DEF Ops
    <3> QED
      BY <3>2, <3>3
  <2>2. CASE Dialled \/ DialerEmits \/ DialerMarks \/ TakeResult \/ HandleResult \/ Stop
    BY <1>0, <2>2, IdleAnswers DEF Dialled, DialerEmits, DialerMarks, TakeResult, HandleResult, Stop
  <2>3. CASE InitiateReturns
    <3>1. cmd["runner"].pc = "done"
      BY <2>3 DEF InitiateReturns, Runner, ExpInv, Commanded, Dialling
    <3> QED
      BY <1>0, <2>3, <3>1 DEF InitiateReturns, Frees
  <2>4. CASE HangupCall
    <3>1. att[runner.res.att].call \in Nat
      BY <1>0, <2>4 DEF HangupCall, Runner, Progress, Handling, Shaped, Records, Sessions
    <3>2. Issues("runner", "hangup", att[runner.res.att].call)
      BY <2>4 DEF HangupCall, Issues
    <3> QED
      BY <1>0, <3>1, <3>2 DEF Ops
  <2>5. CASE HangupReturns
    BY <1>0, <2>5 DEF HangupReturns, Frees
  <2> QED
    BY <1>3, <2>1, <2>2, <2>3, <2>4, <2>5 DEF Run
<1>4. CASE Loop
  BY <1>0, <1>4, IdleAnswers DEF Loop, OnOutgoing, OnAnswered, LoopEmits, LoopMarks, LoopAsks, OnClosed,
                      CleansUp, TakesError, LoopEnds
<1>5. ASSUME NEW a \in Attempts, ODA(a)
      PROVE  Answers \/ \E c \in Callers : Frees(c) \/ \E op \in Ops, arg \in Nat : Issues(c, op, arg)
  <2>1. CASE RuaCompletes(a) \/ OdaRecords(a) \/ OdaDropped(a)
    BY <1>0, <2>1, IdleAnswers DEF RuaCompletes, OdaRecords, OdaDropped
  <2>2. CASE OdaHangsUp(a)
    <3>1. att[a].call \in Nat
      BY <1>0 DEF Shaped, Sessions
    <3>2. Issues("oda", "hangup", att[a].call)
      BY <2>2 DEF OdaHangsUp, Issues
    <3> QED
      BY <1>0, <3>1, <3>2 DEF Ops
  <2>3. CASE OdaReturns(a)
    BY <1>0, <2>3 DEF OdaReturns, Frees
  <2> QED
    BY <1>5, <2>1, <2>2, <2>3 DEF ODA, OdaSteps
<1> QED
  BY <1>1, <1>2, <1>3, <1>4, <1>5 DEF Next

LEMMA StepMatch == ASSUME ExpInv, Next PROVE MatchInv'
<1>1. MatchInv
  BY DEF ExpInv
<1> QED
  BY <1>1, CmdSteps, AnswersMatch, RoutesMatch, FreesMatch, EndsMatch, WritesMatch, IssuesMatch
-----------------------------------------------------------------------------
(* The connection and its channels. *)

LEMMA Counted ==
    ASSUME faults \in 0 .. MaxFaults + 1, Fault \/ Noted \/ UNCHANGED faults
    PROVE  faults' \in 0 .. MaxFaults + 1 /\ (faults' = 0 => faults = 0 /\ UNCHANGED faults)
BY ExpConst DEF Fault, Noted

LEMMA StepConnected ==
    ASSUME ExpInv, Next
    PROVE  Connected' /\ (Quiet' => Quiet /\ UNCHANGED faults)
<1>0. /\ Connected /\ MatchInv /\ EventCap \in Nat \ {0} /\ back \in Seq(Frames)
      /\ eventChan \in Seq(Events) /\ Len(eventChan) <= EventCap
      /\ errorChan \in Seq(Errors) /\ Len(errorChan) <= 1
  BY ExpConst DEF ExpInv, Connected, MatchInv, Held
<1>l. Len(eventChan) \in Nat /\ Len(errorChan) \in Nat
  BY <1>0, LenProperties
<1>1. Fault \/ Noted \/ UNCHANGED faults
  <2>1. CASE Baresip \/ Callee \/ Faults \/ Client
    <3>1. CASE ReadFrame
      <4>1. Head(back) \in Frames
        BY <1>0, <3>1, Shorter DEF ReadFrame
      <4> QED
        BY <3>1, <4>1, FrameKinds DEF ReadFrame, Deliver
    <3> QED
      BY <2>1, <3>1 DEF Baresip, HandleCommand, Respond, Callee, Answered, Ended, Faults, LoseLink, Garble,
                Client, ReaderSteps, StopReading, CallerSteps, Write,
                TakeResponse, Timeout, CloseEndsWait
  <2>2. CASE Run
    BY <2>2 DEF Run, StartOne, Issue, EmitResult, Dialled, DialerEmits, DialerMarks, InitiateReturns,
                TakeResult, HangupCall, HangupReturns, HandleResult, Stop
  <2>3. CASE Loop
    BY <2>3 DEF Loop, OnOutgoing, OnAnswered, LoopEmits, LoopMarks, LoopAsks, OnClosed, CleansUp,
                TakesError, LoopEnds, EmitResult
  <2>4. CASE \E a \in Attempts : ODA(a)
    BY <2>4 DEF ODA, RuaCompletes, OdaSteps, OdaRecords, OdaDropped, OdaHangsUp, OdaReturns, EmitResult
  <2> QED
    BY <2>1, <2>2, <2>3, <2>4 DEF Next
<1>2. faults' \in 0 .. MaxFaults + 1 /\ (faults' = 0 => faults = 0 /\ UNCHANGED faults)
  BY <1>0, <1>1, Counted DEF Connected
<1>3. CASE ReadFrame /\ Rest
  <2>1. back # <<>> /\ Head(back) \in Frames
    BY <1>0, <1>3, Shorter DEF ReadFrame
  <2>2. /\ link' = link /\ closed' = closed /\ errorChan' = errorChan
        /\ reader = "run" /\ reader' \in {"run", "stuck"}
    BY <1>3, <2>1, FrameKinds DEF ReadFrame
  <2>3. eventChan' = eventChan \/ (Head(back) \in Events /\ Deliver(Head(back)))
    BY <1>3, <2>1, FrameKinds DEF ReadFrame
  <2>4. eventChan' \in Seq(Events) /\ Len(eventChan') <= EventCap
    <3>1. Len(eventChan) <= EventCap /\ EventCap \in Nat /\ eventChan \in Seq(Events)
      BY <1>0
    <3>2. \A e \in Events : /\ Append(eventChan, e) \in Seq(Events)
                             /\ Len(Append(eventChan, e)) = Len(eventChan) + 1
      BY <3>1, Longer
    <3> QED
      BY <1>l, <2>3, <3>1, <3>2 DEF Deliver
  <2> QED
    BY <1>0, <1>2, <2>2, <2>4 DEF Connected, Quiet
<1>4. CASE StopReading /\ Rest
  <2>1. /\ eventChan' = eventChan /\ link' = link /\ closed' = closed /\ reader' = "stopped"
        /\ errorChan = <<>> /\ errorChan' \in {<<>>, <<"read error">>}
    <3>1. errorChan = <<>>
      BY <1>0, <1>4 DEF StopReading, Connected
    <3>2. Append(<<>>, "read error") = <<"read error">>
      OBVIOUS
    <3> QED
      BY <1>4, <3>1, <3>2 DEF StopReading
  <2>2. errorChan' \in Seq(Errors) /\ Len(errorChan') <= 1
    <3>1. <<>> \in Seq(Errors) /\ Len(<<>>) <= 1
      OBVIOUS
    <3>2. ASSUME NEW e \in Errors PROVE <<e>> \in Seq(Errors) /\ Len(<<e>>) <= 1
      OBVIOUS
    <3>3. "read error" \in Errors
      BY DEF Errors
    <3> QED
      BY <2>1, <3>1, <3>2, <3>3
  <2> QED
    BY <1>0, <1>2, <2>1, <2>2 DEF Connected, Quiet
<1>5. CASE TakesError
  <2>1. /\ errorChan # <<>> /\ errorChan' = Tail(errorChan)
        /\ UNCHANGED <<eventChan, link, reader, closed>>
    BY <1>5 DEF TakesError
  <2>2. errorChan' \in Seq(Errors) /\ Len(errorChan') <= 1
    <3>1. errorChan' \in Seq(Errors) /\ Len(errorChan') = Len(errorChan) - 1
      <4>1. errorChan \in Seq(Errors) /\ errorChan # <<>> /\ errorChan' = Tail(errorChan)
        BY <1>0, <2>1
      <4> QED
        BY <4>1, Shorter
    <3>2. Len(errorChan) <= 1
      BY <1>0
    <3> QED
      BY <1>l, <3>1, <3>2
  <2> QED
    BY <1>0, <1>2, <2>1, <2>2 DEF Connected, Quiet
<1>6. ASSUME NEW type \in {"outgoing", "answered", "closed"}, NextEvent(type), UNCHANGED <<link, reader, errorChan, closed>>
      PROVE  Connected' /\ (Quiet' => Quiet /\ UNCHANGED faults)
  <2>1. eventChan' \in Seq(Events) /\ Len(eventChan') <= EventCap
    <3>1. eventChan # <<>> /\ eventChan' = Tail(eventChan)
      BY <1>6 DEF NextEvent
    <3>2. eventChan' \in Seq(Events) /\ Len(eventChan') = Len(eventChan) - 1
      BY <1>0, <3>1, Shorter
    <3>3. Len(eventChan) <= EventCap /\ EventCap \in Nat
      BY <1>0
    <3> QED
      BY <1>l, <3>2, <3>3
  <2> QED
    BY <1>0, <1>2, <1>6, <2>1 DEF Connected, Quiet
<1>7. ASSUME UNCHANGED <<reader, eventChan, errorChan>>, link' = link \/ link' = "down",
             closed' = closed \/ closed' = TRUE
      PROVE  Connected' /\ (Quiet' => Quiet /\ UNCHANGED faults)
  <2>1. Connected'
    BY <1>0, <1>2, <1>7 DEF Connected
  <2>2. Quiet' => Quiet /\ UNCHANGED faults
    BY <1>0, <1>2, <1>7 DEF Quiet, Connected
  <2> QED
    BY <2>1, <2>2
<1>8. CASE Baresip \/ Callee \/ Faults
  BY <1>7, <1>8 DEF Baresip, HandleCommand, Respond, Callee, Answered, Ended, Faults, LoseLink, Garble
<1>9. CASE (\E c \in Callers : CallerSteps(c)) /\ Rest
  BY <1>7, <1>9 DEF CallerSteps, Write, TakeResponse, Timeout, CloseEndsWait
<1>10. CASE Run
  BY <1>7, <1>10 DEF Run, StartOne, Issue, Dialled, DialerEmits, DialerMarks, InitiateReturns,
                TakeResult, HangupCall, HangupReturns, HandleResult, Stop, Close
<1>11. CASE OnOutgoing \/ OnAnswered \/ OnClosed
  BY <1>6, <1>11 DEF OnOutgoing, OnAnswered, OnClosed
<1>12. CASE LoopEmits \/ LoopMarks \/ LoopAsks \/ CleansUp \/ LoopEnds
  BY <1>7, <1>12 DEF LoopEmits, LoopMarks, LoopAsks, CleansUp, LoopEnds
<1>13. CASE \E a \in Attempts : ODA(a)
  BY <1>7, <1>13 DEF ODA, RuaCompletes, OdaSteps, OdaRecords, OdaDropped, OdaHangsUp, OdaReturns
<1> QED
  BY <1>3, <1>4, <1>5, <1>8, <1>9, <1>10, <1>11, <1>12, <1>13
     DEF Next, Client, ReaderSteps, Loop

-----------------------------------------------------------------------------
(* What a step can do to calls, sessions, records and the runner. *)

LEMMA AttemptsAreNumbers == \A a : a \in Attempts <=> a \in Nat /\ a >= 1 /\ a <= MaxRuns
BY ExpConst DEF Attempts

LEMMA CommandKnown ==
    ASSUME ExpInv, HandleCommand
    PROVE  /\ Head(wire) = wire[1] /\ 1 \in DOMAIN wire /\ Head(wire).op \in Ops
           /\ Head(wire).op = "dial" => Head(wire).arg \in Attempts
           /\ Head(wire).op = "hangup" => Head(wire).arg \in DOMAIN calls
<1>1. wire \in Seq(Commands) /\ wire # <<>>
  BY DEF ExpInv, MatchInv, Held, HandleCommand
<1>2. Head(wire) = wire[1] /\ 1 \in DOMAIN wire
  BY <1>1, Shorter
<1> QED
  BY <1>2 DEF ExpInv, MatchInv, TokenSays, Known, Ops

\* Calls are made by dials, and end for good.
LEMMA CallSteps ==
    ASSUME ExpInv, Next
    PROVE  /\ calls' \in Seq(Calls)
           /\ \A n \in DOMAIN calls :
                 /\ n \in DOMAIN calls' /\ calls'[n].att = calls[n].att
                 /\ calls[n].state = "over" => calls'[n].state = "over"
           /\ DOMAIN calls' = DOMAIN calls \/ HandleCommand
           /\ ~(Baresip \/ Callee) => calls' = calls
<1>0. calls \in Seq(Calls)
  BY DEF ExpInv, Shaped
<1>1. ASSUME NEW n \in DOMAIN calls, NEW s \in {"up", "over"}, calls' = [calls EXCEPT ![n].state = s],
             calls[n].state = "over" => s = "over"
      PROVE  /\ calls' \in Seq(Calls) /\ DOMAIN calls' = DOMAIN calls
             /\ \A m \in DOMAIN calls :
                   /\ m \in DOMAIN calls' /\ calls'[m].att = calls[m].att
                   /\ calls[m].state = "over" => calls'[m].state = "over"
  <2>1. calls[n] \in Calls
    BY <1>0
  <2> DEFINE c == [calls[n] EXCEPT !.state = s]
  <2>2. c \in Calls /\ c.att = calls[n].att /\ c.state = s
    BY <2>1 DEF Calls
  <2>3. calls' = [calls EXCEPT ![n] = c]
    BY <1>1
  <2> HIDE DEF c
  <2> QED
    BY <1>0, <1>1, <2>2, <2>3
<1>2. CASE HandleCommand
  <2>1. CASE \E a \in Attempts : calls' = Append(calls, [state |-> "ringing", att |-> a])
    <3>1. PICK a \in Attempts : calls' = Append(calls, [state |-> "ringing", att |-> a])
      BY <2>1
    <3>2. [state |-> "ringing", att |-> a] \in Calls
      BY DEF Calls
    <3> QED
      BY <1>0, <1>2, <3>1, <3>2, Longer DEF Baresip
  <2>2. CASE calls' = calls
    BY <1>0, <1>2, <2>2 DEF Baresip
  <2>3. CASE \E n \in DOMAIN calls : calls' = [calls EXCEPT ![n].state = "over"]
    BY <1>1, <1>2, <2>3 DEF Baresip
  <2> QED
    BY <1>2, <2>1, <2>2, <2>3, CommandKnown DEF HandleCommand
<1>3. CASE Callee
  <2>1. PICK n \in Callees : Answered(n) \/ Ended(n)
    BY <1>3 DEF Callee
  <2>2. n \in DOMAIN calls
    BY <1>0 DEF Callees
  <2> QED
    BY <1>1, <1>3, <2>1, <2>2 DEF Answered, Ended
<1>4. CASE ~HandleCommand /\ ~Callee
  <2>1. calls' = calls
    <3>1. CASE Respond \/ Client \/ Faults
      BY <3>1 DEF Respond, Client, Faults
    <3>2. CASE Run
      BY <3>2 DEF Run, StartOne, Dialled, DialerEmits, DialerMarks, InitiateReturns,
                  TakeResult, HangupCall, HangupReturns, HandleResult, Stop
    <3>3. CASE Loop
      BY <3>3 DEF Loop, OnOutgoing, OnAnswered, LoopEmits, LoopMarks, LoopAsks, OnClosed, CleansUp,
                  TakesError, LoopEnds
    <3>4. CASE \E a \in Attempts : ODA(a)
      BY <3>4 DEF ODA, RuaCompletes, OdaSteps, OdaRecords, OdaDropped, OdaHangsUp, OdaReturns
    <3> QED
      BY <1>4, <3>1, <3>2, <3>3, <3>4 DEF Next, Baresip
  <2> QED
    BY <1>0, <2>1
<1> QED
  BY <1>2, <1>3, <1>4

\* The first event of the channel.
LEMMA TakesEvent ==
    ASSUME ExpInv, NEW type, NextEvent(type)
    PROVE  /\ Head(eventChan) = eventChan[1] /\ 1 \in DOMAIN eventChan
           /\ Head(eventChan) \in Events /\ Head(eventChan).call \in DOMAIN calls
           /\ Head(eventChan).call \in Nat \ {0} /\ Head(eventChan).call <= Len(calls)
           /\ eventChan' \in Seq(Events)
           /\ \A i \in DOMAIN eventChan' : i + 1 \in DOMAIN eventChan /\ eventChan'[i] = eventChan[i + 1]
           /\ \A i \in DOMAIN eventChan : i = 1 \/ (i - 1 \in DOMAIN eventChan' /\ eventChan'[i - 1] = eventChan[i])
           /\ loop.pc = "idle" /\ eventChan[1].type = type
<1>1. /\ eventChan \in Seq(Events) /\ eventChan # <<>> /\ eventChan' = Tail(eventChan)
      /\ Head(eventChan).type = type /\ loop.pc = "idle" /\ calls \in Seq(Calls)
  BY DEF ExpInv, Connected, Shaped, NextEvent
<1>2. /\ Head(eventChan) = eventChan[1] /\ 1 \in DOMAIN eventChan /\ Head(eventChan) \in Events
      /\ eventChan' \in Seq(Events)
      /\ \A i \in DOMAIN eventChan' : i + 1 \in DOMAIN eventChan /\ eventChan'[i] = eventChan[i + 1]
      /\ \A i \in DOMAIN eventChan : i = 1 \/ (i - 1 \in DOMAIN eventChan' /\ eventChan'[i - 1] = eventChan[i])
  BY <1>1, Shorter
<1>3. Head(eventChan).call \in DOMAIN calls
  BY <1>2 DEF ExpInv, Known
<1>4. Head(eventChan).call \in Nat \ {0} /\ Head(eventChan).call <= Len(calls)
  BY <1>1, <1>3
<1> QED
  BY <1>1, <1>2, <1>3, <1>4

\* A session keeps its call and its answer, and is bound to calls there are.
Changed(s, t) ==
    /\ t \in Sessions
    /\ t.call = s.call \/ t.call \in DOMAIN calls
    /\ s.call # 0 => t.call # 0
    /\ s.answered => t.answered
    /\ t.answered => s.answered \/ t.call # 0

LEMMA AttSteps ==
    ASSUME ExpInv, Next
    PROVE  att' \in [Attempts -> Sessions] /\ \A a \in Attempts : Changed(att[a], att'[a])
<1>0. /\ att \in [Attempts -> Sessions] /\ runner.att + 1 \in Nat /\ calls \in Seq(Calls)
      /\ \A a \in Attempts : Changed(att[a], att[a])
  BY DEF ExpInv, Shaped, Runners, Changed, Sessions
<1>1. ASSUME NEW a \in Attempts, NEW s, att' = [att EXCEPT ![a] = s], Changed(att[a], s)
      PROVE  att' \in [Attempts -> Sessions] /\ \A b \in Attempts : Changed(att[b], att'[b])
  <2>1. s \in Sessions
    BY <1>1 DEF Changed
  <2>2. att' \in [Attempts -> Sessions] /\ att'[a] = s /\ \A b \in Attempts \ {a} : att'[b] = att[b]
    BY <1>0, <1>1, <2>1
  <2> QED
    BY <1>0, <1>1, <2>2
<1>2. ASSUME NEW a \in Attempts, NEW b \in BOOLEAN
      PROVE  /\ Changed(att[a], [att[a] EXCEPT !.reg = b]) /\ Changed(att[a], [att[a] EXCEPT !.open = b])
             /\ Changed(att[a], [att[a] EXCEPT !.sent = b]) /\ Changed(att[a], [att[a] EXCEPT !.emitted = b])
  <2>1. att[a] \in Sessions
    BY <1>0
  <2> QED
    BY <2>1 DEF Changed, Sessions
<1>3. ASSUME NEW a \in Attempts, NEW n \in DOMAIN calls
      PROVE  /\ Changed(att[a], [att[a] EXCEPT !.call = n])
             /\ Changed(att[a], [att[a] EXCEPT !.call = n, !.open = FALSE])
             /\ Changed(att[a], [att[a] EXCEPT !.call = n, !.answered = TRUE, !.open = TRUE])
  <2>1. att[a] \in Sessions /\ n \in Nat /\ n # 0
    BY <1>0
  <2> QED
    BY <2>1 DEF Changed, Sessions
<1>4. CASE StartOne
  <2>1. CASE ~Busy
    <3>1. runner.att + 1 \in Attempts
      <4>1. runner.att = runner.started /\ runner.started < exp.runs /\ runner.started \in Nat
        BY <1>4 DEF StartOne, Runner, ExpInv, Shaped, Progress, Runners, Dialling
      <4>2. exp.runs \in 1 .. MaxRuns
        BY ExpConst DEF ExpInv, Shaped
      <4> QED
        BY <4>1, <4>2, ExpConst DEF Attempts
    <3>2. att' = [att EXCEPT ![runner.att + 1] = [att[runner.att + 1] EXCEPT !.reg = TRUE]]
      BY <1>0, <1>4, <2>1, <3>1 DEF StartOne
    <3> QED
      BY <1>1, <1>2, <3>1, <3>2
  <2> QED
    BY <1>0, <1>4, <2>1 DEF StartOne
<1>5. CASE Dialled \/ DialerMarks \/ InitiateReturns
  <2>1. runner.att \in Attempts
    <3>1. runner.att = runner.started + 1 /\ runner.started < exp.runs /\ runner.started \in Nat
      BY <1>5 DEF Dialled, DialerMarks, InitiateReturns, Runner, ExpInv, Shaped, Progress, Runners, Dialling
    <3>2. exp.runs \in 1 .. MaxRuns
      BY ExpConst DEF ExpInv, Shaped
    <3> QED
      BY <3>1, <3>2, ExpConst DEF Attempts
  <2>2. CASE Dialled
    <3>1. (cmd["runner"].result # "failed") \in BOOLEAN
      OBVIOUS
    <3>2. att' = [att EXCEPT ![runner.att] = [att[runner.att] EXCEPT !.sent = cmd["runner"].result # "failed"]]
      BY <1>0, <2>1, <2>2 DEF Dialled
    <3> QED
      BY <1>1, <1>2, <2>1, <3>1, <3>2
  <2>3. CASE DialerMarks
    <3>1. att' = [att EXCEPT ![runner.att] = [att[runner.att] EXCEPT !.emitted = TRUE]]
      BY <1>0, <2>1, <2>3 DEF DialerMarks, MarkEmitted
    <3> QED
      BY <1>1, <1>2, <2>1, <3>1
  <2>4. CASE InitiateReturns
    <3>1. \/ att' = [att EXCEPT ![runner.att] = [att[runner.att] EXCEPT !.open = TRUE]]
          \/ att' = [att EXCEPT ![runner.att] = [att[runner.att] EXCEPT !.reg = FALSE]]
      BY <1>0, <2>1, <2>4 DEF InitiateReturns, Dials
    <3> QED
      BY <1>1, <1>2, <2>1, <3>1
  <2> QED
    BY <1>5, <2>2, <2>3, <2>4
<1>6. CASE LoopMarks \/ CleansUp
  <2>1. loop.att \in Attempts
    BY <1>6 DEF LoopMarks, CleansUp, ExpInv, Shaped
  <2>2. \/ att' = [att EXCEPT ![loop.att] = [att[loop.att] EXCEPT !.emitted = TRUE]]
        \/ att' = [att EXCEPT ![loop.att] = [att[loop.att] EXCEPT !.reg = FALSE]]
    BY <1>0, <1>6, <2>1 DEF LoopMarks, CleansUp, MarkEmitted
  <2> QED
    BY <1>1, <1>2, <2>1, <2>2
<1>7. CASE OnOutgoing
  <2> DEFINE n == Head(eventChan).call
  <2>1. n \in DOMAIN calls
    BY <1>7, TakesEvent DEF OnOutgoing
  <2>2. att' = [a \in Attempts |-> IF a \in Found(n) THEN [att[a] EXCEPT !.call = n] ELSE att[a]]
    BY <1>7 DEF OnOutgoing
  <2> HIDE DEF n
  <2>3. \A a \in Attempts : Changed(att[a], att'[a])
    BY <1>0, <1>3, <2>1, <2>2
  <2>4. \A a \in Attempts : att'[a] \in Sessions
    BY <2>3 DEF Changed
  <2> QED
    BY <2>2, <2>3, <2>4
<1>8. CASE OnAnswered \/ OnClosed
  <2> DEFINE n == Head(eventChan).call
  <2>1. n \in DOMAIN calls
    BY <1>8, TakesEvent DEF OnAnswered, OnClosed
  <2>2. \A m : Found(m) \subseteq Attempts
    BY Zenon DEF Found, Of, Waiting
  <2>3. \/ att' = att
        \/ \E a \in Attempts : att' = [att EXCEPT ![a].call = n, ![a].open = FALSE]
        \/ \E a \in Attempts : att' = [att EXCEPT ![a].call = n, ![a].answered = TRUE, ![a].open = TRUE]
    <3>1. CASE OnAnswered
      BY <2>2, <3>1 DEF OnAnswered
    <3>2. CASE OnClosed
      BY <2>2, <3>2 DEF OnClosed
    <3> QED
      BY <1>8, <3>1, <3>2
  <2> HIDE DEF n
  <2>4. ASSUME NEW a \in Attempts, att' = [att EXCEPT ![a].call = n, ![a].open = FALSE]
        PROVE  att' \in [Attempts -> Sessions] /\ \A b \in Attempts : Changed(att[b], att'[b])
    <3> DEFINE s == [att[a] EXCEPT !.call = n, !.open = FALSE]
    <3>1. att' = [att EXCEPT ![a] = s]
      BY <1>0, <2>4
    <3>2. Changed(att[a], s)
      BY <1>3, <2>1
    <3> HIDE DEF s
    <3> QED
      BY <1>1, <3>1, <3>2
  <2>5. ASSUME NEW a \in Attempts,
               att' = [att EXCEPT ![a].call = n, ![a].answered = TRUE, ![a].open = TRUE]
        PROVE  att' \in [Attempts -> Sessions] /\ \A b \in Attempts : Changed(att[b], att'[b])
    <3> DEFINE s == [att[a] EXCEPT !.call = n, !.answered = TRUE, !.open = TRUE]
    <3>1. att' = [att EXCEPT ![a] = s]
      BY <1>0, <2>5
    <3>2. Changed(att[a], s)
      BY <1>3, <2>1
    <3> HIDE DEF s
    <3> QED
      BY <1>1, <3>1, <3>2
  <2> QED
    BY <1>0, <2>3, <2>4, <2>5
<1>9. CASE att' = att
  BY <1>0, <1>9
<1>10. CASE Baresip \/ Callee \/ Client \/ Faults
  BY <1>9, <1>10 DEF Baresip, HandleCommand, Respond, Callee, Answered, Ended, Client, Faults
<1>11. CASE DialerEmits \/ TakeResult \/ HangupCall \/ HangupReturns \/ HandleResult \/ Stop
  BY <1>9, <1>11 DEF DialerEmits, TakeResult, HangupCall, HangupReturns, HandleResult, Stop
<1>12. CASE LoopEmits \/ LoopAsks \/ TakesError \/ LoopEnds
  BY <1>9, <1>12 DEF LoopEmits, LoopAsks, TakesError, LoopEnds
<1>a. CASE \E a \in Attempts : RuaCompletes(a)
  <2>1. PICK a \in Attempts : RuaCompletes(a)
    BY <1>a
  <2>2. att' = [att EXCEPT ![a] = [att[a] EXCEPT !.open = TRUE]]
    BY <1>0, <2>1 DEF RuaCompletes
  <2> QED
    BY <1>1, <1>2, <2>2
<1>13. CASE \E a \in Attempts : OdaSteps(a)
  BY <1>9, <1>13 DEF OdaSteps, OdaRecords, OdaDropped, OdaHangsUp, OdaReturns
<1> QED
  BY <1>4, <1>5, <1>6, <1>7, <1>8, <1>10, <1>11, <1>12, <1>13, <1>a DEF Next, Run, Loop, ODA


\* Whose state is whose.
LEMMA WhoSteps ==
    ASSUME Next
    PROVE  /\ exp' = exp
           /\ ~Run => UNCHANGED <<runner, inFlight, rows, closed>>
           /\ ~Loop => UNCHANGED loop
           /\ ~(LoopAsks \/ \E a \in Attempts : ODA(a)) => UNCHANGED oda
           /\ Baresip \/ Callee \/ Client \/ Faults => UNCHANGED <<control, main>>
<1>1. CASE Baresip \/ Callee \/ Client \/ Faults
  <2>1. UNCHANGED <<control, main>>
    BY <1>1 DEF Baresip, HandleCommand, Respond, Callee, Answered, Ended, Client, Faults
  <2>2. UNCHANGED closed
    BY <1>1 DEF Baresip, HandleCommand, Respond, Callee, Answered, Ended, Client, Faults, ReaderSteps,
                ReadFrame, StopReading, LoseLink, Garble, CallerSteps, Write, TakeResponse, Timeout, CloseEndsWait
  <2> QED
    BY <2>1, <2>2
<1>2. CASE Run
  <2>1. UNCHANGED <<exp, loop, oda>>
    BY <1>2 DEF Run, StartOne, Dialled, DialerEmits, DialerMarks, InitiateReturns,
                TakeResult, HangupCall, HangupReturns, HandleResult, Stop
  <2> QED
    BY <1>2, <2>1, <1>1
<1>3. CASE Loop
  <2>1. UNCHANGED <<main, closed>> /\ (LoopAsks \/ UNCHANGED oda)
    BY <1>3 DEF Loop, OnOutgoing, OnAnswered, LoopEmits, LoopMarks, LoopAsks, OnClosed, CleansUp,
                TakesError, LoopEnds
  <2> QED
    BY <1>3, <2>1, <1>1
<1>4. CASE \E a \in Attempts : ODA(a)
  <2>1. UNCHANGED <<main, closed, loop>>
    BY <1>4 DEF ODA, RuaCompletes, OdaSteps, OdaRecords, OdaDropped, OdaHangsUp, OdaReturns
  <2> QED
    BY <1>4, <2>1, <1>1
<1> QED
  BY <1>1, <1>2, <1>3, <1>4 DEF Next

LEMMA RunnerAtt ==
    ASSUME ExpInv
    PROVE  /\ runner.att \in Nat /\ runner.started \in Nat /\ runner.completed \in Nat
           /\ exp.runs \in 1 .. MaxRuns /\ runner.att <= runner.started + 1 /\ runner.started <= runner.att
           /\ runner.pc \in Dialling => runner.att \in Attempts /\ runner.att = runner.started + 1
           /\ runner.pc = "start" => runner.att + 1 \in Attempts /\ runner.att = runner.started
           /\ runner.res # <<>> => runner.pc \in Handling
           /\ runner.pc \in Handling => runner.res \in Records /\ runner.res.att \in Attempts /\ runner.res # <<>>
<1>1. /\ runner \in Runners /\ exp.runs \in 1 .. MaxRuns /\ MaxRuns \in Nat
  BY ExpConst DEF ExpInv, Shaped
<1>2. runner.att \in Nat /\ runner.started \in Nat /\ runner.completed \in Nat /\ runner.started <= exp.runs
  BY <1>1 DEF Runners, ExpInv, Progress
<1>3. runner.att <= runner.started + 1 /\ runner.started <= runner.att
  BY <1>2 DEF ExpInv, Progress, Dialling
<1>4. runner.pc \in Dialling => runner.att \in Attempts /\ runner.att = runner.started + 1
  BY <1>1, <1>2, AttemptsAreNumbers DEF ExpInv, Progress
<1>5. runner.pc = "start" => runner.att + 1 \in Attempts /\ runner.att = runner.started
  BY <1>1, <1>2, AttemptsAreNumbers DEF ExpInv, Progress, Dialling
<1>6. runner.res # <<>> => runner.pc \in Handling
  BY DEF ExpInv, Progress
<1>7. runner.pc \in Handling => runner.res \in Records /\ runner.res.att \in Attempts
  BY DEF ExpInv, Progress, Records
<1>8. <<>> \notin Records
  BY DEF Records
<1> QED
  BY <1>1, <1>2, <1>3, <1>4, <1>5, <1>6, <1>7, <1>8

\* A record is given, and is of an attempt that may give it; or the first one is taken.
Gives(r) ==
    /\ r \in Records /\ results' = Append(results, r) /\ Len(results) < ResultCap
    /\ r.outcome = "answered" => att[r.att].answered
    /\ r.outcome = "error" => runner'.pc = "aborted"

LEMMA ResultSteps ==
    ASSUME ExpInv, Next
    PROVE  \/ results' = results
           \/ TakeResult
           \/ \E r : Gives(r) /\ (DialerEmits \/ LoopEmits \/ OnClosed \/ (\E a \in Attempts : ODA(a)) \/ runner'.pc = "aborted")
<1>0. /\ \A a \in Attempts, outcome \in {"answered", "oda", "closed", "error"} :
            Record(a, outcome) \in Records
      /\ \A a, outcome : Record(a, outcome).att = a /\ Record(a, outcome).outcome = outcome
  BY DEF Record, Records
<1>1. ASSUME NEW r, EmitResult(r), Gives(r) \/ results' = results \/ (r \in Records
             /\ (r.outcome = "answered" => att[r.att].answered) /\ (r.outcome = "error" => runner'.pc = "aborted"))
      PROVE  results' = results \/ Gives(r)
  BY <1>1 DEF EmitResult, Gives
<1>2. CASE StartOne \/ InitiateReturns
  <2>1. CASE results' = results
    BY <2>1
  <2>2. CASE results' # results
    <3>1. \/ StartOne /\ EmitResult(Record(runner.att + 1, "error")) /\ Aborts
          \/ InitiateReturns /\ EmitResult(Record(runner.att, "error")) /\ Aborts
      BY <1>2, <2>2 DEF StartOne, InitiateReturns
    <3>2. runner'.pc = "aborted"
      BY <3>1 DEF Aborts, ExpInv, Shaped, Runners
    <3>3. StartOne => runner.att + 1 \in Attempts
      BY RunnerAtt DEF StartOne, Runner
    <3>4. InitiateReturns => runner.att \in Attempts
      BY RunnerAtt DEF InitiateReturns, Runner, Dialling
    <3> QED
      BY <1>0, <1>1, <2>2, <3>1, <3>2, <3>3, <3>4
  <2> QED
    BY <2>1, <2>2
<1>3. CASE DialerEmits
  <2>1. results' = results \/ (EmitResult(Record(runner.att, "answered")) /\ att[runner.att].answered)
    BY <1>3 DEF DialerEmits, LookAgain, MayEmit
  <2>2. runner.att \in Attempts
    BY <1>3, RunnerAtt DEF DialerEmits, Runner, Dialling
  <2> QED
    BY <1>0, <1>1, <1>3, <2>1, <2>2
<1>4. CASE LoopEmits
  <2>1. results' = results \/ (EmitResult(Record(loop.att, "answered")) /\ att[loop.att].answered)
    BY <1>4 DEF LoopEmits, MayEmit
  <2>2. loop.att \in Attempts
    BY <1>4 DEF LoopEmits, ExpInv, Shaped
  <2> QED
    BY <1>0, <1>1, <1>4, <2>1, <2>2
<1>5. CASE OnClosed
  <2>1. results' = results \/ \E a \in Attempts : EmitResult(Record(a, "closed"))
    BY <1>5 DEF OnClosed, Found, Of, Waiting
  <2> QED
    BY <1>0, <1>1, <1>5, <2>1
<1>6. CASE \E a \in Attempts : ODA(a)
  <2>1. results' = results \/ \E a \in Attempts : EmitResult(Record(a, "oda"))
    BY <1>6 DEF ODA, RuaCompletes, OdaSteps, OdaRecords, OdaDropped, OdaHangsUp, OdaReturns
  <2> QED
    BY <1>0, <1>1, <1>6, <2>1
<1>7. CASE Baresip \/ Callee \/ Client \/ Faults
  BY <1>7, WhoSteps
<1>8. CASE Dialled \/ DialerMarks \/ HangupCall \/ HangupReturns \/ HandleResult \/ Stop
  BY <1>8 DEF Dialled, DialerMarks, HangupCall, HangupReturns, HandleResult, Stop
<1>9. CASE OnOutgoing \/ OnAnswered \/ LoopMarks \/ LoopAsks \/ CleansUp \/ TakesError \/ LoopEnds
  BY <1>9 DEF OnOutgoing, OnAnswered, LoopMarks, LoopAsks, CleansUp, TakesError, LoopEnds
<1> QED
  BY <1>2, <1>3, <1>4, <1>5, <1>6, <1>7, <1>8, <1>9 DEF Next, Run, Loop

\* The rows a result adds, and what is written then.
LEMMA FewRows ==
    ASSUME NEW x \in Records, NEW y \in Records
    PROVE  /\ <<x>> \o <<y>> = <<x, y>> /\ <<x>> \o <<>> = <<x>>
           /\ <<x>> \in Seq(Records) /\ <<x, y>> \in Seq(Records) /\ <<>> \in Seq(Records)
           /\ Len(<<x>>) = 1 /\ Len(<<x, y>>) = 2
           /\ <<x>>[1] = x /\ <<x, y>>[1] = x /\ <<x, y>>[2] = y
<1>1. <<x>> \in Seq(Records) /\ <<x, y>> \in Seq(Records) /\ <<>> \in Seq(Records)
      /\ Len(<<x>>) = 1 /\ Len(<<x, y>>) = 2
      /\ <<x>>[1] = x /\ <<x, y>>[1] = x /\ <<x, y>>[2] = y
  OBVIOUS
<1>2. <<x>> \o <<>> = <<x>>
  OBVIOUS
<1>3. <<x>> \o <<y>> = <<x, y>>
  <2>1. <<x>> \o <<y>> = Append(<<x>>, y)
    BY <1>1, AppendIsConcat
  <2>2. /\ Append(<<x>>, y) \in Seq(Records) /\ Len(Append(<<x>>, y)) = 2
        /\ Append(<<x>>, y)[1] = x /\ Append(<<x>>, y)[2] = y
    BY <1>1, AppendProperties
  <2>3. \A i \in 1 .. 2 : Append(<<x>>, y)[i] = <<x, y>>[i]
    BY <1>1, <2>2
  <2>4. Append(<<x>>, y) = <<x, y>>
    BY <1>1, <2>2, <2>3, SeqEqual
  <2> QED
    BY <2>1, <2>4
<1> QED
  BY <1>1, <1>2, <1>3

RowsOf(w) ==
    \/ CSV(w).add = <<>>
    \/ CSV(w).add = <<Row("answered")>> /\ ~w.answered /\ CSV(w).w.answered /\ CSV(w).w.oda = w.oda
    \/ CSV(w).add = <<Row("answered"), Row("oda")>> /\ ~w.answered /\ ~w.oda
          /\ CSV(w).w.answered /\ CSV(w).w.oda
    \/ CSV(w).add = <<Row("oda")>> /\ ~w.oda /\ (Completes(Outcome) \/ (w.answered /\ CSV(w).w.oda))
    \/ CSV(w).add = <<Row("closed")>> /\ ~w.answered /\ ~w.oda /\ Outcome = "closed"
    \/ CSV(w).add = <<Row("error")>> /\ Outcome = "error"

LEMMA RowsAdded ==
    ASSUME NEW w \in Flags, runner.res \in Records
    PROVE  /\ CSV(w).w \in Flags /\ CSV(w).w.here = w.here
           /\ RowsOf(w) /\ (w.answered => CSV(w).w.answered) /\ (w.oda => CSV(w).w.oda)
           /\ CSV(w).w.oda => w.oda \/ w.answered \/ CSV(w).w.answered \/ Completes(Outcome)
           /\ ~Completes(Outcome) => CSV(w).w.terminal = w.terminal
           /\ \A kind \in {"answered", "oda", "closed", "error"} :
                 Row(kind) \in Records /\ Row(kind).att = runner.res.att /\ Row(kind).outcome = kind
<1>1. \A kind \in {"answered", "oda", "closed", "error"} :
         Row(kind) \in Records /\ Row(kind).att = runner.res.att /\ Row(kind).outcome = kind
  BY DEF Row, Record, Records
<1>2. <<Row("answered")>> \o <<Row("oda")>> = <<Row("answered"), Row("oda")>> /\ <<Row("answered")>> \o <<>> = <<Row("answered")>>
  BY <1>1, FewRows
<1>3. Outcome \in {"answered", "oda", "closed", "error"}
  BY DEF Outcome, Records
<1>4. CASE Outcome = "answered" /\ ~w.answered
  <2> DEFINE v == [w EXCEPT !.answered = TRUE, !.oda = @ \/ w.pending, !.pending = FALSE]
             more == IF w.pending /\ ~w.oda THEN <<Row("oda")>> ELSE <<>>
  <2>1. CSV(w) = [add |-> <<Row("answered")>> \o more, w |-> v]
    BY <1>4 DEF CSV, FirstAnswer
  <2>2. v \in Flags /\ v.here = w.here /\ v.answered /\ v.oda = (w.oda \/ w.pending) /\ v.terminal = w.terminal
    BY DEF Flags
  <2>3. more = IF w.pending /\ ~w.oda THEN <<Row("oda")>> ELSE <<>>
    OBVIOUS
  <2> HIDE DEF v, more
  <2>4. CSV(w).add = <<Row("answered")>> \o more /\ CSV(w).w = v
    BY <2>1
  <2>5. CASE w.pending /\ ~w.oda
    <3>1. CSV(w).add = <<Row("answered"), Row("oda")>> /\ v.oda
      BY <1>2, <2>2, <2>3, <2>4, <2>5
    <3> QED
      BY <1>1, <1>4, <2>2, <2>4, <2>5, <3>1 DEF RowsOf
  <2>6. CASE ~(w.pending /\ ~w.oda)
    <3>1. v.oda = w.oda
      BY <2>2, <2>6 DEF Flags
    <3>2. CSV(w).add = <<Row("answered")>>
      BY <1>2, <2>3, <2>4, <2>6
    <3> QED
      BY <1>1, <1>4, <2>2, <2>4, <3>1, <3>2 DEF RowsOf
  <2> QED
    BY <2>5, <2>6
<1>5. CASE Outcome = "oda" /\ ~w.oda
  <2>1. CASE w.answered
    <3> DEFINE v == [w EXCEPT !.oda = TRUE]
    <3>1. CSV(w) = [add |-> <<Row("oda")>>, w |-> v]
      BY <1>5, <2>1 DEF CSV
    <3>2. v \in Flags /\ v.here = w.here /\ v.answered /\ v.oda /\ v.terminal = w.terminal
      BY <2>1 DEF Flags
    <3> HIDE DEF v
    <3>3. CSV(w).add = <<Row("oda")>> /\ CSV(w).w = v
      BY <3>1
    <3> QED
      BY <1>1, <1>5, <2>1, <3>2, <3>3 DEF RowsOf
  <2>2. CASE ~w.answered
    <3> DEFINE v == [w EXCEPT !.pending = TRUE]
    <3>1. CSV(w) = [add |-> <<>>, w |-> v]
      BY <1>5, <2>2 DEF CSV
    <3>2. v \in Flags /\ v.here = w.here /\ v.answered = w.answered /\ v.oda = w.oda /\ v.terminal = w.terminal
      BY DEF Flags
    <3> HIDE DEF v
    <3>3. CSV(w).add = <<>> /\ CSV(w).w = v
      BY <3>1
    <3> QED
      BY <1>1, <1>5, <2>2, <3>2, <3>3 DEF RowsOf
  <2> QED
    BY <2>1, <2>2
<1>6. CASE Outcome = "closed"
  <2> DEFINE late == w.pending /\ ~w.oda
             alone == ~w.answered /\ ~w.oda /\ ~late /\ ~w.terminal
             v == [w EXCEPT !.oda = @ \/ late, !.pending = FALSE, !.terminal = @ \/ alone]
  <2>1. CSV(w) = [add |-> IF late THEN <<Row("oda")>> ELSE IF alone THEN <<Row("closed")>> ELSE <<>>, w |-> v]
    BY <1>6 DEF CSV
  <2>2. v \in Flags /\ v.here = w.here /\ v.answered = w.answered /\ (w.oda => v.oda)
    BY DEF Flags
  <2>3. Completes(Outcome)
    BY <1>6 DEF Completes
  <2> HIDE DEF v
  <2> QED
    BY <1>1, <1>6, <2>1, <2>2, <2>3 DEF RowsOf
<1>7. CASE Outcome = "error"
  <2> DEFINE v == IF ~w.terminal THEN [w EXCEPT !.terminal = TRUE] ELSE w
             more == IF ~w.terminal THEN <<Row("error")>> ELSE <<>>
  <2>1. CSV(w) = [add |-> more, w |-> v]
    BY <1>7 DEF CSV
  <2>2. v \in Flags /\ v.here = w.here /\ v.answered = w.answered /\ v.oda = w.oda
    BY DEF Flags
  <2>3. more \in {<<Row("error")>>, <<>>}
    OBVIOUS
  <2>4. Completes(Outcome)
    BY <1>7 DEF Completes
  <2> HIDE DEF v, more
  <2>5. CSV(w).add = more /\ CSV(w).w = v
    BY <2>1
  <2> QED
    BY <1>1, <1>7, <2>2, <2>3, <2>4, <2>5 DEF RowsOf
<1>8. CASE (Outcome = "answered" /\ w.answered) \/ (Outcome = "oda" /\ w.oda)
  <2>1. CSV(w) = [add |-> <<>>, w |-> w]
    BY <1>8 DEF CSV, FirstAnswer
  <2> QED
    BY <1>1, <2>1 DEF RowsOf
<1> QED
  BY <1>3, <1>4, <1>5, <1>6, <1>7, <1>8
-----------------------------------------------------------------------------
(* ExpInv is inductive. *)

\* What the runner writes and where it is.
LEMMA RunnerShape ==
    ASSUME ExpInv, Run
    PROVE  /\ runner' \in Runners /\ rows' \in Seq(Records) /\ inFlight' \in [Attempts -> Flags]
<1>0. /\ runner \in Runners /\ rows \in Seq(Records) /\ inFlight \in [Attempts -> Flags]
      /\ results \in Seq(Records) /\ runner.att + 1 \in Nat /\ runner.started + 1 \in Nat /\ runner.completed + 1 \in Nat
  BY DEF ExpInv, Shaped, Runners
<1>1. CASE StartOne
  BY <1>0, <1>1 DEF StartOne, Aborts, Runners, Dialling, Handling
<1>2. CASE Dialled \/ DialerEmits \/ DialerMarks \/ HangupCall
  BY <1>0, <1>2 DEF Dialled, DialerEmits, DialerMarks, HangupCall, Runners, Dialling, Handling
<1>3. CASE InitiateReturns
  <2>1. JustStarted \in Flags
    BY DEF JustStarted, NotInFlight, Flags
  <2> QED
    BY <1>0, <1>3, <2>1 DEF InitiateReturns, Aborts, Runners, Dialling, Handling
<1>4. CASE TakeResult
  <2>1. Head(results) \in Records
    BY <1>0, <1>4, Shorter DEF TakeResult
  <2> QED
    BY <1>0, <1>4, <2>1 DEF TakeResult, Runners, Handling
<1>5. CASE HangupReturns
  BY <1>0, <1>5 DEF HangupReturns, Runners, Handling, Flags
<1>6. CASE HandleResult
  <2>1. runner.res \in Records /\ runner.res.att \in Attempts
    BY <1>6, RunnerAtt DEF HandleResult, Runner, Handling
  <2>2. Written \in Flags
    BY <1>0, <2>1 DEF Written
  <2>3. CSV(Written).w \in Flags /\ RowsOf(Written)
        /\ \A kind \in {"answered", "oda", "closed", "error"} : Row(kind) \in Records
    BY <2>1, <2>2, RowsAdded
  <2>4. CSV(Written).add \in Seq(Records)
    <3>1. /\ <<Row("answered")>> \in Seq(Records) /\ <<Row("oda")>> \in Seq(Records)
          /\ <<Row("closed")>> \in Seq(Records) /\ <<Row("error")>> \in Seq(Records)
          /\ <<Row("answered"), Row("oda")>> \in Seq(Records) /\ <<>> \in Seq(Records)
      BY <2>3, FewRows
    <3> QED
      BY <2>3, <3>1 DEF RowsOf
  <2>5. rows' \in Seq(Records)
    BY <1>0, <1>6, <2>4, ConcatProperties DEF HandleResult
  <2>6. NotInFlight \in Flags
    BY DEF NotInFlight, Flags
  <2>7. inFlight' \in [Attempts -> Flags]
    BY <1>0, <1>6, <2>3, <2>6 DEF HandleResult
  <2>8. runner' \in Runners
    BY <1>0, <1>6 DEF HandleResult, Runners, Dialling
  <2> QED
    BY <2>5, <2>7, <2>8
<1>7. CASE Stop
  BY <1>0, <1>7 DEF Stop
<1> QED
  BY <1>1, <1>2, <1>3, <1>4, <1>5, <1>6, <1>7 DEF Run

LEMMA StepShaped == ASSUME ExpInv, Next PROVE Shaped'
<1>0. Shaped
  BY DEF ExpInv
<1>1. exp' \in Experiments /\ calls' \in Seq(Calls) /\ att' \in [Attempts -> Sessions]
  BY <1>0, WhoSteps, CallSteps, AttSteps DEF Shaped
<1>2. rows' \in Seq(Records) /\ runner' \in Runners /\ inFlight' \in [Attempts -> Flags]
  BY <1>0, WhoSteps, RunnerShape DEF Shaped
<1>3. results' \in Seq(Records)
  <2>1. results \in Seq(Records)
    BY <1>0 DEF Shaped
  <2>2. CASE TakeResult
    BY <2>1, <2>2, Shorter DEF TakeResult
  <2>3. ASSUME NEW r, Gives(r) PROVE results' \in Seq(Records)
    BY <2>1, <2>3, Longer DEF Gives
  <2> QED
    BY <2>1, <2>2, <2>3, ResultSteps
<1>4. /\ loop' \in [pc : {"idle", "answer", "mark", "ask", "cleanup", "ended"}, att : Nat]
      /\ loop'.pc \in {"answer", "mark", "ask", "cleanup"} => loop'.att \in Attempts
  <2>0. \A a \in Attempts : a \in Nat
    BY AttemptsAreNumbers
  <2>1. CASE ~Loop
    BY <1>0, <2>1, WhoSteps DEF Shaped
  <2>2. CASE OnAnswered \/ OnClosed
    <3>1. loop' = loop \/ \E a \in Attempts, pc \in {"answer", "cleanup"} : loop' = [pc |-> pc, att |-> a]
      BY <2>2 DEF OnAnswered, OnClosed, Found, Of, Waiting
    <3> QED
      BY <1>0, <2>0, <3>1 DEF Shaped
  <2>3. CASE OnOutgoing \/ LoopEmits \/ LoopMarks \/ LoopAsks \/ CleansUp \/ TakesError \/ LoopEnds
    <3>1. \/ loop' = loop \/ loop' = [pc |-> "idle", att |-> 0]
          \/ \E pc \in {"mark", "ask", "ended"} :
                loop' = [loop EXCEPT !.pc = pc] /\ (loop.pc \in {"answer", "mark"} \/ pc = "ended")
      BY <2>3 DEF OnOutgoing, LoopEmits, LoopMarks, LoopAsks, CleansUp, TakesError, LoopEnds
    <3>2. ASSUME NEW pc \in {"mark", "ask", "ended"}, loop' = [loop EXCEPT !.pc = pc],
                 loop.pc \in {"answer", "mark"} \/ pc = "ended"
          PROVE  /\ loop' \in [pc : {"idle", "answer", "mark", "ask", "cleanup", "ended"}, att : Nat]
                 /\ loop'.pc \in {"answer", "mark", "ask", "cleanup"} => loop'.att \in Attempts
      BY <1>0, <3>2 DEF Shaped
    <3> QED
      BY <1>0, <3>1, <3>2 DEF Shaped
  <2> QED
    BY <2>1, <2>2, <2>3 DEF Loop
<1>5. oda' \in [Attempts -> {"off", "ready", "asked", "hangup", "wait", "over"}]
  <2>1. CASE LoopAsks
    BY <1>0, <2>1 DEF Shaped, LoopAsks
  <2>2. CASE \E a \in Attempts : ODA(a)
    BY <1>0, <2>2 DEF Shaped, ODA, RuaCompletes, OdaSteps, OdaRecords, OdaDropped, OdaHangsUp, OdaReturns
  <2> QED
    BY <1>0, <2>1, <2>2, WhoSteps DEF Shaped
<1> QED
  BY <1>1, <1>2, <1>3, <1>4, <1>5 DEF Shaped

LEMMA StepProgress == ASSUME ExpInv, Next PROVE Progress'
<1>0. /\ Progress /\ runner \in Runners /\ inFlight \in [Attempts -> Flags] /\ exp' = exp
      /\ runner.att \in Nat /\ runner.started \in Nat /\ runner.completed \in Nat /\ exp.runs \in Nat
      /\ closed \in BOOLEAN
  BY WhoSteps, RunnerAtt DEF ExpInv, Shaped, Connected
<1>1. /\ IsFiniteSet(InFlight) /\ Cardinality(InFlight) \in Nat
      /\ Cardinality(InFlight) = runner.started - runner.completed
      /\ \A a : a \in InFlight <=> a \in Attempts /\ inFlight[a].here
      /\ \A a \in InFlight : a <= runner.started
  <2>1. IsFiniteSet(Attempts)
    BY ExpConst, FS_Interval DEF Attempts
  <2>2. InFlight \subseteq Attempts
    BY DEF InFlight
  <2> QED
    BY <1>0, <2>1, <2>2, FS_Subset, FS_CardinalityType DEF InFlight, Progress
<1>2. CASE ~Run
  BY <1>0, <1>2, WhoSteps DEF Progress, InFlight
<1>f. ASSUME UNCHANGED <<inFlight, closed>>, runner'.started = runner.started, runner'.completed = runner.completed
      PROVE  /\ runner'.started <= exp'.runs /\ runner'.completed <= runner'.started
             /\ Cardinality(InFlight') = runner'.started - runner'.completed
             /\ \A b \in InFlight' : b <= runner'.started
  BY <1>0, <1>1, <1>f DEF Progress, InFlight
<1>3. CASE StartOne
  <2>1. /\ UNCHANGED <<inFlight, closed>> /\ runner.pc = "start"
        /\ \/ runner' = [runner EXCEPT !.pc = "aborted"]
           \/ runner' = [runner EXCEPT !.pc = "dial", !.att = runner.att + 1]
    BY <1>3 DEF StartOne, Runner, Aborts
  <2>2. /\ runner'.started = runner.started /\ runner'.completed = runner.completed /\ runner'.res = <<>>
        /\ \/ runner'.pc = "aborted" /\ runner'.att = runner.att
           \/ runner'.pc = "dial" /\ runner'.att = runner.att + 1
    BY <1>0, <2>1 DEF Runners, Progress, Handling
  <2>3. runner.att = runner.started /\ runner.started < exp.runs /\ ~closed
    BY <1>0, <2>1 DEF Progress, Dialling
  <2> QED
    BY <1>0, <1>f, <2>1, <2>2, <2>3 DEF Progress, Dialling, Handling
<1>4. CASE Dialled \/ DialerEmits \/ DialerMarks
  <2>1. /\ UNCHANGED <<inFlight, closed>> /\ runner.pc \in Dialling
        /\ \E pc \in Dialling : runner' = [runner EXCEPT !.pc = pc]
    BY <1>4 DEF Dialled, DialerEmits, DialerMarks, Runner, Dialling
  <2>2. /\ runner'.started = runner.started /\ runner'.completed = runner.completed /\ runner'.res = <<>>
        /\ runner'.pc \in Dialling /\ runner'.att = runner.att
    BY <1>0, <2>1 DEF Runners, Progress, Handling, Dialling
  <2>3. runner.att = runner.started + 1 /\ runner.started < exp.runs /\ ~closed
    BY <1>0, <2>1 DEF Progress, Dialling
  <2> QED
    BY <1>0, <1>f, <2>1, <2>2, <2>3 DEF Progress, Dialling, Handling
<1>5. CASE InitiateReturns
  <2>1. CASE cmd["runner"].result = "ok"
    <3> DEFINE a == runner.att
               n == runner.started + 1
    <3>1. a \in Attempts /\ a = n /\ n <= exp.runs
      BY <1>0, <1>5, RunnerAtt DEF InitiateReturns, Runner, Progress, Dialling
    <3>2. /\ inFlight' = [inFlight EXCEPT ![a] = JustStarted] /\ closed' = closed
          /\ runner' = [runner EXCEPT !.started = n, !.pc = IF n < exp.runs /\ n < Concurrency THEN "start" ELSE "wait"]
      BY <1>5, <2>1 DEF InitiateReturns
    <3>3. InFlight' = InFlight \cup {a} /\ a \notin InFlight
      <4>1. JustStarted.here
        BY DEF JustStarted, NotInFlight
      <4>2. a \notin InFlight
        BY <1>0, <1>1, <3>1
      <4> QED
        BY <1>0, <3>1, <3>2, <4>1, <4>2 DEF InFlight
    <3>4. Cardinality(InFlight') = Cardinality(InFlight) + 1
      BY <1>1, <3>3, FS_AddElement
    <3>5. runner'.started = n /\ runner'.completed = runner.completed /\ runner'.att = runner.att
          /\ runner'.res = runner.res /\ runner'.pc \in {"start", "wait"}
          /\ (runner'.pc = "start" => n < exp.runs)
      BY <1>0, <3>2 DEF Runners
    <3>6. runner.res = <<>> /\ runner.pc = "dialled"
      BY <1>0, <1>5 DEF InitiateReturns, Runner, Progress, Dialling, Handling
    <3>7. \A b \in InFlight' : b <= n
      BY <1>0, <1>1, <3>1, <3>3, AttemptsAreNumbers
    <3>8. ~closed
      BY <1>0, <3>6 DEF Progress
    <3>9. n - runner.completed = (runner.started - runner.completed) + 1 /\ runner.completed <= n
      BY <1>0 DEF Progress
    <3>10. runner'.att = n /\ ~closed'
      BY <3>1, <3>2, <3>5, <3>8
    <3>11. exp'.runs = exp.runs /\ Cardinality(InFlight') = n - runner.completed /\ runner.completed <= n
      BY <1>0, <1>1, <3>4, <3>9
    <3> HIDE DEF a, n
    <3> QED
      BY <3>1, <3>5, <3>6, <3>7, <3>10, <3>11 DEF Progress, Dialling, Handling
  <2>2. CASE cmd["runner"].result # "ok"
    <3>1. UNCHANGED <<inFlight, closed>> /\ runner' = [runner EXCEPT !.pc = "aborted"] /\ runner.pc = "dialled"
      BY <1>5, <2>2 DEF InitiateReturns, Aborts, Runner
    <3>2. /\ runner'.started = runner.started /\ runner'.completed = runner.completed /\ runner'.res = <<>>
          /\ runner'.pc = "aborted" /\ runner'.att = runner.att
      BY <1>0, <3>1 DEF Runners, Progress, Handling
    <3>3. runner.att = runner.started + 1 /\ runner.started < exp.runs /\ ~closed
      BY <1>0, <3>1 DEF Progress, Dialling
    <3> QED
      BY <1>0, <1>f, <3>1, <3>2, <3>3 DEF Progress, Dialling, Handling
  <2> QED
    BY <2>1, <2>2
<1>6. CASE TakeResult
  <2>1. results \in Seq(Records) /\ results # <<>>
    BY <1>6 DEF TakeResult, ExpInv, Shaped
  <2>2. Head(results) \in Records
    BY <2>1, Shorter
  <2> QED
    BY <1>0, <1>6, <2>2 DEF TakeResult, Runner, Runners, Progress, Dialling, Handling, InFlight
<1>7. CASE HangupCall
  BY <1>0, <1>7 DEF HangupCall, Runner, Runners, Progress, Dialling, Handling, InFlight
<1>8. CASE HangupReturns
  <2>1. InFlight' = InFlight /\ \A a \in Attempts : inFlight'[a].here = inFlight[a].here
    BY <1>0, <1>8 DEF HangupReturns, InFlight, Flags
  <2>2. runner.res.att \in Attempts
    BY <1>8, RunnerAtt DEF HangupReturns, Runner, Handling
  <2> QED
    BY <1>0, <1>8, <2>1, <2>2 DEF HangupReturns, Runner, Runners, Progress, Dialling, Handling
<1>9. CASE HandleResult
  <2> DEFINE a == runner.res.att
  <2>1. a \in InFlight /\ a \in Attempts /\ runner.res \in Records /\ inFlight[a].here
    BY <1>0, <1>1, <1>9 DEF HandleResult, Runner, Progress, Handling, Records
  <2>2. runner.att = runner.started /\ runner.pc = "handle" /\ ~closed
    BY <1>0, <1>9 DEF HandleResult, Runner, Progress, Dialling
  <2>3. CSV(Written).w.here
    BY <1>0, <2>1, RowsAdded DEF Written
  <2>4. CASE Completes(Outcome)
    <3>1. InFlight' = InFlight \ {a}
      <4>1. inFlight' = [inFlight EXCEPT ![a] = NotInFlight]
        BY <1>9, <2>4 DEF HandleResult
      <4>2. NotInFlight.here = FALSE
        BY DEF NotInFlight
      <4>3. \A b \in Attempts : inFlight'[b].here <=> inFlight[b].here /\ b # a
        BY <1>0, <2>1, <4>1, <4>2
      <4> QED
        BY <4>3 DEF InFlight
    <3>2. Cardinality(InFlight') = Cardinality(InFlight) - 1 /\ Cardinality(InFlight') \in Nat
      <4>1. Cardinality(InFlight \ {a}) = Cardinality(InFlight) - 1 /\ IsFiniteSet(InFlight \ {a})
        BY <1>1, <2>1, FS_RemoveElement
      <4>2. Cardinality(InFlight \ {a}) \in Nat
        BY <4>1, FS_CardinalityType
      <4> QED
        BY <3>1, <4>1, <4>2
    <3>3. /\ runner' = [runner EXCEPT !.completed = runner.completed + 1, !.res = <<>>,
                             !.pc = IF runner.completed + 1 >= exp.runs THEN "done"
                                    ELSE IF runner.started < exp.runs THEN "start" ELSE "wait"]
          /\ closed' = closed
      BY <1>9, <2>4 DEF HandleResult
    <3>4. runner.completed + 1 <= runner.started
      BY <1>0, <1>1, <3>2
    <3>5. /\ runner'.completed = runner.completed + 1 /\ runner'.res = <<>> /\ runner'.started = runner.started
          /\ runner'.att = runner.att /\ runner'.pc \in {"done", "start", "wait"}
          /\ (runner'.pc = "done" => runner.completed + 1 >= exp.runs)
          /\ (runner'.pc = "start" => runner.started < exp.runs)
      BY <1>0, <3>3 DEF Runners
    <3>6. \A b \in InFlight' : b <= runner.started
      BY <1>1, <3>1
    <3>7. runner.started - (runner.completed + 1) = Cardinality(InFlight) - 1 /\ runner.started <= exp.runs
      BY <1>0, <1>1 DEF Progress
    <3> QED
      BY <1>0, <1>1, <2>2, <3>2, <3>3, <3>4, <3>5, <3>6, <3>7 DEF Progress, Dialling, Handling
  <2>5. CASE ~Completes(Outcome)
    <3>1. InFlight' = InFlight
      BY <1>0, <1>9, <2>1, <2>3, <2>5 DEF HandleResult, InFlight
    <3> QED
      <4>1. runner' = [runner EXCEPT !.pc = "wait", !.res = <<>>] /\ UNCHANGED closed
        BY <1>9, <2>5 DEF HandleResult
      <4>2. /\ runner'.started = runner.started /\ runner'.completed = runner.completed /\ runner'.res = <<>>
            /\ runner'.pc = "wait" /\ runner'.att = runner.att
        BY <1>0, <4>1 DEF Runners
      <4> QED
        BY <1>0, <1>1, <2>2, <3>1, <4>1, <4>2 DEF Progress, Dialling, Handling
  <2> QED
    BY <2>4, <2>5
<1>10. CASE Stop
  BY <1>0, <1>10 DEF Stop, Runner, Progress, Dialling, Handling, InFlight, Close
<1> QED
  BY <1>2, <1>3, <1>4, <1>5, <1>6, <1>7, <1>8, <1>9, <1>10 DEF Run

\* A command is its caller's until the caller is done with it.
Kept(k, l) ==
    /\ l.op = k.op /\ l.arg = k.arg /\ l.token = k.token
    /\ l.pc = "idle" <=> k.pc = "idle"
    /\ k.pc = "done" => l = k
    /\ l.pc = "write" => k.pc = "write"

LEMMA CmdKept ==
    ASSUME ExpInv, Next, NEW c \in Callers
    PROVE  \/ Kept(cmd[c], cmd'[c])
           \/ c = "runner" /\ Run
           \/ c = "oda" /\ \E a \in Attempts : ODA(a)
<1>0. /\ cmd \in [Callers -> Commands] /\ \A k \in Commands : Kept(k, k)
      /\ "runner" \in Callers /\ "oda" \in Callers
  BY ExpConst DEF ExpInv, MatchInv, Held, Kept
<1>1. CASE cmd' = cmd
  BY <1>0, <1>1
<1>2. CASE Client
  <2>1. CASE ReadFrame
    <3>1. cmd' = cmd \/ Routes
      <4>1. back \in Seq(Frames) /\ back # <<>>
        BY <2>1 DEF ExpInv, MatchInv, Held, ReadFrame
      <4>2. Head(back) \in Frames
        BY <4>1, Shorter
      <4> QED
        BY <1>2, <2>1, <4>2, FrameKinds DEF ReadFrame, Routes, Client
    <3>2. CASE Routes
      <4>1. CASE Head(back).token \in DOMAIN pending
        <5> DEFINE d == pending[Head(back).token]
        <5>1. d \in Callers /\ Awaiting(cmd[d])
          BY <4>1 DEF ExpInv, MatchInv, Held, Table
        <5>2. \E ch : cmd' = [cmd EXCEPT ![d].chan = ch]
          BY <3>2, <4>1 DEF Routes, Route
        <5> HIDE DEF d
        <5> QED
          BY <1>0, <5>1, <5>2 DEF Kept, Awaiting, Commands
      <4>2. CASE Head(back).token \notin DOMAIN pending
        BY <1>1, <3>2, <4>2 DEF Routes, Route
      <4> QED
        BY <4>1, <4>2
    <3> QED
      BY <1>1, <3>1, <3>2
  <2>2. CASE StopReading
    BY <1>1, <2>2 DEF StopReading
  <2>3. ASSUME NEW d \in Callers, CallerSteps(d)
        PROVE  Kept(cmd[c], cmd'[c])
    <3>1. /\ cmd[d].pc \in {"write", "wait"}
          /\ \/ cmd' = [cmd EXCEPT ![d].pc = "wait"]
             \/ \E result \in Results : cmd' = [cmd EXCEPT ![d].pc = "done", ![d].result = result]
      BY <2>3 DEF CallerSteps, Write, TakeResponse, Timeout, Expires, CloseEndsWait, Returns, Results
    <3>2. cmd[d] \in Commands
      BY <1>0
    <3>3. CASE cmd' = [cmd EXCEPT ![d].pc = "wait"]
      BY <1>0, <3>1, <3>2, <3>3 DEF Kept, Commands
    <3>4. ASSUME NEW result \in Results, cmd' = [cmd EXCEPT ![d].pc = "done", ![d].result = result]
          PROVE  Kept(cmd[c], cmd'[c])
      <4> DEFINE k == [cmd[d] EXCEPT !.pc = "done", !.result = result]
      <4>1. cmd' = [cmd EXCEPT ![d] = k] /\ Kept(cmd[d], k)
        BY <1>0, <3>1, <3>2, <3>4 DEF Kept, Commands
      <4> HIDE DEF k
      <4> QED
        BY <1>0, <4>1
    <3> QED
      BY <3>1, <3>3, <3>4
  <2> QED
    BY <1>2, <2>1, <2>2, <2>3 DEF Client, ReaderSteps
<1>3. CASE Baresip \/ Callee \/ Faults
  BY <1>1, <1>3 DEF Baresip, HandleCommand, Respond, Callee, Answered, Ended, Faults, LoseLink, Garble
<1>4. CASE Run
  <2>1. cmd' = cmd \/ \E k : cmd' = [cmd EXCEPT !["runner"] = k]
    BY <1>4 DEF Run, StartOne, Issue, Dialled, DialerEmits, DialerMarks, InitiateReturns,
                TakeResult, HangupCall, HangupReturns, HandleResult, Stop
  <2> QED
    BY <1>0, <1>1, <1>4, <2>1
<1>5. CASE Loop
  BY <1>1, <1>5 DEF Loop, OnOutgoing, OnAnswered, LoopEmits, LoopMarks, LoopAsks, OnClosed, CleansUp,
                TakesError, LoopEnds
<1>6. CASE \E a \in Attempts : ODA(a)
  <2>1. cmd' = cmd \/ \E k : cmd' = [cmd EXCEPT !["oda"] = k]
    BY <1>6 DEF ODA, RuaCompletes, OdaSteps, OdaRecords, OdaDropped, OdaHangsUp, OdaReturns, Issue
  <2> QED
    BY <1>0, <1>1, <1>6, <2>1
<1> QED
  BY <1>2, <1>3, <1>4, <1>5, <1>6 DEF Next

\* What is issued.
LEMMA Issued ==
    ASSUME ExpInv, NEW c \in Callers, NEW op, NEW arg, Issue(c, op, arg)
    PROVE  /\ cmd[c].pc = "idle" /\ cmd'[c].pc = "write" /\ cmd'[c].op = op /\ cmd'[c].arg = arg
           /\ cmd'[c].chan = <<>> /\ \A d \in Callers : d # c => cmd'[d] = cmd[d]
BY DEF ExpInv, MatchInv, Held, Issue, NoCommand

LEMMA OnlyRunnerDials ==
    ASSUME ExpInv, Next, NEW c \in Callers \ {"runner"}
    PROVE  cmd'[c].op # "dial"
<1>0. cmd[c].op # "dial" /\ c \in Callers /\ cmd \in [Callers -> Commands] /\ NoCommand.op = "none"
  BY DEF ExpInv, Commanded, MatchInv, Held, NoCommand
<1>1. CASE Kept(cmd[c], cmd'[c])
  BY <1>0, <1>1 DEF Kept
<1>2. ASSUME c = "oda", NEW a \in Attempts, ODA(a)
      PROVE  cmd'[c].op # "dial"
  <2>1. CASE OdaHangsUp(a)
    <3>1. Issue("oda", "hangup", att[a].call)
      BY <2>1 DEF OdaHangsUp
    <3> QED
      BY <1>0, <1>2, <3>1, Issued
  <2>2. CASE RuaCompletes(a) \/ OdaRecords(a) \/ OdaDropped(a) \/ OdaReturns(a)
    BY <1>0, <1>2, <2>2 DEF RuaCompletes, OdaRecords, OdaDropped, OdaReturns
  <2> QED
    BY <1>2, <2>1, <2>2 DEF ODA, OdaSteps
<1> QED
  BY <1>0, <1>1, <1>2, CmdKept

LEMMA StepCommanded == ASSUME ExpInv, Next PROVE Commanded'
<1>0. /\ Commanded /\ runner \in Runners /\ "runner" \in Callers /\ "oda" \in Callers
      /\ cmd \in [Callers -> Commands] /\ NoCommand.pc = "idle" /\ NoCommand.op = "none"
      /\ \A c \in Callers \ {"runner"} : cmd'[c].op # "dial"
  BY ExpConst, OnlyRunnerDials DEF ExpInv, MatchInv, Held, Shaped, NoCommand
<1>1. CASE ~Run
  <2>1. Kept(cmd["runner"], cmd'["runner"]) /\ runner' = runner
    BY <1>0, <1>1, CmdKept, WhoSteps
  <2> QED
    BY <1>0, <2>1 DEF Kept, Commanded, Dialling
<1>2. CASE StartOne
  <2>1. CASE Busy
    <3>1. cmd' = cmd /\ runner'.pc = "aborted" /\ runner.pc = "start"
      BY <1>0, <1>2, <2>1 DEF StartOne, Aborts, Runner, Runners
    <3> QED
      BY <1>0, <3>1 DEF Commanded, Dialling
  <2>2. CASE ~Busy
    <3>1. Issue("runner", "dial", runner.att + 1) /\ runner' = [runner EXCEPT !.pc = "dial", !.att = runner.att + 1]
      BY <1>2, <2>2 DEF StartOne
    <3>2. cmd'["runner"].pc = "write" /\ cmd'["runner"].op = "dial" /\ cmd'["runner"].arg = runner.att + 1
      BY <1>0, <3>1, Issued
    <3>3. runner'.pc = "dial" /\ runner'.att = runner.att + 1
      BY <1>0, <3>1 DEF Runners
    <3> QED
      BY <1>0, <3>2, <3>3 DEF Commanded, Dialling
  <2> QED
    BY <2>1, <2>2
<1>3. CASE Dialled \/ DialerEmits \/ DialerMarks
  <2>1. /\ cmd' = cmd /\ cmd["runner"].pc = "done" /\ runner.pc \in Dialling
        /\ \E pc \in Dialling : runner' = [runner EXCEPT !.pc = pc]
    BY <1>0, <1>3 DEF Dialled, DialerEmits, DialerMarks, Runner, Dialling, Commanded
  <2>2. runner'.pc \in Dialling /\ runner'.att = runner.att
    BY <1>0, <2>1 DEF Runners, Dialling
  <2> QED
    BY <1>0, <2>1, <2>2 DEF Commanded, Dialling
<1>4. CASE InitiateReturns
  <2>1. cmd' = [cmd EXCEPT !["runner"] = NoCommand] /\ runner'.pc \in {"start", "wait", "aborted"}
    BY <1>0, <1>4 DEF InitiateReturns, Aborts, Runners
  <2> QED
    BY <1>0, <2>1 DEF Commanded, Dialling
<1>5. CASE TakeResult \/ HandleResult \/ Stop
  <2>1. cmd' = cmd /\ runner.pc \notin Dialling \cup {"hangup"} /\ runner'.pc \notin Dialling \cup {"hangup"}
    <3>1. UNCHANGED cmd /\ runner.pc \in {"wait", "handle", "done"}
      BY <1>5 DEF TakeResult, HandleResult, Stop, Runner
    <3>2. CASE TakeResult
      BY <1>0, <3>1, <3>2 DEF TakeResult, Runners, Dialling
    <3>3. CASE HandleResult
      BY <1>0, <3>1, <3>3 DEF HandleResult, Runners, Dialling
    <3>4. CASE Stop
      BY <1>0, <3>1, <3>4 DEF Stop, Runners, Dialling
    <3> QED
      BY <1>5, <3>2, <3>3, <3>4
  <2> QED
    BY <1>0, <2>1 DEF Commanded
<1>6. CASE HangupCall
  <2>1. Issue("runner", "hangup", att[runner.res.att].call) /\ runner'.pc = "hangup"
    BY <1>0, <1>6 DEF HangupCall, Runners
  <2>2. cmd'["runner"].pc = "write" /\ cmd'["runner"].op = "hangup"
    BY <1>0, <2>1, Issued
  <2> QED
    BY <1>0, <2>1, <2>2 DEF Commanded, Dialling
<1>7. CASE HangupReturns
  <2>1. cmd' = [cmd EXCEPT !["runner"] = NoCommand] /\ runner'.pc = "handle"
    BY <1>0, <1>7 DEF HangupReturns, Runners
  <2> QED
    BY <1>0, <2>1 DEF Commanded, Dialling
<1> QED
  BY <1>1, <1>2, <1>3, <1>4, <1>5, <1>6, <1>7 DEF Run

\* Events are about calls there are, and stay so.
LEMMA EventsKnown ==
    ASSUME ExpInv, Next
    PROVE  /\ \A i \in DOMAIN eventChan' : eventChan'[i].call \in DOMAIN calls'
           /\ \A i \in DOMAIN back' : back'[i].kind = "event" => back'[i].call \in DOMAIN calls'
<1>0. /\ \A i \in DOMAIN eventChan : eventChan[i].call \in DOMAIN calls
      /\ \A i \in DOMAIN back : back[i].kind = "event" => back[i].call \in DOMAIN calls
      /\ \A n \in DOMAIN calls : n \in DOMAIN calls'
      /\ back \in Seq(Frames) /\ eventChan \in Seq(Events) /\ calls \in Seq(Calls) /\ calls' \in Seq(Calls)
      /\ wire \in Seq(Commands)
  BY CallSteps DEF ExpInv, Known, MatchInv, Held, Connected, Shaped
<1>1. CASE UNCHANGED <<back, eventChan>>
  BY <1>0, <1>1
<1>2. CASE /\ UNCHANGED eventChan
           /\ \A i \in DOMAIN back' : \/ i \in DOMAIN back /\ back'[i] = back[i]
                                      \/ back'[i].kind # "event"
                                      \/ back'[i].call \in DOMAIN calls'
  BY <1>0, <1>2
<1>3. ASSUME NEW q \in Seq(Frames), NEW n \in DOMAIN calls', NEW type \in {"outgoing", "answered", "closed"},
             \A i \in DOMAIN q : q[i].kind = "event" => q[i].call \in DOMAIN calls'
      PROVE  /\ Emit(q, type, n) \in Seq(Frames)
             /\ \A i \in DOMAIN Emit(q, type, n) :
                   Emit(q, type, n)[i].kind = "event" => Emit(q, type, n)[i].call \in DOMAIN calls'
  <2> DEFINE p == Emit(q, type, n)
  <2>1. n \in Nat
    BY <1>0
  <2>2. p \in Seq(Frames) /\ \A i \in DOMAIN p : (i \in DOMAIN q /\ p[i] = q[i]) \/ p[i] = Event(type, n)
    BY <2>1, Emitted
  <2>3. Event(type, n).call = n
    BY <2>1, EventIsFrame
  <2> HIDE DEF p
  <2>4. \A i \in DOMAIN p : p[i].kind = "event" => p[i].call \in DOMAIN calls'
    BY <1>3, <2>2, <2>3
  <2> QED
    BY <2>2, <2>4 DEF p
<1>4. ASSUME NEW q \in Seq(Frames), NEW r \in Responses, \A i \in DOMAIN q : q[i].kind = "event" => q[i].call \in DOMAIN calls'
      PROVE  /\ Append(q, r) \in Seq(Frames)
             /\ \A i \in DOMAIN Append(q, r) : Append(q, r)[i].kind = "event" => Append(q, r)[i].call \in DOMAIN calls'
  <2>1. r \in Frames /\ r.kind = "response"
    BY DEF Frames, Responses
  <2> QED
    BY <1>4, <2>1, Put
<1>5. \A i \in DOMAIN back : back[i].kind = "event" => back[i].call \in DOMAIN calls'
  BY <1>0
<1>6. CASE HandleCommand
  <2> DEFINE k == Head(wire)
             Reply == [kind |-> "response", token |-> k.token, op |-> k.op, arg |-> k.arg, ok |-> TRUE]
  <2>1. k \in Commands /\ k.op \in Ops /\ (k.op = "hangup" => k.arg \in DOMAIN calls)
    BY <1>0, <1>6, CommandKnown, Shorter DEF HandleCommand
  <2>2. Reply \in Responses
    BY <2>1 DEF Commands, Responses
  <2>3. UNCHANGED eventChan
    BY <1>6 DEF HandleCommand
  <2>4. \/ back' = back
        \/ back' = Emit(back, "outgoing", Len(calls) + 1) /\ \E c : calls' = Append(calls, c)
        \/ back' = Append(back, Reply)
        \/ k.op = "hangup" /\ back' = Append(Emit(back, "closed", k.arg), Reply)
        \/ k.op = "hangup" /\ back' = Emit(Append(back, Reply), "closed", k.arg)
    BY <1>6 DEF HandleCommand
  <2> HIDE DEF Reply, k
  <2>5. CASE back' = Emit(back, "outgoing", Len(calls) + 1) /\ \E c : calls' = Append(calls, c)
    <3>1. Len(calls) + 1 \in DOMAIN calls'
      BY <1>0, <2>5
    <3> QED
      BY <1>0, <1>3, <1>5, <2>3, <2>5, <3>1
  <2>6. CASE back' = back \/ back' = Append(back, Reply)
    BY <1>0, <1>4, <1>5, <2>2, <2>3, <2>6
  <2>7. CASE k.op = "hangup" /\ back' = Append(Emit(back, "closed", k.arg), Reply)
    BY <1>0, <1>3, <1>4, <1>5, <2>1, <2>2, <2>3, <2>7
  <2>8. CASE k.op = "hangup" /\ back' = Emit(Append(back, Reply), "closed", k.arg)
    BY <1>0, <1>3, <1>4, <1>5, <2>1, <2>2, <2>3, <2>8
  <2> QED
    BY <2>4, <2>5, <2>6, <2>7, <2>8
<1>7. CASE Respond
  <2>1. UNCHANGED eventChan /\ \E r \in Responses : back' \in {back, Append(back, r)}
    BY <1>7 DEF Respond, ExpInv, MatchInv, Held
  <2> QED
    BY <1>0, <1>4, <1>5, <2>1
<1>8. CASE Callee
  <2>1. PICK n \in Callees : Answered(n) \/ Ended(n)
    BY <1>8 DEF Callee
  <2>2. n \in DOMAIN calls' /\ UNCHANGED eventChan
    BY <1>0, <2>1 DEF Callees, Answered, Ended
  <2>3. back' \in {Emit(back, "answered", n), Emit(Emit(back, "answered", n), "answered", n), Emit(back, "closed", n)}
    BY <2>1 DEF Answered, Ended
  <2> QED
    BY <1>0, <1>3, <1>5, <2>2, <2>3
<1>9. CASE ReadFrame
  <2>1. /\ back # <<>> /\ back' = Tail(back)
    BY <1>9 DEF ReadFrame
  <2>2. /\ Head(back) = back[1] /\ 1 \in DOMAIN back /\ Head(back) \in Frames
        /\ \A i \in DOMAIN back' : i + 1 \in DOMAIN back /\ back'[i] = back[i + 1]
    BY <1>0, <2>1, Shorter
  <2>3. UNCHANGED eventChan \/ (Head(back) \in Events /\ eventChan' = Append(eventChan, Head(back)))
    BY <1>9, <2>2, FrameKinds DEF ReadFrame, Deliver
  <2>4. CASE Head(back) \in Events /\ eventChan' = Append(eventChan, Head(back))
    <3>1. back[1].kind = "event"
      BY <2>2, <2>4 DEF Events
    <3>2. Head(back).call \in DOMAIN calls'
      BY <1>0, <2>2, <3>1
    <3>3. \A i \in DOMAIN eventChan' : (i \in DOMAIN eventChan /\ eventChan'[i] = eventChan[i]) \/ eventChan'[i] = Head(back)
      BY <1>0, <2>4, Longer
    <3>4. \A i \in DOMAIN back' : back'[i].kind = "event" => back'[i].call \in DOMAIN calls'
      BY <1>5, <2>2
    <3> QED
      BY <1>0, <3>2, <3>3, <3>4
  <2> QED
    BY <1>0, <2>2, <2>3, <2>4
<1>10. CASE Faults
  <2>1. CASE LoseLink
    BY <1>0, <1>10, <2>1, NoneLeft DEF LoseLink
  <2>2. CASE Garble
    <3>1. back' = Append(back, [kind |-> "broken"]) /\ [kind |-> "broken"] \in Frames /\ UNCHANGED eventChan
      BY <2>2 DEF Garble, Frames
    <3>2. \A i \in DOMAIN back' : (i \in DOMAIN back /\ back'[i] = back[i]) \/ back'[i] = [kind |-> "broken"]
      BY <1>0, <3>1, Put
    <3> QED
      BY <1>2, <3>1, <3>2
  <2> QED
    BY <1>10, <2>1, <2>2 DEF Faults
<1>11. CASE \E type \in {"outgoing", "answered", "closed"} : NextEvent(type) /\ UNCHANGED back
  BY <1>0, <1>11, TakesEvent
<1>12. CASE (StopReading \/ \E c \in Callers : CallerSteps(c)) /\ Rest
  BY <1>1, <1>12 DEF StopReading, CallerSteps, Write, TakeResponse, Timeout, CloseEndsWait
<1>13. CASE Run
  BY <1>1, <1>13 DEF Run, StartOne, Dialled, DialerEmits, DialerMarks, InitiateReturns,
              TakeResult, HangupCall, HangupReturns, HandleResult, Stop
<1>14. CASE Loop
  BY <1>1, <1>11, <1>14 DEF Loop, OnOutgoing, OnAnswered, LoopEmits, LoopMarks, LoopAsks, OnClosed, CleansUp,
              TakesError, LoopEnds
<1>15. CASE \E a \in Attempts : ODA(a)
  BY <1>1, <1>15 DEF ODA, RuaCompletes, OdaSteps, OdaRecords, OdaDropped, OdaHangsUp, OdaReturns
<1> QED
  BY <1>6, <1>7, <1>8, <1>9, <1>10, <1>12, <1>13, <1>14, <1>15 DEF Next, Baresip, Client, ReaderSteps

\* Who was answered has a call.
LEMMA CallKnown ==
    ASSUME ExpInv, NEW a \in Attempts, att[a].answered
    PROVE  att[a].call \in DOMAIN calls /\ att[a].call \in Nat
<1>1. att[a] \in Sessions /\ calls \in Seq(Calls)
  BY DEF ExpInv, Shaped
<1>2. att[a].call # 0 /\ att[a].call <= Len(calls)
  BY DEF ExpInv, Known
<1> QED
  BY <1>1, <1>2 DEF Sessions

LEMMA CommandsKnown ==
    ASSUME ExpInv, Next
    PROVE  \A c \in Callers : cmd'[c].pc # "idle" =>
              cmd'[c].arg \in IF cmd'[c].op = "dial" THEN Attempts ELSE DOMAIN calls'
<1>0. /\ \A c \in Callers : cmd[c].pc # "idle" =>
             cmd[c].arg \in IF cmd[c].op = "dial" THEN Attempts ELSE DOMAIN calls
      /\ \A n \in DOMAIN calls : n \in DOMAIN calls'
      /\ "runner" \in Callers /\ "oda" \in Callers
      /\ cmd \in [Callers -> Commands] /\ NoCommand.pc = "idle"
  BY ExpConst, CallSteps DEF ExpInv, Known, MatchInv, Held, NoCommand
<1> SUFFICES ASSUME NEW c \in Callers, cmd'[c].pc # "idle"
             PROVE  cmd'[c].arg \in IF cmd'[c].op = "dial" THEN Attempts ELSE DOMAIN calls'
  OBVIOUS
<1>1. CASE Kept(cmd[c], cmd'[c])
  BY <1>0, <1>1 DEF Kept
<1>2. CASE cmd'[c] = cmd[c] \/ cmd'[c] = NoCommand
  BY <1>0, <1>2
<1>3. CASE c = "runner" /\ Run
  <2>1. CASE StartOne
    <3>1. cmd' = cmd \/ Issue("runner", "dial", runner.att + 1)
      BY <2>1 DEF StartOne
    <3>2. runner.att + 1 \in Attempts
      BY <2>1, RunnerAtt DEF StartOne, Runner
    <3> QED
      BY <1>0, <1>2, <1>3, <3>1, <3>2, Issued
  <2>2. CASE HangupCall
    <3>1. Issue("runner", "hangup", att[runner.res.att].call)
      BY <2>2 DEF HangupCall
    <3>2. runner.res.att \in Attempts /\ runner.res # <<>> /\ runner.res.outcome = "answered"
      BY <2>2, RunnerAtt DEF HangupCall, Runner, Handling, HangsUp, Outcome
    <3>3. att[runner.res.att].answered
      BY <3>2 DEF ExpInv, Known
    <3>4. att[runner.res.att].call \in DOMAIN calls'
      BY <1>0, <3>2, <3>3, CallKnown
    <3> QED
      BY <1>3, <3>1, <3>4, Issued
  <2>3. CASE InitiateReturns \/ HangupReturns
    BY <1>0, <1>2, <1>3, <2>3 DEF InitiateReturns, HangupReturns
  <2>4. CASE Dialled \/ DialerEmits \/ DialerMarks \/ TakeResult \/ HandleResult \/ Stop
    BY <1>2, <2>4 DEF Dialled, DialerEmits, DialerMarks, TakeResult, HandleResult, Stop
  <2> QED
    BY <1>3, <2>1, <2>2, <2>3, <2>4 DEF Run
<1>4. ASSUME c = "oda", NEW a \in Attempts, ODA(a)
      PROVE  cmd'[c].arg \in IF cmd'[c].op = "dial" THEN Attempts ELSE DOMAIN calls'
  <2>1. CASE OdaHangsUp(a)
    <3>1. Issue("oda", "hangup", att[a].call) /\ oda[a] = "hangup"
      BY <2>1 DEF OdaHangsUp
    <3>2. att[a].call \in DOMAIN calls'
      BY <1>0, <3>1, CallKnown DEF ExpInv, Known
    <3> QED
      BY <1>4, <3>1, <3>2, Issued
  <2>2. CASE OdaReturns(a)
    BY <1>0, <1>2, <1>4, <2>2 DEF OdaReturns
  <2>3. CASE RuaCompletes(a) \/ OdaRecords(a) \/ OdaDropped(a)
    BY <1>2, <2>3 DEF RuaCompletes, OdaRecords, OdaDropped
  <2> QED
    BY <1>4, <2>1, <2>2, <2>3 DEF ODA, OdaSteps
<1> QED
  BY <1>1, <1>3, <1>4, CmdKept

LEMMA WireKnown ==
    ASSUME ExpInv, Next
    PROVE  \A i \in DOMAIN wire' :
              wire'[i].arg \in IF wire'[i].op = "dial" THEN Attempts ELSE DOMAIN calls'
<1>0. /\ \A i \in DOMAIN wire : wire[i].arg \in IF wire[i].op = "dial" THEN Attempts ELSE DOMAIN calls
      /\ \A c \in Callers : cmd[c].pc # "idle" =>
             cmd[c].arg \in IF cmd[c].op = "dial" THEN Attempts ELSE DOMAIN calls
      /\ \A n \in DOMAIN calls : n \in DOMAIN calls'
      /\ wire \in Seq(Commands) /\ cmd \in [Callers -> Commands]
  BY CallSteps DEF ExpInv, Known, MatchInv, Held
<1>1. CASE wire' = wire
  BY <1>0, <1>1
<1>2. CASE \A i \in DOMAIN wire' : \E j \in DOMAIN wire : wire'[i] = wire[j]
  BY <1>0, <1>2
<1>3. ASSUME NEW c \in Callers, Writes(c)
      PROVE  \A i \in DOMAIN wire' : wire'[i].arg \in IF wire'[i].op = "dial" THEN Attempts ELSE DOMAIN calls'
  <2>1. cmd[c].pc = "write" /\ cmd[c] \in Commands /\ wire' \in {wire, Append(wire, cmd[c])}
    BY <1>0, <1>3 DEF Writes
  <2>2. \A i \in DOMAIN wire' : (i \in DOMAIN wire /\ wire'[i] = wire[i]) \/ wire'[i] = cmd[c]
    BY <1>0, <2>1, Longer
  <2> QED
    BY <1>0, <2>1, <2>2
<1> QED
  BY <1>1, <1>2, <1>3, CmdSteps DEF Answers, Routes, Frees, EndsCommand, Issues

\* The result in the runner's hands comes from the channel, and is dropped when handled.
LEMMA ResSteps ==
    ASSUME ExpInv, Next, ~TakeResult
    PROVE  runner'.res = runner.res \/ runner'.res = <<>>
<1>0. runner \in Runners
  BY DEF ExpInv, Shaped
<1>1. CASE ~Run
  BY <1>1, WhoSteps
<1>2. CASE StartOne
  BY <1>0, <1>2 DEF StartOne, Aborts, Runners
<1>3. CASE Dialled \/ DialerEmits \/ DialerMarks \/ HangupCall \/ HangupReturns \/ Stop
  BY <1>0, <1>3 DEF Dialled, DialerEmits, DialerMarks, HangupCall, HangupReturns, Stop, Runners
<1>4. CASE InitiateReturns
  BY <1>0, <1>4 DEF InitiateReturns, Aborts, Runners
<1>5. CASE HandleResult
  <2>1. \/ \E pc : runner' = [runner EXCEPT !.pc = pc, !.res = <<>>]
        \/ \E pc, n : runner' = [runner EXCEPT !.completed = n, !.res = <<>>, !.pc = pc]
    BY <1>5 DEF HandleResult
  <2>2. \A pc, n : /\ [runner EXCEPT !.pc = pc, !.res = <<>>].res = <<>>
                   /\ [runner EXCEPT !.completed = n, !.res = <<>>, !.pc = pc].res = <<>>
    BY <1>0 DEF Runners
  <2> QED
    BY <2>1, <2>2
<1> QED
  BY <1>1, <1>2, <1>3, <1>4, <1>5 DEF Run

LEMMA StepKnown == ASSUME ExpInv, Next PROVE Known'
<1>0. /\ Known /\ calls \in Seq(Calls) /\ calls' \in Seq(Calls) /\ results \in Seq(Records)
      /\ att \in [Attempts -> Sessions] /\ oda \in [Attempts -> {"off", "ready", "asked", "hangup", "wait", "over"}]
      /\ \A a \in Attempts : Changed(att[a], att'[a])
      /\ \A n \in DOMAIN calls : n \in DOMAIN calls'
      /\ runner \in Runners
      /\ loop.pc \in {"answer", "mark", "ask", "cleanup"} => loop.att \in Attempts
  BY CallSteps, AttSteps DEF ExpInv, Shaped
<1>a. \A a \in Attempts : att[a].answered => att'[a].answered
  BY <1>0 DEF Changed
<1>b. \A i \in DOMAIN results : /\ results[i] \in Records /\ results[i].att \in Attempts
                                /\ results[i].outcome = "answered" => att[results[i].att].answered
  <2>1. \A i \in DOMAIN results : results[i] \in Records
    BY <1>0, LenProperties
  <2>2. \A r \in Records : r.att \in Attempts
    BY DEF Records
  <2>3. \A i \in DOMAIN results : results[i].outcome = "answered" => att[results[i].att].answered
    BY <1>0 DEF Known
  <2> QED
    BY <2>1, <2>2, <2>3
<1>c. /\ runner.res # <<>> /\ runner.res.outcome = "answered" => att'[runner.res.att].answered
      /\ runner.res # <<>> => runner.res.att \in Attempts
  <2>1. runner.res # <<>> => runner.res.att \in Attempts
    BY RunnerAtt
  <2> QED
    BY <1>0, <1>a, <2>1 DEF Known
<1>d. loop.pc \in {"answer", "mark", "ask"} => att'[loop.att].answered
  <2>1. loop.pc \in {"answer", "mark", "ask"} => loop.att \in Attempts /\ att[loop.att].answered
    BY <1>0 DEF Known
  <2> QED
    BY <1>a, <2>1
<1>1. ASSUME NEW a \in Attempts
      PROVE  /\ att'[a].call <= Len(calls')
             /\ att'[a].answered => att'[a].call # 0
             /\ oda'[a] \notin {"off", "ready"} => att'[a].answered
  <2>1. att[a].call <= Len(calls) /\ att[a] \in Sessions /\ att'[a] \in Sessions /\ Len(calls) <= Len(calls')
    <3>1. Len(calls) <= Len(calls')
      <4>1. Len(calls) = 0 \/ Len(calls) \in DOMAIN calls
        BY <1>0
      <4> QED
        BY <1>0, <4>1
    <3> QED
      BY <1>0, <3>1 DEF Known, Changed
  <2>2. att'[a].call <= Len(calls')
    <3>1. Len(calls) \in Nat /\ Len(calls') \in Nat /\ att[a].call \in Nat /\ att'[a].call \in Nat
      BY <1>0, <2>1 DEF Sessions
    <3>2. att'[a].call = att[a].call \/ att'[a].call \in DOMAIN calls
      BY <1>0 DEF Changed
    <3>3. att'[a].call <= Len(calls)
      BY <1>0, <2>1, <3>1, <3>2
    <3> QED
      BY <2>1, <3>1, <3>3
  <2>3. att'[a].answered => att'[a].call # 0
    BY <1>0 DEF Changed, Known
  <2>4. oda'[a] \notin {"off", "ready"} => att'[a].answered
    <3>1. CASE oda[a] \notin {"off", "ready"}
      BY <1>0, <1>a, <3>1 DEF Known
    <3>2. CASE oda[a] \in {"off", "ready"} /\ oda'[a] \notin {"off", "ready"}
      <4>1. (LoopAsks /\ loop.att = a) \/ att[a].answered
        <5>1. CASE LoopAsks
          BY <1>0, <3>2, <5>1 DEF LoopAsks
        <5>2. ASSUME NEW b \in Attempts, RuaCompletes(b) PROVE att[a].answered
          BY <1>0, <3>2, <5>2 DEF RuaCompletes
        <5>3. ASSUME NEW b \in Attempts, OdaSteps(b) PROVE FALSE
          BY <1>0, <3>2, <5>3 DEF OdaSteps, OdaRecords, OdaDropped, OdaHangsUp, OdaReturns
        <5> QED
          BY <3>2, <5>1, <5>2, <5>3, WhoSteps DEF ODA
      <4>2. att[a].answered
        BY <1>0, <4>1 DEF LoopAsks, Known
      <4> QED
        BY <1>a, <4>2
    <3> QED
      BY <3>1, <3>2
  <2> QED
    BY <2>2, <2>3, <2>4
<1>2. \A i \in DOMAIN results' : results'[i].outcome = "answered" => att'[results'[i].att].answered
  <2>0. \A i \in DOMAIN results : /\ results[i].att \in Attempts
                                  /\ results[i].outcome = "answered" => att'[results[i].att].answered
    BY <1>a, <1>b
  <2>1. CASE results' = results
    BY <2>0, <2>1
  <2>2. CASE TakeResult
    BY <1>0, <2>0, <2>2, Shorter DEF TakeResult
  <2>3. ASSUME NEW r, Gives(r) PROVE \A i \in DOMAIN results' : results'[i].outcome = "answered" => att'[results'[i].att].answered
    <3>1. r \in Records /\ r.att \in Attempts /\ (r.outcome = "answered" => att'[r.att].answered)
      BY <1>a, <2>3 DEF Gives, Records
    <3>2. \A i \in DOMAIN results' : (i \in DOMAIN results /\ results'[i] = results[i]) \/ results'[i] = r
      BY <1>0, <2>3, <3>1, Longer DEF Gives
    <3> QED
      BY <2>0, <3>1, <3>2
  <2> QED
    BY <2>1, <2>2, <2>3, ResultSteps
<1>3. runner'.res # <<>> /\ runner'.res.outcome = "answered" => att'[runner'.res.att].answered
  <2>1. CASE runner'.res = runner.res
    BY <1>c, <2>1
  <2>2. CASE TakeResult
    <3>1. /\ results # <<>>
          /\ runner' = runner \/ runner' = [runner EXCEPT !.res = Head(results), !.pc = "handle"]
      BY <2>2 DEF TakeResult
    <3>2. Head(results) = results[1] /\ 1 \in DOMAIN results /\ Head(results) \in Records
      BY <1>0, <3>1, Shorter
    <3>3. Head(results).outcome = "answered" => att'[Head(results).att].answered
      BY <1>a, <1>b, <3>2
    <3>4. runner'.res = runner.res \/ runner'.res = Head(results)
      <4>1. [runner EXCEPT !.res = Head(results), !.pc = "handle"].res = Head(results)
        BY <1>0 DEF Runners
      <4> QED
        BY <3>1, <4>1
    <3> QED
      BY <2>1, <3>3, <3>4
  <2>3. CASE ~TakeResult
    <3>1. runner'.res = runner.res \/ runner'.res = <<>>
      BY <2>3, ResSteps
    <3> QED
      BY <2>1, <3>1
  <2> QED
    BY <2>2, <2>3
<1>4. loop'.pc \in {"answer", "mark", "ask"} => att'[loop'.att].answered
  <2>1. CASE loop' = loop
    BY <1>d, <2>1
  <2>2. CASE OnAnswered
    <3> DEFINE n == Head(eventChan).call
    <3>1. loop' = loop \/ \E a \in Attempts :
             /\ att' = [att EXCEPT ![a] = [att[a] EXCEPT !.call = n, !.answered = TRUE, !.open = TRUE]]
             /\ loop' = [pc |-> "answer", att |-> a]
      BY <1>0, <2>2 DEF OnAnswered, Found, Of, Waiting
    <3> HIDE DEF n
    <3>2. ASSUME NEW a \in Attempts, loop' = [pc |-> "answer", att |-> a],
                 att' = [att EXCEPT ![a] = [att[a] EXCEPT !.call = n, !.answered = TRUE, !.open = TRUE]]
          PROVE  att'[loop'.att].answered
      <4>1. att[a] \in Sessions
        BY <1>0
      <4> QED
        BY <1>0, <3>2, <4>1 DEF Sessions
    <3> QED
      BY <2>1, <3>1, <3>2
  <2>3. CASE loop'.att = loop.att /\ loop.pc \in {"answer", "mark"}
    BY <1>d, <2>3
  <2>4. CASE loop'.pc \in {"idle", "cleanup", "ended"}
    BY <2>4
  <2>5. CASE ~Loop
    BY <2>1, <2>5, WhoSteps
  <2>6. CASE LoopEmits \/ LoopMarks
    <3>1. loop.pc \in {"answer", "mark"} /\ \E pc : loop' = [loop EXCEPT !.pc = pc]
      BY <2>6 DEF LoopEmits, LoopMarks
    <3>2. loop \in [pc : {"idle", "answer", "mark", "ask", "cleanup", "ended"}, att : Nat]
      BY DEF ExpInv, Shaped
    <3>3. loop'.att = loop.att
      BY <3>1, <3>2
    <3> QED
      BY <2>3, <3>1, <3>3
  <2>7. CASE LoopEnds
    <3>1. loop \in [pc : {"idle", "answer", "mark", "ask", "cleanup", "ended"}, att : Nat]
      BY DEF ExpInv, Shaped
    <3> QED
      BY <2>4, <2>7, <3>1 DEF LoopEnds
  <2>8. CASE OnClosed \/ CleansUp \/ LoopAsks \/ OnOutgoing \/ TakesError
    <3>1. loop' = loop \/ \E a, pc : pc \in {"idle", "cleanup"} /\ loop' = [pc |-> pc, att |-> a]
      BY <2>8 DEF OnClosed, CleansUp, LoopAsks, OnOutgoing, TakesError
    <3> QED
      BY <2>1, <2>4, <3>1
  <2> QED
    BY <2>2, <2>5, <2>6, <2>7, <2>8 DEF Loop
<1> QED
  BY <1>1, <1>2, <1>3, <1>4, EventsKnown, CommandsKnown, WireKnown DEF Known

LEMMA InitExp == ASSUME Init PROVE ExpInv
<1>0. /\ tokens = 0 /\ cmd = [c \in Callers |-> NoCommand] /\ pending = <<>> /\ wire = <<>> /\ back = <<>>
      /\ link = "up" /\ reader = "run" /\ eventChan = <<>> /\ errorChan = <<>> /\ closed = FALSE /\ faults = 0
      /\ exp \in Experiments /\ calls = <<>> /\ owed = {} /\ results = <<>> /\ rows = <<>>
      /\ att = [a \in Attempts |-> NoSession] /\ inFlight = [a \in Attempts |-> NotInFlight]
      /\ runner = [pc |-> "start", started |-> 0, completed |-> 0, att |-> 0, res |-> <<>>]
      /\ loop = [pc |-> "idle", att |-> 0] /\ oda = [a \in Attempts |-> "off"]
  BY DEF Init, ClientInit
<1>1. /\ \A S : <<>> \in Seq(S)
      /\ Len(<<>>) = 0 /\ DOMAIN <<>> = {} /\ <<>> \in [{} -> Callers]
  OBVIOUS
<1>2. NoCommand \in Commands /\ NoCommand.pc = "idle" /\ NoCommand.chan = <<>>
  BY <1>1 DEF NoCommand, Commands
<1>3. Connected
  <2>1. /\ eventChan \in Seq(Events) /\ errorChan \in Seq(Errors)
        /\ Len(eventChan) = 0 /\ Len(errorChan) = 0
    BY <1>0
  <2>2. 0 <= EventCap /\ 0 \in 0 .. MaxFaults + 1
    BY ExpConst
  <2>3. /\ link = "up" /\ reader = "run" /\ closed \in BOOLEAN /\ errorChan = <<>>
        /\ Len(eventChan) <= EventCap /\ Len(errorChan) <= 1 /\ faults \in 0 .. MaxFaults + 1
    <3>1. link = "up" /\ reader = "run" /\ closed \in BOOLEAN /\ errorChan = <<>> /\ faults = 0
      BY <1>0
    <3> QED
      BY <2>1, <2>2, <3>1
  <2> QED
    BY <2>1, <2>3 DEF Connected
<1>4. MatchInv
  <2>1. Held
    BY <1>0, <1>1, <1>2 DEF Held
  <2>2. OwnToken /\ TokenSays
    BY <1>0, <1>1, <1>2 DEF OwnToken, TokenSays
  <2>3. Table
    BY <1>0, <1>1, <1>2 DEF Table, Awaiting
  <2> QED
    BY <2>1, <2>2, <2>3 DEF MatchInv
<1>5. Shaped
  <2>1. NoSession \in Sessions /\ NotInFlight \in Flags
    BY DEF NoSession, NotInFlight, Sessions, Flags
  <2> QED
    BY <1>0, <1>1, <2>1 DEF Shaped, Runners
<1>6. Progress
  <2>1. InFlight = {}
    BY <1>0 DEF InFlight, NotInFlight
  <2>2. Cardinality(InFlight) = 0
    BY <2>1, FS_EmptySet
  <2>3. exp.runs \in Nat /\ exp.runs >= 1
    BY <1>0, ExpConst
  <2> QED
    BY <1>0, <2>1, <2>2, <2>3 DEF Progress, Dialling, Handling
<1>7. Commanded
  BY <1>0, <1>2, ExpConst DEF Commanded, Dialling, NoCommand
<1>8. Known
  BY <1>0, <1>1, <1>2 DEF Known, NoSession
<1> QED
  BY <1>3, <1>4, <1>5, <1>6, <1>7, <1>8 DEF ExpInv

LEMMA StepExp == ASSUME ExpInv, [Next]_evars PROVE ExpInv'
<1>1. CASE Next
  BY <1>1, StepConnected, StepMatch, StepShaped, StepProgress, StepCommanded, StepKnown DEF ExpInv
<1>2. CASE UNCHANGED evars
  BY <1>2 DEF ExpInv, Connected, MatchInv, Held, OwnToken, TokenSays, Table, Shaped, Progress, Commanded, Known,
              InFlight, Awaiting
<1> QED
  BY <1>1, <1>2

LEMMA ExpAlways == Spec => []ExpInv
<1>1. Init => ExpInv
  BY InitExp
<1>2. ExpInv /\ [Next]_evars => ExpInv'
  BY StepExp
<1> QED
  BY <1>1, <1>2, PTL DEF Spec
-----------------------------------------------------------------------------
(* What it says. *)

LEMMA MatchedThen == ASSUME ExpInv PROVE Matched
<1>0. OwnToken /\ Table /\ pending \in [DOMAIN pending -> Callers] /\ DOMAIN pending \subseteq 1 .. tokens
      /\ tokens \in Nat
  BY DEF ExpInv, MatchInv, Held
<1>1. \A c \in Callers : cmd[c].chan # <<>> =>
          Head(cmd[c].chan).op = cmd[c].op /\ Head(cmd[c].chan).arg = cmd[c].arg
  BY <1>0 DEF Table, Same
<1>2. ASSUME NEW t \in 1 .. tokens
      PROVE  t \in DOMAIN pending <=>
                \E c \in Callers : /\ cmd[c].token = t /\ cmd[c].chan = <<>>
                                   /\ cmd[c].pc \in {"write", "wait"}
  BY <1>0 DEF Table, Awaiting
<1> QED
  BY <1>1, <1>2 DEF Matched

\* baresip.go:190 to 255: whatever is lost, late or garbled, and whoever gives up, a
\* response reaches the command it answers and no later one, and the table holds the
\* commands whose answer is awaited.
THEOREM MatchedAlways == Spec => []Matched
BY ExpAlways, MatchedThen, PTL

LEMMA TypesThen == ASSUME ExpInv PROVE TypeOK
<1>0. Connected /\ Held /\ Table /\ Shaped /\ Progress /\ Known
  BY DEF ExpInv, MatchInv
<1>1. ClientTypeOK
  <2>1. \A c \in Callers :
          /\ cmd[c].pc \in {"idle", "write", "wait", "done"}
          /\ cmd[c].result \in Results \cup {"none"}
          /\ Len(cmd[c].chan) <= 1
    <3> SUFFICES ASSUME NEW c \in Callers
                 PROVE  /\ cmd[c].pc \in {"idle", "write", "wait", "done"}
                        /\ cmd[c].result \in Results \cup {"none"}
                        /\ Len(cmd[c].chan) <= 1
      OBVIOUS
    <3>1. cmd[c] \in Commands
      BY <1>0 DEF Held
    <3>2. Len(cmd[c].chan) = 1 \/ cmd[c].chan = <<>>
      BY <1>0 DEF Table
    <3>3. CASE cmd[c].chan = <<>>
      <4>1. Len(cmd[c].chan) = 0
        BY <3>3
      <4> QED
        BY <3>1, <4>1 DEF Commands
    <3>4. CASE Len(cmd[c].chan) = 1
      BY <3>1, <3>4 DEF Commands
    <3>5. cmd[c].pc \in {"idle", "write", "wait", "done"}
      BY <3>1 DEF Commands
    <3>6. cmd[c].result \in Results \cup {"none"}
      BY <3>1 DEF Commands
    <3> QED
      BY <3>2, <3>3, <3>4, <3>5, <3>6
  <2>2. DOMAIN pending \subseteq 1 .. tokens /\ \A t \in DOMAIN pending : pending[t] \in Callers
    BY <1>0 DEF Held
  <2> QED
    BY <1>0, <2>1, <2>2 DEF ClientTypeOK, Connected, Held
<1>2. calls \in Seq([state : {"ringing", "up", "over"}, att : Attempts])
      /\ results \in Seq([att : Attempts, outcome : {"answered", "oda", "closed", "error"}])
  BY <1>0 DEF Shaped, Calls, Records
<1>3. att \in [Attempts -> [reg : BOOLEAN, open : BOOLEAN, call : 0 .. Len(calls),
                            sent : BOOLEAN, answered : BOOLEAN, emitted : BOOLEAN]]
  <2>1. ASSUME NEW a \in Attempts
        PROVE  att[a] \in [reg : BOOLEAN, open : BOOLEAN, call : 0 .. Len(calls),
                           sent : BOOLEAN, answered : BOOLEAN, emitted : BOOLEAN]
    <3>1. att[a] \in Sessions /\ att[a].call <= Len(calls) /\ Len(calls) \in Nat
      BY <1>0 DEF Shaped, Known
    <3>2. att[a].call \in 0 .. Len(calls)
      BY <3>1 DEF Sessions
    <3> DEFINE bound == 0 .. Len(calls)
    <3>3. att[a].call \in bound
      BY <3>2
    <3> HIDE DEF bound
    <3>4. att[a] \in [reg : BOOLEAN, open : BOOLEAN, call : bound,
                       sent : BOOLEAN, answered : BOOLEAN, emitted : BOOLEAN]
      BY <3>1, <3>3 DEF Sessions
    <3> QED
      BY <3>4 DEF bound
  <2> QED
    BY <1>0, <2>1 DEF Shaped
<1>4. runner.started \in 0 .. exp.runs /\ runner.completed \in 0 .. runner.started
  BY <1>0, RunnerAtt DEF Progress
<1>5. inFlight \in [Attempts -> [here : BOOLEAN, answered : BOOLEAN, oda : BOOLEAN,
                                  terminal : BOOLEAN, pending : BOOLEAN, hangup : BOOLEAN]]
  BY <1>0 DEF Shaped, Flags
<1>6. Cardinality({a \in Attempts : inFlight[a].here}) = runner.started - runner.completed
  BY <1>0 DEF Progress, InFlight
<1> QED
  BY <1>0, <1>1, <1>2, <1>3, <1>4, <1>5, <1>6 DEF TypeOK, Shaped

\* The types of the client and of the experiment; the attempts in flight are those that
\* were started and are not completed (main.go:391 to 524).
THEOREM ExperimentTypes == Spec => []TypeOK
BY ExpAlways, TypesThen, PTL
-----------------------------------------------------------------------------
(* Rows. *)

LEMMA MoreRows ==
    ASSUME NEW q \in Seq(Records), NEW x \in Records, NEW y \in Records
    PROVE  /\ q \o <<>> = q
           /\ \A i \in DOMAIN (q \o <<x>>) :
                 \/ i \in DOMAIN q /\ i <= Len(q) /\ (q \o <<x>>)[i] = q[i]
                 \/ i = Len(q) + 1 /\ (q \o <<x>>)[i] = x
           /\ \A i \in DOMAIN (q \o <<x, y>>) :
                 \/ i \in DOMAIN q /\ i <= Len(q) /\ (q \o <<x, y>>)[i] = q[i]
                 \/ i = Len(q) + 1 /\ (q \o <<x, y>>)[i] = x
                 \/ i = Len(q) + 2 /\ (q \o <<x, y>>)[i] = y
<1>1. q \o <<>> = q
  BY ConcatEmptySeq
<1>2. /\ <<x>> \in Seq(Records) /\ <<x, y>> \in Seq(Records) /\ Len(<<x>>) = 1 /\ Len(<<x, y>>) = 2
      /\ <<x>>[1] = x /\ <<x, y>>[1] = x /\ <<x, y>>[2] = y
      /\ Len(q) \in Nat /\ DOMAIN q = 1 .. Len(q)
  BY FewRows, LenProperties
<1>3. ASSUME NEW p \in Seq(Records)
      PROVE  /\ DOMAIN (q \o p) = 1 .. Len(q) + Len(p) /\ Len(p) \in Nat
             /\ \A i \in 1 .. Len(q) + Len(p) : (q \o p)[i] = IF i <= Len(q) THEN q[i] ELSE p[i - Len(q)]
  BY ConcatProperties, LenProperties
<1>4. \A i \in DOMAIN (q \o <<x>>) :
         \/ i \in DOMAIN q /\ i <= Len(q) /\ (q \o <<x>>)[i] = q[i]
         \/ i = Len(q) + 1 /\ (q \o <<x>>)[i] = x
  <2> DEFINE p == <<x>>
             r == q \o p
  <2>1. Len(p) = 1 /\ p[1] = x /\ p \in Seq(Records)
    BY <1>2
  <2>2. DOMAIN r = 1 .. Len(q) + 1 /\ \A i \in 1 .. Len(q) + 1 : r[i] = IF i <= Len(q) THEN q[i] ELSE p[i - Len(q)]
    BY <1>3, <2>1
  <2> HIDE DEF p, r
  <2>3. \A i \in DOMAIN r : (i \in DOMAIN q /\ i <= Len(q) /\ r[i] = q[i]) \/ (i = Len(q) + 1 /\ r[i] = x)
    <3> SUFFICES ASSUME NEW i \in DOMAIN r
                 PROVE  (i \in DOMAIN q /\ i <= Len(q) /\ r[i] = q[i]) \/ (i = Len(q) + 1 /\ r[i] = x)
      OBVIOUS
    <3>1. CASE i <= Len(q)
      BY <1>2, <2>2, <3>1
    <3>2. CASE ~(i <= Len(q))
      <4>1. i = Len(q) + 1 /\ i - Len(q) = 1
        BY <1>2, <2>2, <3>2
      <4> QED
        BY <1>2, <2>1, <2>2, <3>2, <4>1
    <3> QED
      BY <3>1, <3>2
  <2> QED
    BY <2>3 DEF p, r
<1>5. \A i \in DOMAIN (q \o <<x, y>>) :
         \/ i \in DOMAIN q /\ i <= Len(q) /\ (q \o <<x, y>>)[i] = q[i]
         \/ i = Len(q) + 1 /\ (q \o <<x, y>>)[i] = x
         \/ i = Len(q) + 2 /\ (q \o <<x, y>>)[i] = y
  <2> DEFINE p == <<x, y>>
             r == q \o p
  <2>1. Len(p) = 2 /\ p[1] = x /\ p[2] = y /\ p \in Seq(Records)
    BY <1>2
  <2>2. DOMAIN r = 1 .. Len(q) + 2 /\ \A i \in 1 .. Len(q) + 2 : r[i] = IF i <= Len(q) THEN q[i] ELSE p[i - Len(q)]
    BY <1>3, <2>1
  <2> HIDE DEF p, r
  <2>3. \A i \in DOMAIN r : \/ i \in DOMAIN q /\ i <= Len(q) /\ r[i] = q[i]
                            \/ i = Len(q) + 1 /\ r[i] = x
                            \/ i = Len(q) + 2 /\ r[i] = y
    <3> SUFFICES ASSUME NEW i \in DOMAIN r
                 PROVE  \/ i \in DOMAIN q /\ i <= Len(q) /\ r[i] = q[i]
                        \/ i = Len(q) + 1 /\ r[i] = x
                        \/ i = Len(q) + 2 /\ r[i] = y
      OBVIOUS
    <3>1. CASE i <= Len(q)
      BY <1>2, <2>2, <3>1
    <3>2. CASE ~(i <= Len(q))
      <4>1. (i = Len(q) + 1 /\ i - Len(q) = 1) \/ (i = Len(q) + 2 /\ i - Len(q) = 2)
        BY <1>2, <2>2, <3>2
      <4>2. r[i] = p[i - Len(q)]
        BY <2>2, <3>2
      <4> QED
        BY <2>1, <4>1, <4>2
    <3> QED
      BY <3>1, <3>2
  <2> QED
    BY <2>3 DEF p, r
<1> QED
  BY <1>1, <1>4, <1>5

LEMMA RowIsRecord == ASSUME NEW r \in Records PROVE r = Record(r.att, r.outcome)
BY DEF Records, Record

LEMMA StepNoError == ASSUME ExpInv, NoError, Next PROVE NoError'
<1>0. /\ runner \in Runners /\ results \in Seq(Records) /\ results' \in Seq(Records)
  BY StepShaped DEF ExpInv, Shaped
<1>1. CASE runner'.pc = "aborted"
  BY <1>1 DEF NoError
<1>2. CASE runner'.pc # "aborted"
  <2>1. runner.pc # "aborted"
    <3>1. CASE Run
      BY <3>1 DEF Run, StartOne, Dialled, DialerEmits, DialerMarks, InitiateReturns,
              TakeResult, HangupCall, HangupReturns, HandleResult, Stop, Runner
    <3> QED
      BY <1>2, <3>1, WhoSteps
  <2>2. \A i \in DOMAIN results : results[i].outcome # "error"
    BY <2>1 DEF NoError
  <2>3. runner.res # <<>> => runner.res.outcome # "error"
    BY <2>1 DEF NoError
  <2>4. \A i \in DOMAIN results' : results'[i].outcome # "error"
    <3>1. CASE TakeResult
      BY <1>0, <2>2, <3>1, Shorter DEF TakeResult
    <3>2. ASSUME NEW r, Gives(r) PROVE \A i \in DOMAIN results' : results'[i].outcome # "error"
      <4>1. r.outcome # "error" /\ r \in Records /\ results' = Append(results, r)
        BY <1>2, <3>2 DEF Gives
      <4>2. \A i \in DOMAIN results' : (i \in DOMAIN results /\ results'[i] = results[i]) \/ results'[i] = r
        BY <1>0, <4>1, Longer
      <4> QED
        BY <2>2, <4>1, <4>2
    <3> QED
      BY <2>2, <3>1, <3>2, ResultSteps
  <2>5. runner'.res # <<>> => runner'.res.outcome # "error"
    <3>1. CASE TakeResult
      <4>1. /\ results # <<>>
            /\ runner' = runner \/ runner' = [runner EXCEPT !.res = Head(results), !.pc = "handle"]
        BY <3>1 DEF TakeResult
      <4>2. Head(results) = results[1] /\ 1 \in DOMAIN results
        BY <1>0, <4>1, Shorter
      <4>3. [runner EXCEPT !.res = Head(results), !.pc = "handle"].res = Head(results)
        BY <1>0 DEF Runners
      <4> QED
        BY <2>2, <2>3, <4>1, <4>2, <4>3
    <3>2. CASE ~TakeResult
      <4>1. runner'.res = runner.res \/ runner'.res = <<>>
        BY <3>2, ResSteps
      <4> QED
        BY <2>3, <4>1
    <3> QED
      BY <3>1, <3>2
  <2> QED
    BY <2>4, <2>5 DEF NoError
<1> QED
  BY <1>1, <1>2

LEMMA StepRows ==
    ASSUME ExpInv, RowInv, Next
    PROVE  WrittenSays' /\ RowsInOrder'
<1>0. /\ runner \in Runners /\ rows \in Seq(Records) /\ rows' \in Seq(Records)
      /\ inFlight \in [Attempts -> Flags] /\ inFlight' \in [Attempts -> Flags]
      /\ NoError /\ WrittenSays /\ RowsInOrder
      /\ \A b : b \in InFlight <=> b \in Attempts /\ inFlight[b].here
      /\ \A b : b \in InFlight' <=> b \in Attempts /\ inFlight'[b].here
      /\ \A i \in DOMAIN rows : rows[i] = Record(rows[i].att, rows[i].outcome) /\ rows[i] \in Records
  <2>1. \A i \in DOMAIN rows : rows[i] \in Records
    BY DEF ExpInv, Shaped
  <2> QED
    BY <2>1, StepShaped, RowIsRecord DEF ExpInv, Shaped, RowInv, InFlight
<1>1. CASE UNCHANGED <<inFlight, rows>> /\ runner'.started = runner.started
  BY <1>0, <1>1 DEF WrittenSays, RowsInOrder, HasRow, InFlight
<1>2. CASE ~Run
  BY <1>1, <1>2, WhoSteps
<1>3. CASE StartOne
  BY <1>0, <1>1, <1>3 DEF StartOne, Aborts, Runners
<1>4. CASE Dialled \/ DialerEmits \/ DialerMarks \/ TakeResult \/ HangupCall \/ Stop
  BY <1>0, <1>1, <1>4 DEF Dialled, DialerEmits, DialerMarks, TakeResult, HangupCall, Stop, Runners
<1>5. CASE InitiateReturns
  <2>1. CASE cmd["runner"].result # "ok"
    BY <1>0, <1>1, <1>5, <2>1 DEF InitiateReturns, Aborts, Runners
  <2>2. CASE cmd["runner"].result = "ok"
    <3> DEFINE a == runner.att
    <3>1. /\ a \in Attempts /\ runner'.started = a /\ a = runner.started + 1 /\ runner.started \in Nat
          /\ inFlight' = [inFlight EXCEPT ![a] = JustStarted] /\ rows' = rows
      <4>1. a \in Attempts /\ a = runner.started + 1 /\ runner.started \in Nat
        BY <1>5, RunnerAtt DEF InitiateReturns, Runner, Dialling
      <4> QED
        BY <1>0, <1>5, <2>2, <4>1 DEF InitiateReturns, Runners
    <3> HIDE DEF a
    <3>2. \A i \in DOMAIN rows : rows[i].att <= runner.started /\ rows[i].att \in Nat
      BY <1>0, AttemptsAreNumbers DEF WrittenSays, Records
    <3>3. \A i \in DOMAIN rows : rows[i].att <= a /\ rows[i].att # a
      BY <3>1, <3>2
    <3>4. \A outcome : ~HasRow(a, outcome)
      BY <3>3 DEF HasRow, Record
    <3>5. JustStarted.terminal = FALSE /\ JustStarted.oda = FALSE
      BY DEF JustStarted, NotInFlight
    <3>6. \A b \in Attempts : b # a => inFlight'[b] = inFlight[b]
      BY <1>0, <3>1
    <3>7. inFlight'[a] = JustStarted
      BY <1>0, <3>1
    <3>8. \A b \in InFlight' :
            /\ ~inFlight'[b].terminal
            /\ inFlight'[b].oda => inFlight'[b].answered
            /\ HasRow(b, "answered") => inFlight'[b].answered
            /\ HasRow(b, "oda") => inFlight'[b].oda
            /\ ~HasRow(b, "closed") /\ ~HasRow(b, "error")
      <4> SUFFICES ASSUME NEW b \in InFlight'
                   PROVE  /\ ~inFlight'[b].terminal
                          /\ inFlight'[b].oda => inFlight'[b].answered
                          /\ HasRow(b, "answered") => inFlight'[b].answered
                          /\ HasRow(b, "oda") => inFlight'[b].oda
                          /\ ~HasRow(b, "closed") /\ ~HasRow(b, "error")
        OBVIOUS
      <4>1. CASE b = a
        BY <3>4, <3>5, <3>7, <4>1
      <4>2. CASE b # a
        BY <1>0, <3>6, <4>2 DEF WrittenSays
      <4> QED
        BY <4>1, <4>2
    <3> QED
      BY <1>0, <3>1, <3>3, <3>8 DEF WrittenSays, RowsInOrder, HasRow
  <2> QED
    BY <2>1, <2>2
<1>6. CASE HangupReturns
  <2> DEFINE a == runner.res.att
  <2>1. a \in Attempts /\ inFlight' = [inFlight EXCEPT ![a].hangup = TRUE] /\ rows' = rows
        /\ runner'.started = runner.started
    BY <1>0, <1>6, RunnerAtt DEF HangupReturns, Runner, Handling, Runners
  <2> HIDE DEF a
  <2>2. \A b \in Attempts : /\ inFlight'[b].terminal = inFlight[b].terminal /\ inFlight'[b].oda = inFlight[b].oda
                            /\ inFlight'[b].answered = inFlight[b].answered /\ inFlight'[b].here = inFlight[b].here
    BY <1>0, <2>1 DEF Flags
  <2> QED
    BY <1>0, <2>1, <2>2 DEF WrittenSays, RowsInOrder, HasRow
<1>7. CASE HandleResult
  <2> DEFINE a == runner.res.att
             w == Written
             more == CSV(w)
  <2>1. a \in InFlight /\ a \in Attempts /\ runner.res \in Records /\ w = inFlight[a] /\ w \in Flags
    BY <1>0, <1>7, RunnerAtt DEF HandleResult, Runner, Handling, ExpInv, Progress, Written
  <2>2. Outcome # "error"
    BY <1>0, <1>7, RunnerAtt DEF HandleResult, Runner, Handling, NoError, Outcome
  <2>3. /\ more.w \in Flags /\ RowsOf(w) /\ (w.answered => more.w.answered) /\ (w.oda => more.w.oda)
        /\ more.w.oda => w.oda \/ w.answered \/ more.w.answered \/ Completes(Outcome)
        /\ ~Completes(Outcome) => more.w.terminal = w.terminal
        /\ \A kind \in {"answered", "oda", "closed", "error"} :
              Row(kind) \in Records /\ Row(kind).att = a /\ Row(kind).outcome = kind
    BY <2>1, RowsAdded
  <2>4. /\ ~w.terminal /\ (w.oda => w.answered)
        /\ \A i \in DOMAIN rows : rows[i].att = a =>
              \/ rows[i].outcome = "answered" /\ w.answered
              \/ rows[i].outcome = "oda" /\ w.oda
    <3>1. \A i \in DOMAIN rows : rows[i].att = a => HasRow(a, rows[i].outcome)
      BY <1>0 DEF HasRow
    <3>2. \A i \in DOMAIN rows : rows[i].outcome \in {"answered", "oda", "closed", "error"}
      BY <1>0 DEF Records
    <3> QED
      BY <1>0, <2>1, <3>1, <3>2 DEF WrittenSays
  <2>5. /\ rows' = rows \o more.add
        /\ runner'.started = runner.started
        /\ \/ Completes(Outcome) /\ inFlight' = [inFlight EXCEPT ![a] = NotInFlight]
           \/ ~Completes(Outcome) /\ inFlight' = [inFlight EXCEPT ![a] = more.w]
    BY <1>0, <1>7 DEF HandleResult, Runners
  <2>6. Outcome = "closed" => Completes(Outcome)
    BY DEF Completes
  <2>7. a <= runner.started /\ \A i \in DOMAIN rows : rows[i].att <= runner.started
    BY <1>0, <2>1 DEF ExpInv, Progress, WrittenSays
  <2>n. Len(rows) \in Nat
    BY <1>0, LenProperties
  \* Any row that is new.
  <2>8. \A i \in DOMAIN rows' :
           \/ i \in DOMAIN rows /\ i <= Len(rows) /\ rows'[i] = rows[i]
           \/ /\ i = Len(rows) + 1 /\ rows'[i].att = a
              /\ \/ rows'[i].outcome = "answered" /\ ~w.answered /\ more.w.answered
                 \/ rows'[i].outcome = "oda" /\ ~w.oda /\ (Completes(Outcome) \/ (w.answered /\ more.w.oda))
                 \/ rows'[i].outcome = "closed" /\ ~w.answered /\ ~w.oda /\ Completes(Outcome)
           \/ /\ i = Len(rows) + 2 /\ rows'[i].att = a /\ rows'[i].outcome = "oda"
              /\ rows'[Len(rows) + 1].outcome = "answered" /\ ~w.answered /\ ~w.oda /\ more.w.oda
    <3> HIDE DEF a, w, more
    <3>1. CASE more.add = <<>>
      BY <1>0, <2>5, <3>1, MoreRows, LenProperties
    <3>2. ASSUME NEW kind \in {"answered", "oda", "closed", "error"}, more.add = <<Row(kind)>>
          PROVE  \A i \in DOMAIN rows' : \/ i \in DOMAIN rows /\ i <= Len(rows) /\ rows'[i] = rows[i]
                                         \/ i = Len(rows) + 1 /\ rows'[i].att = a /\ rows'[i].outcome = kind
      <4>1. rows' = rows \o <<Row(kind)>> /\ Row(kind) \in Records /\ Row(kind).att = a /\ Row(kind).outcome = kind
        BY <2>3, <2>5, <3>2
      <4> QED
        BY <1>0, <4>1, MoreRows
    <3>3. CASE more.add = <<Row("answered")>> /\ ~w.answered /\ more.w.answered
      BY <3>2, <3>3
    <3>4. CASE more.add = <<Row("oda")>> /\ ~w.oda /\ (Completes(Outcome) \/ (w.answered /\ more.w.oda))
      BY <3>2, <3>4
    <3>5. CASE more.add = <<Row("closed")>> /\ ~w.answered /\ ~w.oda /\ Outcome = "closed"
      BY <2>6, <3>2, <3>5
    <3>6. CASE more.add = <<Row("answered"), Row("oda")>> /\ ~w.answered /\ ~w.oda /\ more.w.answered /\ more.w.oda
      <4>1. /\ rows' = rows \o <<Row("answered"), Row("oda")>>
            /\ Row("answered") \in Records /\ Row("answered").att = a /\ Row("answered").outcome = "answered"
            /\ Row("oda") \in Records /\ Row("oda").att = a /\ Row("oda").outcome = "oda"
        BY <2>3, <2>5, <3>6
      <4>2. \A i \in DOMAIN rows' :
               \/ i \in DOMAIN rows /\ i <= Len(rows) /\ rows'[i] = rows[i]
               \/ i = Len(rows) + 1 /\ rows'[i] = Row("answered")
               \/ i = Len(rows) + 2 /\ rows'[i] = Row("oda")
        BY <1>0, <4>1, MoreRows
      <4>3. \A i \in DOMAIN rows' : i = Len(rows) + 2 => rows'[Len(rows) + 1] = Row("answered")
        <5> SUFFICES ASSUME NEW i \in DOMAIN rows', i = Len(rows) + 2
                     PROVE  rows'[Len(rows) + 1] = Row("answered")
          OBVIOUS
        <5>1. DOMAIN rows' = 1 .. Len(rows') /\ Len(rows') \in Nat
          BY <1>0, LenProperties
        <5>2. Len(rows) + 1 \in DOMAIN rows' /\ ~(Len(rows) + 1 <= Len(rows)) /\ Len(rows) + 1 # Len(rows) + 2
          BY <2>n, <5>1
        <5> QED
          BY <4>2, <5>2
      <4>4. Len(rows) + 2 # Len(rows) + 1
        BY <2>n
      <4> QED
        BY <3>6, <4>1, <4>2, <4>3
    <3>7. RowsOf(w) /\ more = CSV(w)
      BY <2>3 DEF more
    <3> QED
      BY <2>2, <3>1, <3>3, <3>4, <3>5, <3>6, <3>7 DEF RowsOf
  <2>9. InFlight' \subseteq InFlight /\ (Completes(Outcome) => a \notin InFlight')
        /\ (~Completes(Outcome) => inFlight'[a] = more.w)
        /\ \A b \in InFlight' : b # a => inFlight'[b] = inFlight[b]
    <3> HIDE DEF a, more
    <3>1. NotInFlight.here = FALSE
      BY DEF NotInFlight
    <3>2. /\ \A b \in Attempts : b # a => inFlight'[b] = inFlight[b]
          /\ Completes(Outcome) => inFlight'[a] = NotInFlight
          /\ ~Completes(Outcome) => inFlight'[a] = more.w
      BY <1>0, <2>1, <2>5
    <3> QED
      BY <1>0, <2>1, <3>1, <3>2
  <2> HIDE DEF a, w, more
  <2>10. RowsInOrder'
    <3> SUFFICES ASSUME NEW i \in DOMAIN rows', NEW j \in DOMAIN rows', i < j, rows'[i].att = rows'[j].att
                 PROVE  rows'[i].outcome = "answered" /\ rows'[j].outcome = "oda"
      BY DEF RowsInOrder
    <3>1. i \in Nat /\ j \in Nat
      BY <1>0, LenProperties
    <3>2. CASE j <= Len(rows)
      <4>1. i \in DOMAIN rows /\ rows'[i] = rows[i] /\ j \in DOMAIN rows /\ rows'[j] = rows[j]
        BY <2>n, <2>8, <3>1, <3>2
      <4> QED
        BY <1>0, <4>1 DEF RowsInOrder
    <3>3. CASE ~(j <= Len(rows))
      <4>1. CASE i <= Len(rows)
        <5>1. i \in DOMAIN rows /\ rows'[i] = rows[i]
          BY <2>n, <2>8, <3>1, <4>1
        <5>2. rows[i].att = a
          BY <2>8, <3>3, <5>1
        <5> QED
          BY <2>4, <2>8, <3>3, <5>1, <5>2
      <4>2. CASE ~(i <= Len(rows))
        <5>1. i = Len(rows) + 1 /\ j = Len(rows) + 2
          BY <2>n, <2>8, <3>1, <3>3, <4>2
        <5>2. Len(rows) + 2 # Len(rows) + 1 /\ ~(Len(rows) + 2 <= Len(rows))
          BY <2>n
        <5> QED
          BY <2>8, <5>1, <5>2
      <4> QED
        BY <4>1, <4>2
    <3> QED
      BY <3>2, <3>3
  <2>11. WrittenSays'
    <3>1. \A i \in DOMAIN rows' : rows'[i].att <= runner'.started
      BY <2>5, <2>7, <2>8
    <3>2. ASSUME NEW b \in InFlight', b # a
          PROVE  /\ ~inFlight'[b].terminal
                 /\ inFlight'[b].oda => inFlight'[b].answered
                 /\ HasRow(b, "answered")' => inFlight'[b].answered
                 /\ HasRow(b, "oda")' => inFlight'[b].oda
                 /\ ~HasRow(b, "closed")' /\ ~HasRow(b, "error")'
      <4>1. \A i \in DOMAIN rows' : rows'[i].att = b => i \in DOMAIN rows /\ rows'[i] = rows[i]
        BY <2>8, <3>2
      <4>2. \A outcome : Record(b, outcome).att = b
        BY DEF Record
      <4>3. \A outcome : HasRow(b, outcome)' => HasRow(b, outcome)
        BY <4>1, <4>2 DEF HasRow
      <4>4. b \in InFlight /\ inFlight'[b] = inFlight[b]
        BY <2>9, <3>2
      <4> QED
        BY <1>0, <4>3, <4>4 DEF WrittenSays
    <3>3. ASSUME NEW b \in InFlight', b = a
          PROVE  /\ ~inFlight'[b].terminal
                 /\ inFlight'[b].oda => inFlight'[b].answered
                 /\ HasRow(b, "answered")' => inFlight'[b].answered
                 /\ HasRow(b, "oda")' => inFlight'[b].oda
                 /\ ~HasRow(b, "closed")' /\ ~HasRow(b, "error")'
      <4>1. ~Completes(Outcome) /\ inFlight'[b] = more.w
        BY <2>9, <3>3
      <4>2. ~more.w.terminal /\ (more.w.oda => more.w.answered)
        BY <2>3, <2>4, <4>1
      <4>3. \A i \in DOMAIN rows' : rows'[i].att = b =>
               \/ rows'[i].outcome = "answered" /\ more.w.answered
               \/ rows'[i].outcome = "oda" /\ more.w.oda
        BY <2>3, <2>4, <2>8, <3>3, <4>1
      <4>4. \A outcome : Record(b, outcome).att = b /\ Record(b, outcome).outcome = outcome
        BY DEF Record
      <4>5. \A outcome : HasRow(b, outcome)' =>
               (outcome = "answered" /\ more.w.answered) \/ (outcome = "oda" /\ more.w.oda)
        BY <4>3, <4>4 DEF HasRow
      <4> QED
        BY <4>1, <4>2, <4>5
    <3> QED
      BY <3>1, <3>2, <3>3 DEF WrittenSays
  <2> QED
    BY <2>10, <2>11
<1> QED
  BY <1>2, <1>3, <1>4, <1>5, <1>6, <1>7 DEF Run

LEMMA RowsAlways == Spec => [](ExpInv /\ RowInv)
<1>1. Init => ExpInv /\ RowInv
  <2>1. ASSUME Init PROVE RowInv
    <3>1. /\ results = <<>> /\ rows = <<>> /\ inFlight = [a \in Attempts |-> NotInFlight] /\ runner.res = <<>>
      BY <2>1 DEF Init
    <3>2. NotInFlight.here = FALSE /\ DOMAIN <<>> = {}
      BY DEF NotInFlight
    <3> QED
      BY <3>1, <3>2 DEF RowInv, NoError, WrittenSays, RowsInOrder, InFlight
  <2> QED
    BY <2>1, InitExp
<1>2. ExpInv /\ RowInv /\ [Next]_evars => (ExpInv /\ RowInv)'
  <2>1. ASSUME ExpInv, RowInv, Next PROVE RowInv'
    BY <2>1, StepNoError, StepRows DEF RowInv
  <2>2. ASSUME RowInv, UNCHANGED evars PROVE RowInv'
    BY <2>2 DEF RowInv, NoError, WrittenSays, RowsInOrder, InFlight, HasRow
  <2> QED
    BY <2>1, <2>2, StepExp
<1> QED
  BY <1>1, <1>2, PTL DEF Spec

\* main.go:437 to 490: of each kind an attempt has at most one row, its ODA row comes after
\* the one of the call setup, and there is a row for the end of the call only if there is
\* none for the call; for any number of attempts, in any order of the results.
THEOREM RowsAreInOrder == Spec => []RowsInOrder
BY RowsAlways, PTL DEF RowInv
-----------------------------------------------------------------------------
(* Nothing is forgotten. *)

\* The events and responses on their way to the loop and to the callers, the oldest first.
Stream == eventChan \o back

IsEvent(f, n) == f.kind = "event" /\ f.call = n
IsClosing(f, n) == IsEvent(f, n) /\ f.type = "closed"

\* The closing of a call has not been handled.
Closing(n) == \E i \in DOMAIN Stream : IsClosing(Stream[i], n)
ToClose(n) == calls[n].state # "over" \/ Closing(n)

\* The newest attempt is registered, and open; any other, and one that is not, is being
\* removed.  (RUA may complete late and open it again.)
Removed(a) == loop.pc = "cleanup" /\ loop.att = a
OneOpen ==
    \A a \in Attempts : att[a].reg =>
       /\ (att[a].open /\ a = runner.att) \/ Removed(a)
       /\ att[a].call = 0 => att[a].open /\ a = runner.att
Fresh == \A a \in Attempts : a > runner.att => att[a] = NoSession

Healthy == link = "up" /\ reader = "run" /\ loop.pc # "ended"
           /\ \A i \in DOMAIN back : back[i].kind # "broken"

\* The closing is the last event of a call.
ClosingLast ==
    /\ \A n \in Callees : \A i, j \in DOMAIN Stream :
          i < j /\ IsClosing(Stream[i], n) => ~IsEvent(Stream[j], n)
    /\ \A n \in Callees : calls[n].state # "over" => ~Closing(n)
    /\ \A n \in Callees : \A i \in DOMAIN Stream : IsEvent(Stream[i], n) => ToClose(n)

\* An attempt has one call, and is registered until its closing is handled.
Owner ==
    /\ \A n \in Callees : calls[n].att <= runner.att
    /\ \A n, m \in Callees : calls[n].att = calls[m].att => n = m
    /\ \A a \in Attempts : att[a].call # 0 => calls[att[a].call].att = a
    /\ \A n \in Callees : ToClose(n) => att[calls[n].att].reg
    /\ loop.pc = "cleanup" => \E n \in Callees : calls[n].att = loop.att /\ ~ToClose(n)

\* The dial of the newest attempt, until there is its call.
Called(a) == \E n \in Callees : calls[n].att = a
Uncalled == runner.att \in Attempts /\ att[runner.att].reg /\ ~Called(runner.att)
OneDial ==
    /\ \A i, j \in DOMAIN wire : wire[i].op = "dial" /\ wire[j].op = "dial" => i = j
    /\ \A i \in DOMAIN wire : wire[i].op = "dial" =>
          Uncalled /\ wire[i].arg = runner.att /\ runner.pc = "dial" /\ cmd["runner"].pc = "wait"
    /\ runner.pc = "dial" /\ cmd["runner"].pc = "write" =>
          Uncalled /\ \A i \in DOMAIN wire : wire[i].op # "dial"

\* A dial that was answered was answered with OK, and made a call.
AnsweredWith(r) == r.op = "dial" => r.ok /\ Called(r.arg)
DialAnswered ==
    /\ \A r \in owed : AnsweredWith(r)
    /\ \A i \in DOMAIN back : back[i].kind = "response" => AnsweredWith(back[i])
    /\ \A c \in Callers : cmd[c].chan # <<>> => AnsweredWith(Head(cmd[c].chan))
    /\ LET k == cmd["runner"] IN
       k.op = "dial" /\ k.pc = "done" => k.result = "ok" /\ Called(k.arg)

\* A final record of the attempt is given, and not taken yet, or in the runner's hands.
Reported(a) ==
    \/ \E i \in DOMAIN results : results[i].att = a /\ Completes(results[i].outcome)
    \/ runner.res # <<>> /\ runner.res.att = a /\ Completes(Outcome)

\* An attempt in flight, or about to be, has a call to close or has been reported.
Owed(a) == a \in InFlight \/ (a = runner.att /\ runner.pc \in Dialling)
Owing ==
    /\ \A a \in InFlight : Called(a)
    /\ \A n \in Callees : Owed(calls[n].att) => ToClose(n) \/ Reported(calls[n].att)

QuietInv == Healthy /\ ClosingLast /\ Owner /\ OneDial /\ DialAnswered /\ Owing
ForgetInv == OneOpen /\ Fresh /\ (Quiet => QuietInv)
-----------------------------------------------------------------------------
(* Which session is open. *)

LEMMA SessionFields ==
    ASSUME NEW s \in Sessions, NEW b \in BOOLEAN, NEW n \in Nat
    PROVE  /\ [s EXCEPT !.reg = b].reg = b /\ [s EXCEPT !.reg = b].open = s.open /\ [s EXCEPT !.reg = b].call = s.call
           /\ [s EXCEPT !.open = b].reg = s.reg /\ [s EXCEPT !.open = b].open = b /\ [s EXCEPT !.open = b].call = s.call
           /\ [s EXCEPT !.sent = b].reg = s.reg /\ [s EXCEPT !.sent = b].open = s.open /\ [s EXCEPT !.sent = b].call = s.call
           /\ [s EXCEPT !.emitted = b].reg = s.reg /\ [s EXCEPT !.emitted = b].open = s.open
           /\ [s EXCEPT !.emitted = b].call = s.call
           /\ [s EXCEPT !.call = n].reg = s.reg /\ [s EXCEPT !.call = n].open = s.open /\ [s EXCEPT !.call = n].call = n
           /\ [s EXCEPT !.call = n, !.open = b].reg = s.reg /\ [s EXCEPT !.call = n, !.open = b].open = b
           /\ [s EXCEPT !.call = n, !.open = b].call = n
           /\ [s EXCEPT !.call = n, !.answered = TRUE, !.open = TRUE].reg = s.reg
           /\ [s EXCEPT !.call = n, !.answered = TRUE, !.open = TRUE].open
           /\ [s EXCEPT !.call = n, !.answered = TRUE, !.open = TRUE].call = n
BY DEF Sessions

LEMMA SameReg == ASSUME NEW s \in Sessions, s.reg = FALSE PROVE [s EXCEPT !.reg = FALSE] = s
BY DEF Sessions

\* What happens to the sessions: each action names the one it writes.
AttStep(a, s) == a \in Attempts /\ s \in Sessions /\ att' = [att EXCEPT ![a] = s]
                 /\ \A b \in Attempts : att'[b] = IF b = a THEN s ELSE att[b]

LEMMA AttActions ==
    ASSUME ExpInv, Next
    PROVE  \/ att' = att /\ ~OnClosed /\ ~CleansUp
           \/ \E a \in Attempts : RuaCompletes(a) /\ AttStep(a, [att[a] EXCEPT !.open = TRUE])
           \/ StartOne /\ ~Busy /\ AttStep(runner.att + 1, [att[runner.att + 1] EXCEPT !.reg = TRUE])
                /\ runner'.att = runner.att + 1
           \/ Dialled /\ AttStep(runner.att, [att[runner.att] EXCEPT !.sent = cmd["runner"].result # "failed"])
           \/ DialerMarks /\ AttStep(runner.att, [att[runner.att] EXCEPT !.emitted = TRUE])
           \/ InitiateReturns /\ cmd["runner"].result = "ok"
                /\ AttStep(runner.att, [att[runner.att] EXCEPT !.open = TRUE])
           \/ InitiateReturns /\ cmd["runner"].result # "ok"
                /\ AttStep(runner.att, [att[runner.att] EXCEPT !.reg = FALSE])
           \/ LoopMarks /\ AttStep(loop.att, [att[loop.att] EXCEPT !.emitted = TRUE])
           \/ CleansUp /\ AttStep(loop.att, [att[loop.att] EXCEPT !.reg = FALSE])
           \/ OnOutgoing
           \/ OnAnswered /\ \E a \in Found(Head(eventChan).call) :
                 /\ AttStep(a, [att[a] EXCEPT !.call = Head(eventChan).call, !.answered = TRUE, !.open = TRUE])
                 /\ loop' = [pc |-> "answer", att |-> a]
           \/ OnClosed /\ Found(Head(eventChan).call) = {} /\ att' = att /\ loop' = loop
           \/ OnClosed /\ \E a \in Found(Head(eventChan).call) :
                 /\ AttStep(a, [att[a] EXCEPT !.call = Head(eventChan).call, !.open = FALSE])
                 /\ loop' = [pc |-> "cleanup", att |-> a] /\ EmitResult(Record(a, "closed"))
<1>0. /\ att \in [Attempts -> Sessions] /\ runner \in Runners
      /\ \A n : Found(n) \subseteq Attempts
  BY DEF ExpInv, Shaped, Found, Of, Waiting
<1>1. ASSUME NEW a \in Attempts, NEW s, att' = [att EXCEPT ![a] = s]
      PROVE  AttStep(a, s)
  <2>1. /\ \A b \in Attempts : att'[b] = IF b = a THEN s ELSE att[b]
    BY <1>0, <1>1
  <2>2. s \in Sessions
    BY <2>1, AttSteps
  <2> QED
    BY <1>1, <2>1, <2>2 DEF AttStep
<1>2. CASE StartOne /\ ~Busy
  <2>1. runner.att + 1 \in Attempts
    BY <1>2, RunnerAtt DEF StartOne, Runner
  <2>2. att' = [att EXCEPT ![runner.att + 1] = [att[runner.att + 1] EXCEPT !.reg = TRUE]]
    BY <1>0, <1>2, <2>1 DEF StartOne
  <2>3. runner'.att = runner.att + 1
    BY <1>0, <1>2 DEF StartOne, Runners
  <2> QED
    BY <1>1, <1>2, <2>1, <2>2, <2>3
<1>3. CASE Dialled
  <2>1. runner.att \in Attempts
    BY <1>3, RunnerAtt DEF Dialled, Runner, Dialling
  <2>2. att' = [att EXCEPT ![runner.att] = [att[runner.att] EXCEPT !.sent = cmd["runner"].result # "failed"]]
    BY <1>0, <1>3, <2>1 DEF Dialled
  <2> QED
    BY <1>1, <1>3, <2>1, <2>2
<1>4. CASE DialerMarks
  <2>1. runner.att \in Attempts
    BY <1>4, RunnerAtt DEF DialerMarks, Runner, Dialling
  <2>2. att' = [att EXCEPT ![runner.att] = [att[runner.att] EXCEPT !.emitted = TRUE]]
    BY <1>0, <1>4, <2>1 DEF DialerMarks, MarkEmitted
  <2> QED
    BY <1>1, <1>4, <2>1, <2>2
<1>5. CASE InitiateReturns
  <2>1. runner.att \in Attempts
    BY <1>5, RunnerAtt DEF InitiateReturns, Runner, Dialling
  <2>2. CASE cmd["runner"].result = "ok"
    <3>1. att' = [att EXCEPT ![runner.att] = [att[runner.att] EXCEPT !.open = TRUE]]
      BY <1>0, <1>5, <2>1, <2>2 DEF InitiateReturns, Dials
    <3> QED
      BY <1>1, <1>5, <2>1, <2>2, <3>1
  <2>3. CASE cmd["runner"].result # "ok"
    <3>1. att' = [att EXCEPT ![runner.att] = [att[runner.att] EXCEPT !.reg = FALSE]]
      BY <1>0, <1>5, <2>1, <2>3 DEF InitiateReturns
    <3> QED
      BY <1>1, <1>5, <2>1, <2>3, <3>1
  <2> QED
    BY <2>2, <2>3
<1>6. CASE LoopMarks
  <2>1. loop.att \in Attempts
    BY <1>6 DEF LoopMarks, ExpInv, Shaped
  <2>2. att' = [att EXCEPT ![loop.att] = [att[loop.att] EXCEPT !.emitted = TRUE]]
    BY <1>0, <1>6, <2>1 DEF LoopMarks, MarkEmitted
  <2> QED
    BY <1>1, <1>6, <2>1, <2>2
<1>7. CASE CleansUp
  <2>1. loop.att \in Attempts
    BY <1>7 DEF CleansUp, ExpInv, Shaped
  <2>2. att' = [att EXCEPT ![loop.att] = [att[loop.att] EXCEPT !.reg = FALSE]]
    BY <1>0, <1>7, <2>1 DEF CleansUp
  <2> QED
    BY <1>1, <1>7, <2>1, <2>2
<1>8. CASE OnAnswered
  <2> DEFINE n == Head(eventChan).call
  <2>1. \/ att' = att
        \/ \E a \in Found(n) :
              /\ att' = [att EXCEPT ![a] = [att[a] EXCEPT !.call = n, !.answered = TRUE, !.open = TRUE]]
              /\ loop' = [pc |-> "answer", att |-> a]
    BY <1>0, <1>8 DEF OnAnswered
  <2>2. ~OnClosed /\ ~CleansUp
    BY <1>8 DEF OnAnswered, OnClosed, NextEvent, CleansUp
  <2> HIDE DEF n
  <2>3. \/ att' = att
        \/ \E a \in Found(n) :
              /\ AttStep(a, [att[a] EXCEPT !.call = n, !.answered = TRUE, !.open = TRUE])
              /\ loop' = [pc |-> "answer", att |-> a]
    BY <1>0, <1>1, <2>1
  <2> QED
    BY <1>8, <2>2, <2>3 DEF n
<1>9. CASE OnClosed
  <2> DEFINE n == Head(eventChan).call
  <2>1. \/ Found(n) = {} /\ att' = att /\ loop' = loop
        \/ \E a \in Found(n) :
              /\ att' = [att EXCEPT ![a] = [att[a] EXCEPT !.call = n, !.open = FALSE]]
              /\ loop' = [pc |-> "cleanup", att |-> a] /\ EmitResult(Record(a, "closed"))
    BY <1>0, <1>9 DEF OnClosed
  <2> HIDE DEF n
  <2>2. \/ Found(n) = {} /\ att' = att /\ loop' = loop
        \/ \E a \in Found(n) :
              /\ AttStep(a, [att[a] EXCEPT !.call = n, !.open = FALSE])
              /\ loop' = [pc |-> "cleanup", att |-> a] /\ EmitResult(Record(a, "closed"))
    BY <1>0, <1>1, <2>1
  <2> QED
    BY <1>9, <2>2 DEF n
<1>10. CASE /\ ~(StartOne /\ ~Busy) /\ ~Dialled /\ ~DialerMarks /\ ~InitiateReturns /\ ~LoopMarks /\ ~CleansUp
            /\ ~OnOutgoing /\ ~OnAnswered /\ ~OnClosed /\ ~\E a \in Attempts : RuaCompletes(a)
  <2>1. CASE Run
    BY <1>10, <2>1 DEF Run, StartOne, DialerEmits, TakeResult, HangupCall, HangupReturns, HandleResult, Stop
  <2>2. CASE Loop
    BY <1>10, <2>2 DEF Loop, LoopEmits, LoopAsks, TakesError, LoopEnds
  <2>3. CASE \E a \in Attempts : ODA(a)
    BY <1>10, <2>3 DEF ODA, OdaSteps, OdaRecords, OdaDropped, OdaHangsUp, OdaReturns
  <2> QED
    BY <1>10, <2>1, <2>2, <2>3, WhoSteps DEF Next
<1>11. CASE \E a \in Attempts : RuaCompletes(a)
  <2>1. PICK a \in Attempts : RuaCompletes(a)
    BY <1>11
  <2>2. att' = [att EXCEPT ![a] = [att[a] EXCEPT !.open = TRUE]]
    BY <1>0, <2>1 DEF RuaCompletes
  <2> QED
    BY <1>1, <2>1, <2>2
<1> QED
  BY <1>2, <1>3, <1>4, <1>5, <1>6, <1>7, <1>8, <1>9, <1>10, <1>11

\* The runner goes on to the next attempt, or stays with this one.
LEMMA RunnerGoesOn ==
    ASSUME ExpInv, Next
    PROVE  (StartOne /\ ~Busy) \/ runner'.att = runner.att
<1>0. runner \in Runners /\ runner.att \in Nat
  BY RunnerAtt DEF ExpInv, Shaped
<1>1. CASE Run
  <2>1. CASE StartOne /\ Busy
    BY <1>0, <2>1 DEF StartOne, Aborts, Runners
  <2>2. CASE Dialled \/ DialerEmits \/ DialerMarks \/ HangupCall \/ HangupReturns \/ Stop \/ TakeResult
    BY <1>0, <2>2 DEF Dialled, DialerEmits, DialerMarks, HangupCall, HangupReturns, Stop, TakeResult, Runners
  <2>3. CASE InitiateReturns
    BY <1>0, <2>3 DEF InitiateReturns, Aborts, Runners
  <2>4. CASE HandleResult
    BY <1>0, <2>4 DEF HandleResult, Runners
  <2> QED
    BY <1>1, <2>1, <2>2, <2>3, <2>4 DEF Run
<1> QED
  BY <1>1, WhoSteps

\* What the loop does to itself.
LEMMA LoopGoesOn ==
    ASSUME ExpInv, Next
    PROVE  \/ loop' = loop \/ OnAnswered \/ OnClosed \/ CleansUp
           \/ loop.pc # "cleanup" /\ loop'.pc # "cleanup"
<1>0. loop \in [pc : {"idle", "answer", "mark", "ask", "cleanup", "ended"}, att : Nat]
  BY DEF ExpInv, Shaped
<1>1. CASE LoopEmits \/ LoopMarks \/ LoopAsks \/ LoopEnds
  BY <1>0, <1>1 DEF LoopEmits, LoopMarks, LoopAsks, LoopEnds
<1>2. CASE OnOutgoing \/ TakesError
  BY <1>2 DEF OnOutgoing, TakesError
<1> QED
  BY <1>1, <1>2, WhoSteps DEF Loop

LEMMA FoundOpen ==
    ASSUME ExpInv, OneOpen, Fresh, NEW n \in Nat, NEW a \in Found(n), n # 0
    PROVE  a \in Attempts /\ att[a].reg /\ a <= runner.att
<1>1. a \in Attempts /\ att[a].reg
  BY DEF Found, Of, Waiting
<1>2. NoSession.reg = FALSE /\ a \in Nat /\ runner.att \in Nat
  BY <1>1, AttemptsAreNumbers, RunnerAtt DEF NoSession
<1> QED
  BY <1>1, <1>2 DEF Fresh

LEMMA StepOpen ==
    ASSUME ExpInv, OneOpen, Fresh, Next
    PROVE  OneOpen' /\ Fresh'
<1>0. /\ att \in [Attempts -> Sessions] /\ runner \in Runners /\ runner.att \in Nat
      /\ \A b \in Attempts : b \in Nat
      /\ \A b \in Attempts : b > runner.att => att[b] = NoSession
      /\ NoSession.open = TRUE /\ NoSession.call = 0 /\ NoSession.reg = FALSE /\ NoSession.answered = FALSE
      /\ loop \in [pc : {"idle", "answer", "mark", "ask", "cleanup", "ended"}, att : Nat]
  BY AttemptsAreNumbers, RunnerAtt DEF ExpInv, Shaped, NoSession, Fresh
\* The runner goes on to the next attempt, or stays with this one; the loop.
<1>r. (StartOne /\ ~Busy) \/ runner'.att = runner.att
  BY RunnerGoesOn
<1>l. \/ loop' = loop \/ OnAnswered \/ OnClosed \/ CleansUp
      \/ loop.pc # "cleanup" /\ loop'.pc # "cleanup"
  BY LoopGoesOn
<1>1. CASE att' = att /\ ~OnClosed /\ ~CleansUp
  <2>1. loop' = loop \/ loop.pc # "cleanup"
    BY <1>1, <1>l DEF OnAnswered, NextEvent
  <2>2. runner'.att = runner.att \/ (~Busy /\ runner'.att = runner.att + 1)
    <3>1. CASE StartOne /\ ~Busy
      <4>1. runner' = [runner EXCEPT !.pc = "dial", !.att = runner.att + 1]
        BY <3>1 DEF StartOne
      <4> QED
        BY <1>0, <3>1, <4>1 DEF Runners
    <3> QED
      BY <1>r, <3>1
  <2>3. \A b \in Attempts : att[b].reg => ~att[b].open \/ runner'.att = runner.att
    BY <2>2 DEF Busy
  <2>4. OneOpen'
    BY <1>1, <2>1, <2>3 DEF OneOpen, Removed
  <2>5. Fresh'
    BY <1>0, <1>1, <2>2 DEF Fresh
  <2> QED
    BY <2>4, <2>5
<1>2. CASE StartOne /\ ~Busy /\ AttStep(runner.att + 1, [att[runner.att + 1] EXCEPT !.reg = TRUE])
             /\ runner'.att = runner.att + 1
  <2> DEFINE a == runner.att + 1
             s == [att[a] EXCEPT !.reg = TRUE]
  <2>1. a \in Attempts /\ \A b \in Attempts : att'[b] = IF b = a THEN s ELSE att[b]
    BY <1>2 DEF AttStep
  <2>2. att[a] = NoSession /\ a \in Nat /\ a > runner.att
    BY <1>0, <2>1
  <2>3. s.reg /\ s.open /\ s.call = 0
    BY <2>2 DEF NoSession
  <2>4. loop' = loop
    BY <1>2 DEF StartOne
  <2>5. \A b \in Attempts : att[b].reg => ~att[b].open
    BY <1>2 DEF Busy
  <2>6. runner'.att = a
    BY <1>2
  <2> HIDE DEF a, s
  <2>7. OneOpen'
    BY <1>0, <2>1, <2>3, <2>4, <2>5, <2>6 DEF OneOpen, Removed
  <2>8. \A b \in Attempts : b > a => b # a /\ b > runner.att
    BY <1>0, <2>2
  <2>9. Fresh'
    BY <1>0, <2>1, <2>6, <2>8 DEF Fresh
  <2> QED
    BY <2>7, <2>9
\* The runner, or the loop, writes a session it has, and leaves the call.
<1>3. ASSUME NEW a, NEW s, AttStep(a, s), a <= runner.att \/ s = att[a], runner'.att = runner.att,
             s.reg => att[a].reg, s.call = att[a].call,
             (s.open = att[a].open) \/ s.open,
             (loop' = loop) \/ (loop.pc # "cleanup") \/ (a = loop.att /\ ~s.reg)
      PROVE  OneOpen' /\ Fresh'
  <2>1. a \in Attempts /\ \A b \in Attempts : att'[b] = IF b = a THEN s ELSE att[b]
    BY <1>3 DEF AttStep
  <2>2. OneOpen'
    <3> SUFFICES ASSUME NEW b \in Attempts, att'[b].reg
                 PROVE  /\ (att'[b].open /\ b = runner.att) \/ Removed(b)'
                        /\ att'[b].call = 0 => att'[b].open /\ b = runner.att
      BY <1>3 DEF OneOpen
    <3>1. att[b].reg /\ att'[b].call = att[b].call
      BY <1>3, <2>1
    <3>2. att[b].open => att'[b].open
      BY <1>3, <2>1
    <3>3. Removed(b) => Removed(b)'
      BY <1>3, <2>1 DEF Removed
    <3> QED
      BY <3>1, <3>2, <3>3 DEF OneOpen
  <2>3. Fresh'
    <3> SUFFICES ASSUME NEW b \in Attempts, b > runner.att
                 PROVE  att'[b] = NoSession
      BY <1>3 DEF Fresh
    <3>1. b = a => s = att[a]
      BY <1>0, <1>3
    <3> QED
      BY <1>0, <2>1, <3>1
  <2> QED
    BY <2>2, <2>3
<1>4. CASE Dialled /\ AttStep(runner.att, [att[runner.att] EXCEPT !.sent = cmd["runner"].result # "failed"])
  <2> DEFINE s == [att[runner.att] EXCEPT !.sent = cmd["runner"].result # "failed"]
  <2>1. loop' = loop /\ runner'.att = runner.att
    BY <1>4, <1>r DEF Dialled, StartOne, Runner
  <2>2. att[runner.att] \in Sessions /\ (cmd["runner"].result # "failed") \in BOOLEAN
    BY <1>0, <1>4 DEF AttStep
  <2>3. AttStep(runner.att, s) /\ s.reg = att[runner.att].reg /\ s.open = att[runner.att].open /\ s.call = att[runner.att].call
    BY <1>4, <2>2, SessionFields
  <2> HIDE DEF s
  <2> QED
    BY <1>0, <1>3, <2>1, <2>3
<1>5. CASE DialerMarks /\ AttStep(runner.att, [att[runner.att] EXCEPT !.emitted = TRUE])
  <2> DEFINE s == [att[runner.att] EXCEPT !.emitted = TRUE]
  <2>1. loop' = loop /\ runner'.att = runner.att
    BY <1>5, <1>r DEF DialerMarks, StartOne, Runner
  <2>2. att[runner.att] \in Sessions
    BY <1>0, <1>5 DEF AttStep
  <2>3. AttStep(runner.att, s) /\ s.reg = att[runner.att].reg /\ s.open = att[runner.att].open /\ s.call = att[runner.att].call
    BY <1>5, <2>2, SessionFields
  <2> HIDE DEF s
  <2> QED
    BY <1>0, <1>3, <2>1, <2>3
<1>6. CASE InitiateReturns /\ AttStep(runner.att, [att[runner.att] EXCEPT !.open = TRUE])
  <2> DEFINE s == [att[runner.att] EXCEPT !.open = TRUE]
  <2>1. loop' = loop /\ runner'.att = runner.att
    BY <1>6, <1>r DEF InitiateReturns, StartOne, Runner
  <2>2. att[runner.att] \in Sessions
    BY <1>0, <1>6 DEF AttStep
  <2>3. AttStep(runner.att, s) /\ s.reg = att[runner.att].reg /\ s.open = TRUE /\ s.call = att[runner.att].call
    BY <1>6, <2>2, SessionFields
  <2> HIDE DEF s
  <2> QED
    BY <1>0, <1>3, <2>1, <2>3
<1>7. CASE InitiateReturns /\ AttStep(runner.att, [att[runner.att] EXCEPT !.reg = FALSE])
  <2> DEFINE s == [att[runner.att] EXCEPT !.reg = FALSE]
  <2>1. loop' = loop /\ runner'.att = runner.att
    BY <1>7, <1>r DEF InitiateReturns, StartOne, Runner
  <2>2. att[runner.att] \in Sessions
    BY <1>0, <1>7 DEF AttStep
  <2>3. AttStep(runner.att, s) /\ s.reg = FALSE /\ s.open = att[runner.att].open /\ s.call = att[runner.att].call
    BY <1>7, <2>2, SessionFields
  <2> HIDE DEF s
  <2> QED
    BY <1>0, <1>3, <2>1, <2>3
<1>8. CASE LoopMarks /\ AttStep(loop.att, [att[loop.att] EXCEPT !.emitted = TRUE])
  <2> DEFINE s == [att[loop.att] EXCEPT !.emitted = TRUE]
  <2>1. loop.pc = "mark" /\ runner'.att = runner.att
    BY <1>8 DEF LoopMarks
  <2>2. att[loop.att] \in Sessions /\ loop.att \in Attempts /\ att[loop.att].answered
    BY <1>0, <1>8, <2>1 DEF AttStep, ExpInv, Known
  <2>3. AttStep(loop.att, s) /\ s.reg = att[loop.att].reg /\ s.open = att[loop.att].open /\ s.call = att[loop.att].call
    BY <1>8, <2>2, SessionFields
  <2> HIDE DEF s
  <2>4. loop.att <= runner.att
    <3>1. loop.att \in Nat /\ ~(loop.att > runner.att)
      BY <1>0, <2>2
    <3> QED
      BY <1>0, <3>1
  <2> QED
    BY <1>3, <2>1, <2>3, <2>4
<1>9. CASE CleansUp /\ AttStep(loop.att, [att[loop.att] EXCEPT !.reg = FALSE])
  <2> DEFINE s == [att[loop.att] EXCEPT !.reg = FALSE]
  <2>1. loop.pc = "cleanup" /\ runner'.att = runner.att
    BY <1>9 DEF CleansUp
  <2>2. att[loop.att] \in Sessions /\ loop.att \in Attempts
    BY <1>0, <1>9 DEF AttStep
  <2>3. AttStep(loop.att, s) /\ s.reg = FALSE /\ s.open = att[loop.att].open /\ s.call = att[loop.att].call
    BY <1>9, <2>2, SessionFields
  <2>4. loop.att <= runner.att \/ s = att[loop.att]
    <3>1. CASE loop.att > runner.att
      <4>1. att[loop.att] = NoSession
        BY <1>0, <2>2, <3>1
      <4> QED
        <5>1. att[loop.att].reg = FALSE
          BY <4>1 DEF NoSession
        <5> QED
          BY <1>0, <2>2, <5>1, SameReg
    <3> QED
      BY <1>0, <2>2, <3>1
  <2> HIDE DEF s
  <2> QED
    BY <1>0, <1>3, <2>1, <2>3, <2>4
<1>10. CASE OnOutgoing
  <2> DEFINE n == Head(eventChan).call
  <2>1. n \in Nat /\ n # 0
    BY <1>10, TakesEvent DEF OnOutgoing
  <2>2. /\ loop' = loop /\ runner'.att = runner.att
        /\ att' = [a \in Attempts |-> IF a \in Found(n) THEN [att[a] EXCEPT !.call = n] ELSE att[a]]
    BY <1>10 DEF OnOutgoing
  <2> HIDE DEF n
  <2>3. \A a \in Attempts : a \in Found(n) => att[a].reg /\ a <= runner.att
    BY <2>1, FoundOpen
  <2>4. \A a \in Attempts : /\ att'[a].reg = att[a].reg /\ att'[a].open = att[a].open
                            /\ att'[a].call = 0 => att[a].call = 0
                            /\ a > runner.att => att'[a] = att[a]
    <3> SUFFICES ASSUME NEW a \in Attempts
                 PROVE  /\ att'[a].reg = att[a].reg /\ att'[a].open = att[a].open
                        /\ att'[a].call = 0 => att[a].call = 0
                        /\ a > runner.att => att'[a] = att[a]
      OBVIOUS
    <3>1. CASE a \in Found(n)
      <4>1. att'[a] = [att[a] EXCEPT !.call = n] /\ att[a] \in Sessions /\ ~(a > runner.att)
        BY <1>0, <2>2, <2>3, <3>1
      <4> QED
        BY <2>1, <4>1, SessionFields
    <3>2. CASE a \notin Found(n)
      BY <2>2, <3>2
    <3> QED
      BY <3>1, <3>2
  <2> QED
    BY <1>0, <2>2, <2>4 DEF OneOpen, Removed, Fresh
<1>11. ASSUME OnAnswered \/ OnClosed, NEW a \in Found(Head(eventChan).call), NEW s, AttStep(a, s),
              s.call = Head(eventChan).call,
              \/ s.open /\ loop' = [pc |-> "answer", att |-> a]
              \/ ~s.open /\ loop' = [pc |-> "cleanup", att |-> a]
       PROVE  OneOpen' /\ Fresh'
  <2> DEFINE n == Head(eventChan).call
  <2>1. n \in Nat /\ n # 0 /\ loop.pc = "idle"
    BY <1>11, TakesEvent DEF OnAnswered, OnClosed
  <2>2. runner'.att = runner.att
    BY <1>11 DEF OnAnswered, OnClosed
  <2>3. a \in Attempts /\ att[a].reg /\ a <= runner.att
    BY <1>11, <2>1, FoundOpen
  <2>4. \A b \in Attempts : att'[b] = IF b = a THEN s ELSE att[b]
    BY <1>11 DEF AttStep
  <2>5. \A b \in Attempts : att[b].reg => att[b].open /\ b = runner.att
    BY <2>1 DEF OneOpen, Removed
  <2>6. a = runner.att /\ s.call # 0
    BY <1>11, <2>1, <2>3, <2>5
  <2>7. OneOpen'
    <3> SUFFICES ASSUME NEW b \in Attempts, att'[b].reg
                 PROVE  /\ (att'[b].open /\ b = runner.att) \/ Removed(b)'
                        /\ att'[b].call = 0 => att'[b].open /\ b = runner.att
      BY <2>2 DEF OneOpen
    <3>1. CASE b = a
      BY <1>11, <2>4, <2>6, <3>1 DEF Removed
    <3>2. CASE b # a
      BY <2>4, <2>5, <3>2
    <3> QED
      BY <3>1, <3>2
  <2>8. Fresh'
    <3> SUFFICES ASSUME NEW b \in Attempts, b > runner.att
                 PROVE  att'[b] = NoSession
      BY <2>2 DEF Fresh
    <3>1. b # a
      BY <1>0, <2>6
    <3> QED
      BY <1>0, <2>4, <3>1
  <2> QED
    BY <2>7, <2>8
<1>12. CASE OnClosed /\ att' = att /\ loop' = loop
  BY <1>0, <1>12 DEF OnClosed, OneOpen, Removed, Fresh
<1>13. CASE \E a \in Found(Head(eventChan).call) :
               /\ OnAnswered /\ AttStep(a, [att[a] EXCEPT !.call = Head(eventChan).call, !.answered = TRUE, !.open = TRUE])
               /\ loop' = [pc |-> "answer", att |-> a]
  <2>1. PICK a \in Found(Head(eventChan).call) :
               /\ OnAnswered /\ AttStep(a, [att[a] EXCEPT !.call = Head(eventChan).call, !.answered = TRUE, !.open = TRUE])
               /\ loop' = [pc |-> "answer", att |-> a]
    BY <1>13
  <2>2. Head(eventChan).call \in Nat /\ att[a] \in Sessions
    BY <1>0, <2>1, TakesEvent DEF OnAnswered, AttStep
  <2>3. /\ [att[a] EXCEPT !.call = Head(eventChan).call, !.answered = TRUE, !.open = TRUE].call = Head(eventChan).call
        /\ [att[a] EXCEPT !.call = Head(eventChan).call, !.answered = TRUE, !.open = TRUE].open = TRUE
    BY <2>2, SessionFields
  <2> QED
    BY <1>11, <2>1, <2>3
<1>14. CASE \E a \in Found(Head(eventChan).call) :
               /\ OnClosed /\ AttStep(a, [att[a] EXCEPT !.call = Head(eventChan).call, !.open = FALSE])
               /\ loop' = [pc |-> "cleanup", att |-> a]
  <2>1. PICK a \in Found(Head(eventChan).call) :
               /\ OnClosed /\ AttStep(a, [att[a] EXCEPT !.call = Head(eventChan).call, !.open = FALSE])
               /\ loop' = [pc |-> "cleanup", att |-> a]
    BY <1>14
  <2>2. Head(eventChan).call \in Nat /\ att[a] \in Sessions
    BY <1>0, <2>1, TakesEvent DEF OnClosed, AttStep
  <2>3. /\ [att[a] EXCEPT !.call = Head(eventChan).call, !.open = FALSE].call = Head(eventChan).call
        /\ [att[a] EXCEPT !.call = Head(eventChan).call, !.open = FALSE].open = FALSE
    BY <2>2, SessionFields
  <2> QED
    BY <1>11, <2>1, <2>3
\* The callback opens a session, the newest or one that is being removed.
<1>15. CASE \E a \in Attempts : RuaCompletes(a) /\ AttStep(a, [att[a] EXCEPT !.open = TRUE])
  <2>1. PICK a \in Attempts : RuaCompletes(a) /\ AttStep(a, [att[a] EXCEPT !.open = TRUE])
    BY <1>15
  <2> DEFINE s == [att[a] EXCEPT !.open = TRUE]
  <2>2. loop' = loop /\ runner' = runner /\ a <= runner.att
    BY <2>1 DEF RuaCompletes
  <2>3. AttStep(a, s) /\ s.reg = att[a].reg /\ s.open = TRUE /\ s.call = att[a].call
    BY <1>0, <2>1, SessionFields
  <2> HIDE DEF s
  <2> QED
    BY <1>3, <2>2, <2>3
<1> QED
  BY <1>1, <1>2, <1>4, <1>5, <1>6, <1>7, <1>8, <1>9, <1>10, <1>12, <1>13, <1>14, <1>15, AttActions
-----------------------------------------------------------------------------
(* The stream. *)

\* t is s without its p-th element.
LessOne(t, s, p) ==
    /\ p \in DOMAIN s /\ Len(t) = Len(s) - 1
    /\ \A i \in DOMAIN t : t[i] = s[IF i < p THEN i ELSE i + 1]

LEMMA Joined ==
    ASSUME NEW q \in Seq(Events), NEW p \in Seq(Frames)
    PROVE  /\ q \o p \in Seq(Frames) /\ q \in Seq(Frames)
           /\ Len(q) \in Nat /\ Len(p) \in Nat /\ Len(q \o p) = Len(q) + Len(p)
           /\ DOMAIN (q \o p) = 1 .. Len(q) + Len(p) /\ DOMAIN q = 1 .. Len(q) /\ DOMAIN p = 1 .. Len(p)
           /\ \A i \in 1 .. Len(q) + Len(p) : (q \o p)[i] = IF i <= Len(q) THEN q[i] ELSE p[i - Len(q)]
           /\ \A i \in DOMAIN q : i \in DOMAIN (q \o p) /\ (q \o p)[i] = q[i]
           /\ \A i \in DOMAIN p : Len(q) + i \in DOMAIN (q \o p) /\ (q \o p)[Len(q) + i] = p[i]
<1>1. Events \subseteq Frames
  BY DEF Frames
<1>2. q \in Seq(Frames)
  BY <1>1, SeqMonotonic
<1>3. /\ q \o p \in Seq(Frames) /\ Len(q \o p) = Len(q) + Len(p)
      /\ \A i \in 1 .. Len(q) + Len(p) : (q \o p)[i] = IF i <= Len(q) THEN q[i] ELSE p[i - Len(q)]
  BY <1>2, ConcatProperties
<1>4. Len(q) \in Nat /\ Len(p) \in Nat /\ DOMAIN q = 1 .. Len(q) /\ DOMAIN p = 1 .. Len(p)
      /\ DOMAIN (q \o p) = 1 .. Len(q) + Len(p)
  BY <1>2, <1>3, LenProperties
<1>5. \A i \in DOMAIN q : i \in DOMAIN (q \o p) /\ (q \o p)[i] = q[i]
  BY <1>3, <1>4
<1>6. \A i \in DOMAIN p : Len(q) + i \in DOMAIN (q \o p) /\ (q \o p)[Len(q) + i] = p[i]
  <2> SUFFICES ASSUME NEW i \in DOMAIN p
               PROVE  Len(q) + i \in DOMAIN (q \o p) /\ (q \o p)[Len(q) + i] = p[i]
    OBVIOUS
  <2>1. i \in Nat /\ i >= 1 /\ i <= Len(p) /\ Len(q) + i - Len(q) = i /\ ~(Len(q) + i <= Len(q))
    BY <1>4
  <2>2. Len(q) + i \in 1 .. Len(q) + Len(p)
    BY <1>4, <2>1
  <2> QED
    BY <1>3, <1>4, <2>1, <2>2
<1> QED
  BY <1>2, <1>3, <1>4, <1>5, <1>6

\* The event that goes from the frames to the channel stays where it is in the stream.
LEMMA MovedOn ==
    ASSUME NEW q \in Seq(Events), NEW p \in Seq(Frames), p # <<>>, Head(p) \in Events
    PROVE  Append(q, Head(p)) \o Tail(p) = q \o p
<1>1. /\ Append(q, Head(p)) \in Seq(Events) /\ Tail(p) \in Seq(Frames)
      /\ Len(Append(q, Head(p))) = Len(q) + 1 /\ Len(Tail(p)) = Len(p) - 1 /\ Len(p) >= 1
      /\ \A i \in 1 .. Len(q) : Append(q, Head(p))[i] = q[i]
      /\ Append(q, Head(p))[Len(q) + 1] = p[1]
      /\ \A i \in 1 .. Len(p) - 1 : Tail(p)[i] = p[i + 1]
  OBVIOUS
<1> DEFINE s == q \o p
           t == Append(q, Head(p)) \o Tail(p)
<1>2. /\ s \in Seq(Frames) /\ Len(q) \in Nat /\ Len(p) \in Nat /\ Len(s) = Len(q) + Len(p)
      /\ \A i \in 1 .. Len(q) + Len(p) : s[i] = IF i <= Len(q) THEN q[i] ELSE p[i - Len(q)]
  BY Joined
<1>3. t \in Seq(Frames) /\ Len(t) = Len(q) + 1 + (Len(p) - 1)
      /\ \A i \in 1 .. Len(q) + 1 + (Len(p) - 1) :
            t[i] = IF i <= Len(q) + 1 THEN Append(q, Head(p))[i] ELSE Tail(p)[i - (Len(q) + 1)]
  BY <1>1, Joined
<1> HIDE DEF s, t
<1>4. \A i \in 1 .. Len(s) : t[i] = s[i]
  <2> SUFFICES ASSUME NEW i \in 1 .. Len(q) + Len(p)
               PROVE  t[i] = s[i]
    BY <1>2
  <2>0. i \in 1 .. Len(q) + 1 + (Len(p) - 1)
    BY <1>2
  <2>1. CASE i <= Len(q)
    <3>1. t[i] = Append(q, Head(p))[i]
      BY <1>2, <1>3, <2>0, <2>1
    <3>2. Append(q, Head(p))[i] = q[i]
      BY <1>1, <1>2, <2>1
    <3> QED
      BY <1>2, <2>1, <3>1, <3>2
  <2>2. CASE i = Len(q) + 1
    <3>1. t[i] = p[1]
      <4>1. t[i] = Append(q, Head(p))[i]
        BY <1>2, <1>3, <2>0, <2>2
      <4> QED
        BY <1>1, <2>2, <4>1
    <3>2. s[i] = p[1]
      BY <1>2, <2>2
    <3> QED
      BY <3>1, <3>2
  <2>3. CASE i > Len(q) + 1
    <3>1. i - (Len(q) + 1) \in 1 .. Len(p) - 1 /\ i - (Len(q) + 1) + 1 = i - Len(q)
      BY <1>2, <2>3
    <3>2. t[i] = Tail(p)[i - (Len(q) + 1)]
      BY <1>1, <1>2, <1>3, <2>3
    <3>3. Tail(p)[i - (Len(q) + 1)] = p[i - Len(q)]
      BY <1>1, <3>1
    <3>4. s[i] = p[i - Len(q)]
      BY <1>2, <2>3
    <3> QED
      BY <3>2, <3>3, <3>4
  <2> QED
    BY <1>2, <2>1, <2>2, <2>3
<1>5. Len(t) = Len(s)
  BY <1>2, <1>3
<1>6. t = s
  BY <1>2, <1>3, <1>4, <1>5, SeqEqual
<1> QED
  BY <1>6 DEF s, t

\* What the loop takes is the first of the stream; a response is the first of the frames.
LEMMA TakenOff ==
    ASSUME NEW q \in Seq(Events), NEW p \in Seq(Frames)
    PROVE  /\ q # <<>> => LessOne(Tail(q) \o p, q \o p, 1) /\ (q \o p)[1] = Head(q)
           /\ p # <<>> => LessOne(q \o Tail(p), q \o p, Len(q) + 1) /\ (q \o p)[Len(q) + 1] = Head(p)
<1>2. /\ Len(q) \in Nat /\ Len(p) \in Nat /\ Len(q \o p) = Len(q) + Len(p)
      /\ DOMAIN (q \o p) = 1 .. Len(q) + Len(p)
      /\ \A i \in 1 .. Len(q) + Len(p) : (q \o p)[i] = IF i <= Len(q) THEN q[i] ELSE p[i - Len(q)]
  BY Joined
<1>3. ASSUME q # <<>>
      PROVE  LessOne(Tail(q) \o p, q \o p, 1) /\ (q \o p)[1] = Head(q)
  <2>1. /\ Tail(q) \in Seq(Events) /\ Len(Tail(q)) = Len(q) - 1 /\ Len(q) >= 1 /\ Head(q) = q[1]
        /\ \A i \in 1 .. Len(q) - 1 : Tail(q)[i] = q[i + 1]
    BY <1>3
  <2> DEFINE t == Tail(q) \o p
             s == q \o p
  <2>2. /\ Len(t) = Len(q) - 1 + Len(p) /\ DOMAIN t = 1 .. Len(q) - 1 + Len(p)
        /\ \A i \in 1 .. Len(q) - 1 + Len(p) : t[i] = IF i <= Len(q) - 1 THEN Tail(q)[i] ELSE p[i - (Len(q) - 1)]
    BY <2>1, Joined
  <2>3. /\ Len(s) = Len(q) + Len(p) /\ DOMAIN s = 1 .. Len(q) + Len(p)
        /\ \A i \in 1 .. Len(q) + Len(p) : s[i] = IF i <= Len(q) THEN q[i] ELSE p[i - Len(q)]
    BY <1>2
  <2> HIDE DEF s, t
  <2>4. \A i \in DOMAIN t : t[i] = s[i + 1]
    <3> SUFFICES ASSUME NEW i \in 1 .. Len(q) - 1 + Len(p)
                 PROVE  t[i] = s[i + 1]
      BY <2>2
    <3>0. i + 1 \in 1 .. Len(q) + Len(p) /\ i + 1 - Len(q) = i - (Len(q) - 1)
      BY <1>2, <2>1
    <3>1. CASE i <= Len(q) - 1
      <4>1. t[i] = q[i + 1]
        BY <1>2, <2>1, <2>2, <3>1
      <4>2. s[i + 1] = q[i + 1]
        BY <1>2, <2>3, <3>0, <3>1
      <4> QED
        BY <4>1, <4>2
    <3>2. CASE i > Len(q) - 1
      <4>1. t[i] = p[i - (Len(q) - 1)]
        BY <1>2, <2>1, <2>2, <3>2
      <4>2. s[i + 1] = p[i + 1 - Len(q)]
        BY <1>2, <2>1, <2>3, <3>0, <3>2
      <4> QED
        BY <3>0, <4>1, <4>2
    <3> QED
      BY <1>2, <3>1, <3>2
  <2>5. \A i \in DOMAIN t : t[i] = s[IF i < 1 THEN i ELSE i + 1]
    BY <1>2, <2>2, <2>4
  <2>6. 1 \in DOMAIN s /\ s[1] = Head(q) /\ Len(t) = Len(s) - 1
    BY <1>2, <2>1, <2>2, <2>3
  <2>7. LessOne(t, s, 1) /\ s[1] = Head(q)
    BY <2>5, <2>6 DEF LessOne
  <2> QED
    BY <2>7 DEF s, t
<1>4. ASSUME p # <<>>
      PROVE  LessOne(q \o Tail(p), q \o p, Len(q) + 1) /\ (q \o p)[Len(q) + 1] = Head(p)
  <2>1. /\ Tail(p) \in Seq(Frames) /\ Len(Tail(p)) = Len(p) - 1 /\ Len(p) >= 1 /\ Head(p) = p[1]
        /\ \A i \in 1 .. Len(p) - 1 : Tail(p)[i] = p[i + 1]
    BY <1>4
  <2> DEFINE t == q \o Tail(p)
             s == q \o p
             k == Len(q) + 1
  <2>2. /\ Len(t) = Len(q) + (Len(p) - 1) /\ DOMAIN t = 1 .. Len(q) + (Len(p) - 1)
        /\ \A i \in 1 .. Len(q) + (Len(p) - 1) : t[i] = IF i <= Len(q) THEN q[i] ELSE Tail(p)[i - Len(q)]
    BY <2>1, Joined
  <2>3. /\ Len(s) = Len(q) + Len(p) /\ DOMAIN s = 1 .. Len(q) + Len(p)
        /\ \A i \in 1 .. Len(q) + Len(p) : s[i] = IF i <= Len(q) THEN q[i] ELSE p[i - Len(q)]
    BY <1>2
  <2> HIDE DEF s, t
  <2>4. \A i \in DOMAIN t : t[i] = s[IF i < k THEN i ELSE i + 1]
    <3> SUFFICES ASSUME NEW i \in 1 .. Len(q) + (Len(p) - 1)
                 PROVE  t[i] = s[IF i < k THEN i ELSE i + 1]
      BY <2>2
    <3>1. CASE i <= Len(q)
      <4>1. t[i] = q[i] /\ i < k
        BY <1>2, <2>1, <2>2, <3>1
      <4>2. s[i] = q[i]
        BY <1>2, <2>1, <2>3, <3>1
      <4> QED
        BY <4>1, <4>2
    <3>2. CASE i > Len(q)
      <4>0. i - Len(q) \in 1 .. Len(p) - 1 /\ i - Len(q) + 1 = i + 1 - Len(q) /\ ~(i < k) /\ i + 1 \in 1 .. Len(q) + Len(p)
        BY <1>2, <2>1, <3>2
      <4>1. t[i] = Tail(p)[i - Len(q)]
        BY <1>2, <2>2, <3>2
      <4>2. s[i + 1] = p[i + 1 - Len(q)]
        BY <1>2, <2>3, <3>2, <4>0
      <4>3. Tail(p)[i - Len(q)] = p[i + 1 - Len(q)]
        BY <2>1, <4>0
      <4> QED
        BY <4>0, <4>1, <4>2, <4>3
    <3> QED
      BY <1>2, <2>1, <3>1, <3>2
  <2>6. k \in DOMAIN s /\ s[k] = Head(p) /\ Len(t) = Len(s) - 1
    <3>1. k \in 1 .. Len(q) + Len(p) /\ ~(k <= Len(q)) /\ k - Len(q) = 1
      BY <1>2, <2>1
    <3> QED
      BY <1>2, <2>1, <2>2, <2>3, <3>1
  <2>7. LessOne(t, s, k) /\ s[k] = Head(p)
    BY <2>4, <2>6 DEF LessOne
  <2> QED
    BY <2>7 DEF s, t
<1> QED
  BY <1>3, <1>4
-----------------------------------------------------------------------------
(* What a step can do as long as nothing fails. *)

Calm == ExpInv /\ OneOpen /\ Fresh /\ Quiet /\ QuietInv
Step == Next /\ Quiet'

Takeoff == eventChan # <<>> /\ eventChan' = Tail(eventChan)

\* What the actions say by themselves.
LEMMA ReadingEnds == StopReading => ReadEnds
BY DEF StopReading

LEMMA LoopTakes ==
    OnOutgoing \/ OnAnswered \/ OnClosed
       => Takeoff /\ UNCHANGED <<calls, back, wire, owed, link, reader, cmd>>
<1>1. OnOutgoing \/ OnAnswered \/ OnClosed => UNCHANGED <<calls, back, wire, owed, link, reader, cmd>>
  BY DEF OnOutgoing, OnAnswered, OnClosed
<1>2. OnOutgoing \/ OnAnswered \/ OnClosed => Takeoff
  BY DEF OnOutgoing, OnAnswered, OnClosed, NextEvent, Takeoff
<1> QED
  BY <1>1, <1>2

LEMMA LoopFound ==
    OnAnswered \/ OnClosed
       => loop' = loop \/ \E pc \in {"answer", "cleanup"}, a \in Attempts : loop' = [pc |-> pc, att |-> a]
<1>1. \A n : Found(n) \subseteq Attempts
  BY DEF Found, Of, Waiting
<1>2. OnAnswered => loop' = loop \/ \E a \in Attempts : loop' = [pc |-> "answer", att |-> a]
  BY <1>1 DEF OnAnswered
<1>3. OnClosed => loop' = loop \/ \E a \in Attempts : loop' = [pc |-> "cleanup", att |-> a]
  BY <1>1 DEF OnClosed
<1> QED
  BY <1>2, <1>3

LEMMA Undisturbed ==
    ASSUME ExpInv, ForgetInv, Next, Quiet'
    PROVE  Calm /\ Step
<1>1. Quiet
  BY StepConnected
<1> QED
  BY <1>1 DEF ForgetInv, Calm, Step

LEMMA NoFault ==
    ASSUME Calm, Step
    PROVE  /\ faults = 0 /\ faults' = 0 /\ ~closed /\ ~closed' /\ link = "up" /\ reader = "run"
           /\ ~Fault /\ ~Noted /\ ~Faults /\ ~StopReading
           /\ wire \in Seq(Commands) /\ back \in Seq(Frames) /\ eventChan \in Seq(Events)
           /\ calls \in Seq(Calls) /\ owed \subseteq Responses
<1>1. faults = 0 /\ faults' = 0 /\ ~closed /\ ~closed' /\ link = "up" /\ reader = "run"
  BY DEF Calm, Step, Quiet, QuietInv, Healthy
<1>2. ~Fault /\ ~Noted
  BY <1>1, ExpConst DEF Fault, Noted
<1>3. ~Faults /\ ~StopReading
  <2>1. ~LoseLink /\ ~Garble
    BY <1>2 DEF LoseLink, Garble
  <2>2. ~ReadEnds
    BY <1>1 DEF ReadEnds
  <2>3. ~StopReading
    BY <2>2, ReadingEnds
  <2>4. ~Faults
    BY <2>1 DEF Faults
  <2> QED
    BY <2>3, <2>4
<1>4. /\ wire \in Seq(Commands) /\ back \in Seq(Frames) /\ eventChan \in Seq(Events)
      /\ calls \in Seq(Calls) /\ owed \subseteq Responses
  BY DEF Calm, ExpInv, MatchInv, Held, Connected, Shaped
<1> QED
  BY <1>1, <1>2, <1>3, <1>4

WireLess == wire' = wire \/ (wire # <<>> /\ wire' = Tail(wire))

\* A dial makes a call ...
NewCall ==
    /\ HandleCommand /\ wire # <<>> /\ Head(wire).op = "dial" /\ wire' = Tail(wire)
    /\ calls' = Append(calls, [state |-> "ringing", att |-> Head(wire).arg])
    /\ back' = Append(back, Event("outgoing", Len(calls) + 1))
    /\ \E r : owed' = owed \cup {r} /\ r.arg = Head(wire).arg /\ r.ok
    /\ UNCHANGED <<commands, eventChan, control, main>>

\* ... which is answered, or ended, with an answer to the command that ended it ...
Reply(f) == f \in Responses /\ (f \in owed \/ f.op # "dial")
CallMoves(n) ==
    /\ calls[n].state # "over"
    /\ \/ /\ calls' = [calls EXCEPT ![n].state = "up"]
          /\ \/ back' = Append(back, Event("answered", n))
             \/ back' = Append(Append(back, Event("answered", n)), Event("answered", n))
       \/ /\ calls' = [calls EXCEPT ![n].state = "over"]
          /\ \/ back' = Append(back, Event("closed", n))
             \/ \E f : /\ Reply(f)
                       /\ \/ back' = Append(Append(back, Event("closed", n)), f)
                          \/ back' = Append(Append(back, f), Event("closed", n))
    /\ WireLess /\ UNCHANGED <<owed, commands, eventChan, control, main>>

\* ... and there are other answers.
Replies ==
    /\ \E f : Reply(f) /\ back' = Append(back, f)
    /\ owed' \subseteq owed /\ WireLess /\ UNCHANGED <<calls, commands, eventChan, control, main>>

LEMMA BaresipSteps ==
    ASSUME Calm, Step, Baresip \/ Callee
    PROVE  NewCall \/ (\E n \in Callees : CallMoves(n)) \/ Replies
<1>0. /\ ~Fault /\ ~Noted /\ link = "up" /\ wire \in Seq(Commands) /\ back \in Seq(Frames)
      /\ owed \subseteq Responses /\ calls \in Seq(Calls) /\ Len(calls) + 1 \in Nat
      /\ DOMAIN calls = 1 .. Len(calls)
      /\ \A q, type, n : Emit(q, type, n) = Append(q, Event(type, n))
  BY NoFault DEF Emit
<1>1. CASE HandleCommand
  <2> DEFINE k == Head(wire)
             n == Len(calls) + 1
             R(ok) == [kind |-> "response", token |-> k.token, op |-> k.op, arg |-> k.arg, ok |-> ok]
  <2>1. k \in Commands /\ wire # <<>> /\ wire' = Tail(wire) /\ k.op \in Ops
    BY <1>0, <1>1, Shorter, CommandKnown DEF HandleCommand, Calm
  <2>2. UNCHANGED <<commands, eventChan, control, main>>
    BY <1>1 DEF HandleCommand
  <2>3. R(TRUE) \in Responses /\ R(TRUE).op = k.op /\ R(TRUE).arg = k.arg /\ R(TRUE).ok
    BY <2>1 DEF Responses, Commands
  <2>4. CASE k.op = "dial"
    <3>1. /\ calls' = Append(calls, [state |-> "ringing", att |-> k.arg])
          /\ back' = Append(back, Event("outgoing", n)) /\ owed' = owed \cup {R(TRUE)}
      BY <1>0, <1>1, <2>4 DEF HandleCommand
    <3> HIDE DEF R
    <3> QED
      BY <1>1, <2>1, <2>2, <2>3, <2>4, <3>1 DEF NewCall
  <2>5. CASE k.op = "hangup"
    <3>1. k.arg \in Callees
      BY <1>0, <1>1, <2>5, CommandKnown DEF Calm, Callees
    <3>2. \/ calls[k.arg].state = "over" /\ back' = Append(back, R(TRUE)) /\ UNCHANGED <<calls, owed>>
          \/ /\ calls[k.arg].state # "over" /\ calls' = [calls EXCEPT ![k.arg].state = "over"]
             /\ \/ back' = Append(Append(back, Event("closed", k.arg)), R(TRUE))
                \/ back' = Append(Append(back, R(TRUE)), Event("closed", k.arg))
             /\ UNCHANGED owed
      BY <1>0, <1>1, <2>5 DEF HandleCommand
    <3>3. Reply(R(TRUE))
      BY <2>3, <2>5 DEF Reply
    <3> HIDE DEF R
    <3>4. CASE calls[k.arg].state = "over"
      <4>1. back' = Append(back, R(TRUE)) /\ UNCHANGED <<calls, owed>>
        BY <3>2, <3>4
      <4> QED
        BY <2>1, <2>2, <3>3, <4>1 DEF Replies, WireLess
    <3>5. CASE calls[k.arg].state # "over"
      <4>1. /\ calls' = [calls EXCEPT ![k.arg].state = "over"]
            /\ \/ back' = Append(Append(back, Event("closed", k.arg)), R(TRUE))
               \/ back' = Append(Append(back, R(TRUE)), Event("closed", k.arg))
            /\ UNCHANGED owed
        BY <3>2, <3>5
      <4>2. CallMoves(k.arg)
        BY <2>1, <2>2, <3>3, <3>5, <4>1 DEF CallMoves, WireLess
      <4> QED
        BY <3>1, <4>2
    <3> QED
      BY <3>4, <3>5
  <2> QED
    BY <2>1, <2>4, <2>5 DEF Ops
<1>2. CASE Respond
  <2>1. PICK r \in owed : owed' = owed \ {r} /\ back' = Append(back, r)
    BY <1>0, <1>2 DEF Respond
  <2>2. Reply(r)
    BY <1>0, <2>1 DEF Reply
  <2> QED
    BY <1>2, <2>1, <2>2 DEF Respond, Replies, WireLess
<1>3. ASSUME NEW n \in Callees, Answered(n)
      PROVE  CallMoves(n)
  BY <1>0, <1>3 DEF Answered, CallMoves, WireLess
<1>4. ASSUME NEW n \in Callees, Ended(n)
      PROVE  CallMoves(n)
  BY <1>0, <1>4 DEF Ended, CallMoves, WireLess
<1> QED
  BY <1>1, <1>2, <1>3, <1>4 DEF Baresip, Callee

\* The reader, and the callers.
ReadsResponse ==
    /\ Routes /\ Head(back) \in Responses
    /\ UNCHANGED <<calls, eventChan, control, main>>
ReadsEvent ==
    /\ back # <<>> /\ Head(back) \in Events
    /\ back' = Tail(back) /\ eventChan' = Append(eventChan, Head(back))
    /\ UNCHANGED <<commands, wire, calls, owed, control, main>>
WritesTo(c) ==
    /\ cmd[c].pc = "write" /\ cmd' = [cmd EXCEPT ![c].pc = "wait"]
    /\ wire' = Append(wire, cmd[c])
    /\ UNCHANGED <<pending, back, eventChan, calls, owed, control, main>>
Takes(c) ==
    /\ TakeResponse(c) /\ UNCHANGED <<wire, back, eventChan, calls, owed, control, main>>

LEMMA ClientSteps ==
    ASSUME Calm, Step, Client
    PROVE  /\ ReadsResponse \/ ReadsEvent \/ \E c \in Callers : WritesTo(c) \/ Takes(c)
           /\ link' = link /\ reader' = reader
<1>0. /\ ~Fault /\ ~Noted /\ link = "up" /\ reader = "run" /\ ~closed /\ ~StopReading /\ back \in Seq(Frames)
      /\ \A i \in DOMAIN back : back[i].kind # "broken"
      /\ UNCHANGED <<phone, control, main>>
  BY NoFault DEF Calm, QuietInv, Healthy, Client
<1>1. CASE ReadFrame
  <2>1. back # <<>> /\ back' = Tail(back) /\ Head(back) \in Frames /\ Head(back).kind # "broken"
    BY <1>0, <1>1, Shorter DEF ReadFrame
  <2>2. CASE Head(back).kind = "response"
    <3>1. Routes /\ UNCHANGED <<reader, eventChan, link>>
      BY <1>0, <1>1, <2>1, <2>2 DEF ReadFrame, Routes
    <3> QED
      BY <1>0, <2>1, <2>2, <3>1, FrameKinds DEF ReadsResponse
  <2>3. CASE Head(back).kind = "event"
    <3>1. Deliver(Head(back)) /\ UNCHANGED <<cmd, pending, tokens, wire, link, reader>>
      BY <1>1, <2>3 DEF ReadFrame
    <3>2. eventChan' = Append(eventChan, Head(back))
      BY <1>0, <3>1 DEF Deliver
    <3> QED
      BY <1>0, <2>1, <2>3, <3>1, <3>2, FrameKinds DEF ReadsEvent
  <2> QED
    BY <2>1, <2>2, <2>3, FrameKinds
<1>2. ASSUME NEW c \in Callers, CallerSteps(c)
      PROVE  (WritesTo(c) \/ Takes(c)) /\ link' = link /\ reader' = reader
  <2>1. CASE Write(c)
    BY <1>0, <2>1 DEF Write, WritesTo
  <2>2. CASE TakeResponse(c)
    BY <1>0, <2>2 DEF TakeResponse, Takes
  <2> QED
    BY <1>0, <1>2, <2>1, <2>2 DEF CallerSteps, Timeout, Deaf, CloseEndsWait
<1> QED
  BY <1>0, <1>1, <1>2 DEF Client, ReaderSteps

\* The program's other goroutines.
LEMMA ProgramSteps ==
    ASSUME Calm, Step, Run \/ Loop \/ \E a \in Attempts : ODA(a)
    PROVE  /\ ~Stop /\ ~LoopEnds
           /\ UNCHANGED <<calls, back, wire, owed, link, reader>>
           /\ eventChan' = eventChan \/ (Loop /\ Takeoff)
<1>0. ~closed /\ ~closed' /\ reader = "run"
  BY NoFault
<1>1. ~Stop /\ ~LoopEnds
  BY <1>0 DEF Stop, Close, LoopEnds
<1>2. CASE Run
  BY <1>1, <1>2 DEF Run, StartOne, Dialled, DialerEmits, DialerMarks, InitiateReturns,
                TakeResult, HangupCall, HangupReturns, HandleResult
<1>3. CASE Loop
  <2>1. CASE OnOutgoing \/ OnAnswered \/ OnClosed
    <3>1. Takeoff /\ UNCHANGED <<calls, back, wire, owed, link, reader>>
      BY <2>1, LoopTakes
    <3> QED
      BY <1>1, <1>3, <3>1
  <2>2. CASE LoopEmits \/ LoopMarks \/ LoopAsks \/ CleansUp \/ TakesError
    BY <1>1, <2>2 DEF LoopEmits, LoopMarks, LoopAsks, CleansUp, TakesError
  <2> QED
    BY <1>1, <1>3, <2>1, <2>2 DEF Loop
<1>4. CASE \E a \in Attempts : ODA(a)
  BY <1>1, <1>4 DEF ODA, RuaCompletes, OdaSteps, OdaRecords, OdaDropped, OdaHangsUp, OdaReturns
<1> QED
  BY <1>2, <1>3, <1>4

LEMMA QuietNext ==
    ASSUME Calm, Step
    PROVE  Baresip \/ Callee \/ Client \/ Run \/ Loop \/ \E a \in Attempts : ODA(a)
BY NoFault DEF Step, Next

LEMMA StepHealthy == ASSUME Calm, Step PROVE Healthy'
<1>0. /\ link = "up" /\ reader = "run" /\ loop.pc # "ended" /\ back \in Seq(Frames) /\ owed \subseteq Responses
      /\ \A i \in DOMAIN back : back[i].kind # "broken"
      /\ loop \in [pc : {"idle", "answer", "mark", "ask", "cleanup", "ended"}, att : Nat]
  BY NoFault DEF Calm, QuietInv, Healthy, ExpInv, Shaped
<1>1. CASE Baresip \/ Callee
  <2>1. link' = link /\ reader' = reader /\ loop' = loop
    BY <1>1, WhoSteps DEF Step, Baresip, HandleCommand, Respond, Callee, Answered, Ended
  <2>2. ASSUME NEW q \in Seq(Frames), NEW f \in Frames, f.kind # "broken", \A i \in DOMAIN q : q[i].kind # "broken"
        PROVE  Append(q, f) \in Seq(Frames) /\ \A i \in DOMAIN Append(q, f) : Append(q, f)[i].kind # "broken"
    BY <2>2, Put
  <2>3. \A f : Reply(f) => f \in Frames /\ f.kind # "broken"
    BY DEF Reply, Responses, Frames
  <2>4. \A n \in Nat, type \in {"outgoing", "answered", "closed"} : Event(type, n) \in Frames /\ Event(type, n).kind # "broken"
    BY EventIsFrame
  <2>5. \A n \in Callees : n \in Nat
    BY DEF Callees
  <2>6. Len(calls) + 1 \in Nat
    BY NoFault
  <2>7. \A i \in DOMAIN back' : back'[i].kind # "broken"
    <3>1. CASE NewCall
      BY <1>0, <2>2, <2>4, <2>6, <3>1 DEF NewCall
    <3>2. CASE Replies
      BY <1>0, <2>2, <2>3, <3>2 DEF Replies
    <3>3. ASSUME NEW n \in Callees, CallMoves(n)
          PROVE  \A i \in DOMAIN back' : back'[i].kind # "broken"
      <4>0. /\ Event("answered", n) \in Frames /\ Event("answered", n).kind # "broken"
            /\ Event("closed", n) \in Frames /\ Event("closed", n).kind # "broken"
        BY <2>4, <2>5
      <4>a. CASE back' = Append(back, Event("answered", n))
        BY <1>0, <2>2, <4>0, <4>a
      <4>1. CASE back' = Append(back, Event("closed", n))
        BY <1>0, <2>2, <4>0, <4>1
      <4>2. CASE back' = Append(Append(back, Event("answered", n)), Event("answered", n))
        BY <1>0, <2>2, <4>0, <4>2
      <4>3. ASSUME NEW f, Reply(f), back' = Append(Append(back, Event("closed", n)), f)
            PROVE  \A i \in DOMAIN back' : back'[i].kind # "broken"
        BY <1>0, <2>2, <2>3, <4>0, <4>3
      <4>4. ASSUME NEW f, Reply(f), back' = Append(Append(back, f), Event("closed", n))
            PROVE  \A i \in DOMAIN back' : back'[i].kind # "broken"
        BY <1>0, <2>2, <2>3, <4>0, <4>4
      <4> QED
        BY <3>3, <4>a, <4>1, <4>2, <4>3, <4>4 DEF CallMoves
    <3> QED
      BY <1>1, <3>1, <3>2, <3>3, BaresipSteps
  <2> QED
    BY <1>0, <2>1, <2>7 DEF Healthy
<1>2. CASE Client
  <2>1. link' = link /\ reader' = reader /\ loop' = loop
    BY <1>2, ClientSteps, WhoSteps DEF Step
  <2>2. back' = back \/ (back # <<>> /\ back' = Tail(back))
    BY <1>2, ClientSteps DEF ReadsResponse, Routes, ReadsEvent, WritesTo, Takes
  <2>3. \A i \in DOMAIN back' : back'[i].kind # "broken"
    BY <1>0, <2>2, Shorter
  <2> QED
    BY <1>0, <2>1, <2>3 DEF Healthy
<1>3. CASE Run \/ Loop \/ \E a \in Attempts : ODA(a)
  <2>1. UNCHANGED <<back, link, reader>> /\ ~LoopEnds
    BY <1>3, ProgramSteps
  <2>2. loop'.pc # "ended"
    <3>1. CASE LoopEmits \/ LoopMarks \/ LoopAsks
      BY <1>0, <3>1 DEF LoopEmits, LoopMarks, LoopAsks
    <3>2. CASE OnAnswered \/ OnClosed
      <4>1. loop' = loop \/ \E pc \in {"answer", "cleanup"}, a \in Attempts : loop' = [pc |-> pc, att |-> a]
        BY <3>2, LoopFound
      <4> QED
        BY <1>0, <4>1
    <3>4. CASE OnOutgoing \/ CleansUp \/ TakesError
      BY <1>0, <3>4 DEF OnOutgoing, CleansUp, TakesError
    <3> QED
      BY <1>0, <2>1, <3>1, <3>2, <3>4, WhoSteps DEF Step, Loop
  <2> QED
    BY <1>0, <2>1, <2>2 DEF Healthy
<1> QED
  BY <1>1, <1>2, <1>3, QuietNext
-----------------------------------------------------------------------------
(* What a step does to the stream, and to the closings in it. *)

\* There is more in the stream, about one call that was not over, and its closing last.
More(n) ==
    /\ n \in Nat /\ (n \in Callees => calls[n].state # "over")
    /\ \A i \in DOMAIN Stream : i \in DOMAIN Stream' /\ Stream'[i] = Stream[i]
    /\ \A i \in DOMAIN Stream' \ DOMAIN Stream :
          /\ Stream'[i].kind = "event" => Stream'[i].call = n /\ n \in Callees'
          /\ IsClosing(Stream'[i], n) => calls'[n].state = "over"
          /\ \A j \in DOMAIN Stream' : i < j /\ IsClosing(Stream'[i], n) => ~IsEvent(Stream'[j], n)
    /\ \A m \in Callees : m \in Callees' /\ (m # n => calls'[m].state = calls[m].state)
    /\ n \in Callees' /\ calls'[n].state = "over" => \E i \in DOMAIN Stream' : IsClosing(Stream'[i], n)
    /\ Callees' \subseteq Callees \cup {n}

\* One frame more, and two.
LEMMA OneMore ==
    ASSUME NEW q \in Seq(Events), NEW p \in Seq(Frames), NEW f \in Frames
    PROVE  LET s == q \o p
               t == q \o Append(p, f)
           IN  /\ s \in Seq(Frames) /\ t \in Seq(Frames) /\ Len(s) \in Nat /\ Len(t) = Len(s) + 1
               /\ DOMAIN s = 1 .. Len(s) /\ DOMAIN t = 1 .. Len(s) + 1
               /\ \A i \in DOMAIN s : i \in DOMAIN t /\ t[i] = s[i]
               /\ t[Len(s) + 1] = f
<1> DEFINE s == q \o p
           r == Append(p, f)
           t == q \o r
<1>1. /\ r \in Seq(Frames) /\ Len(r) = Len(p) + 1 /\ r[Len(p) + 1] = f
      /\ \A i \in 1 .. Len(p) : r[i] = p[i]
  OBVIOUS
<1>2. /\ s \in Seq(Frames) /\ Len(q) \in Nat /\ Len(p) \in Nat /\ Len(s) = Len(q) + Len(p)
      /\ DOMAIN s = 1 .. Len(q) + Len(p)
      /\ \A i \in 1 .. Len(q) + Len(p) : s[i] = IF i <= Len(q) THEN q[i] ELSE p[i - Len(q)]
  BY Joined
<1> HIDE DEF r
<1>3. /\ t \in Seq(Frames) /\ Len(t) = Len(q) + (Len(p) + 1) /\ DOMAIN t = 1 .. Len(q) + (Len(p) + 1)
      /\ \A i \in 1 .. Len(q) + (Len(p) + 1) : t[i] = IF i <= Len(q) THEN q[i] ELSE r[i - Len(q)]
  <2>1. /\ t \in Seq(Frames) /\ Len(t) = Len(q) + Len(r) /\ DOMAIN t = 1 .. Len(q) + Len(r)
        /\ \A i \in 1 .. Len(q) + Len(r) : t[i] = IF i <= Len(q) THEN q[i] ELSE r[i - Len(q)]
    BY <1>1, Joined
  <2>2. Len(r) = Len(p) + 1
    BY <1>1
  <2> QED
    BY <2>1, <2>2
<1> HIDE DEF s, t
<1>4. Len(s) \in Nat /\ Len(t) = Len(s) + 1 /\ DOMAIN s = 1 .. Len(s) /\ DOMAIN t = 1 .. Len(s) + 1
  BY <1>2, <1>3
<1>5. \A i \in DOMAIN s : i \in DOMAIN t /\ t[i] = s[i]
  <2> SUFFICES ASSUME NEW i \in 1 .. Len(q) + Len(p)
               PROVE  i \in DOMAIN t /\ t[i] = s[i]
    BY <1>2
  <2>1. i \in 1 .. Len(q) + (Len(p) + 1)
    BY <1>2
  <2>2. CASE i <= Len(q)
    BY <1>2, <1>3, <2>1, <2>2
  <2>3. CASE i > Len(q)
    <3>1. i - Len(q) \in 1 .. Len(p)
      BY <1>2, <2>3
    <3>2. t[i] = r[i - Len(q)]
      BY <1>2, <1>3, <2>1, <2>3
    <3>3. s[i] = p[i - Len(q)]
      BY <1>2, <2>3
    <3> QED
      BY <1>1, <1>3, <2>1, <3>1, <3>2, <3>3
  <2> QED
    BY <1>2, <2>2, <2>3
<1>6. t[Len(s) + 1] = f
  <2>1. Len(s) + 1 \in 1 .. Len(q) + (Len(p) + 1) /\ ~(Len(s) + 1 <= Len(q)) /\ Len(s) + 1 - Len(q) = Len(p) + 1
    BY <1>2
  <2>2. t[Len(s) + 1] = r[Len(s) + 1 - Len(q)]
    BY <1>3, <2>1
  <2> QED
    BY <1>1, <2>1, <2>2
<1>7. s \in Seq(Frames) /\ t \in Seq(Frames)
  BY <1>2, <1>3
<1> QED
  BY <1>4, <1>5, <1>6, <1>7 DEF r, s, t

LEMMA StreamIs ==
    ASSUME Calm
    PROVE  /\ Stream \in Seq(Frames) /\ Len(Stream) \in Nat /\ DOMAIN Stream = 1 .. Len(Stream)
           /\ Len(eventChan) \in Nat
           /\ \A i \in DOMAIN Stream : Stream[i] \in Frames
           /\ \A i \in DOMAIN Stream : Stream[i].kind = "event" => Stream[i].call \in Callees
<1>1. eventChan \in Seq(Events) /\ back \in Seq(Frames) /\ calls \in Seq(Calls)
  BY DEF Calm, ExpInv, MatchInv, Held, Connected, Shaped
<1>2. /\ Stream \in Seq(Frames) /\ Len(Stream) = Len(eventChan) + Len(back)
      /\ Len(eventChan) \in Nat /\ Len(back) \in Nat
      /\ DOMAIN Stream = 1 .. Len(eventChan) + Len(back) /\ DOMAIN eventChan = 1 .. Len(eventChan)
      /\ DOMAIN back = 1 .. Len(back)
      /\ \A i \in 1 .. Len(eventChan) + Len(back) :
            Stream[i] = IF i <= Len(eventChan) THEN eventChan[i] ELSE back[i - Len(eventChan)]
  BY <1>1, Joined DEF Stream
<1>3. /\ \A i \in DOMAIN eventChan : eventChan[i].call \in Callees
      /\ \A i \in DOMAIN back : back[i].kind = "event" => back[i].call \in Callees
  BY <1>1 DEF Calm, ExpInv, Known, Callees
<1>4. ASSUME NEW i \in DOMAIN Stream, Stream[i].kind = "event"
      PROVE  Stream[i].call \in Callees
  <2>1. CASE i <= Len(eventChan)
    <3>1. i \in DOMAIN eventChan /\ Stream[i] = eventChan[i]
      BY <1>2, <2>1
    <3> QED
      BY <1>3, <3>1
  <2>2. CASE i > Len(eventChan)
    <3>1. i - Len(eventChan) \in DOMAIN back /\ Stream[i] = back[i - Len(eventChan)]
      BY <1>2, <2>2
    <3> QED
      BY <1>3, <1>4, <3>1
  <2> QED
    BY <1>2, <2>1, <2>2
<1> QED
  BY <1>2, <1>4

LEMMA StreamSteps ==
    ASSUME Calm, Step
    PROVE  \/ Stream' = Stream /\ UNCHANGED calls
           \/ LessOne(Stream', Stream, Len(eventChan) + 1) /\ Stream[Len(eventChan) + 1].kind = "response"
                 /\ UNCHANGED calls
           \/ Takeoff /\ LessOne(Stream', Stream, 1) /\ Stream[1] = Head(eventChan) /\ UNCHANGED calls
           \/ NewCall /\ More(Len(calls) + 1)
           \/ \E n \in Callees : CallMoves(n) /\ More(n)
           \/ Replies /\ More(0)
<1>0. /\ eventChan \in Seq(Events) /\ back \in Seq(Frames) /\ calls \in Seq(Calls) /\ owed \subseteq Responses
      /\ Len(calls) \in Nat /\ DOMAIN calls = 1 .. Len(calls) /\ Callees = 1 .. Len(calls)
  BY NoFault DEF Callees
<1>s. /\ Len(Stream) \in Nat /\ DOMAIN Stream = 1 .. Len(Stream)
      /\ \A i \in DOMAIN Stream : Stream[i].kind = "event" => Stream[i].call \in Callees
  BY StreamIs
<1>f. \A f : Reply(f) => f \in Frames /\ f.kind = "response"
  BY DEF Reply, Responses, Frames
<1>e. \A n \in Nat, type \in {"outgoing", "answered", "closed"} :
         /\ Event(type, n) \in Frames /\ Event(type, n).kind = "event" /\ Event(type, n).call = n
         /\ Event(type, n).type = type
  BY EventIsFrame
\* The call that moves, and the others.
<1>c. ASSUME NEW n \in Callees, NEW s \in {"up", "over"}, calls' = [calls EXCEPT ![n].state = s]
      PROVE  /\ Callees' = Callees /\ calls'[n].state = s
             /\ \A m \in Callees : m # n => calls'[m].state = calls[m].state
  <2>1. calls[n] \in Calls
    BY <1>0
  <2> DEFINE k == [calls[n] EXCEPT !.state = s]
  <2>2. k.state = s /\ calls' = [calls EXCEPT ![n] = k]
    BY <1>c, <2>1 DEF Calls
  <2>3. k \in Calls
    BY <1>c, <2>1 DEF Calls
  <2> HIDE DEF k
  <2>4. Len(calls') = Len(calls) /\ calls'[n] = k /\ \A m \in Callees : m # n => calls'[m] = calls[m]
    BY <1>0, <2>2, <2>3
  <2> QED
    BY <1>0, <2>2, <2>4 DEF Callees
<1>1. CASE NewCall
  <2> DEFINE n == Len(calls) + 1
             f == Event("outgoing", n)
  <2>1. n \in Nat /\ n \notin Callees
    BY <1>0
  <2>2. /\ f \in Frames /\ f.kind = "event" /\ f.call = n /\ f.type = "outgoing"
    BY <1>e, <2>1
  <2>3. back' = Append(back, f) /\ UNCHANGED eventChan /\ calls' = Append(calls, [state |-> "ringing", att |-> Head(wire).arg])
    BY <1>1 DEF NewCall
  <2>4. /\ Callees' = Callees \cup {n} /\ calls'[n].state = "ringing"
        /\ \A m \in Callees : calls'[m] = calls[m]
    <3>1. [state |-> "ringing", att |-> Head(wire).arg] \in Calls
      BY <1>1, CommandKnown DEF Calm, Calls, NewCall
    <3>2. [state |-> "ringing", att |-> Head(wire).arg].state = "ringing"
      OBVIOUS
    <3> QED
      BY <1>0, <2>3, <3>1, <3>2, Longer DEF Callees
  <2> HIDE DEF f
  <2>5. /\ Len(Stream') = Len(Stream) + 1 /\ DOMAIN Stream' = 1 .. Len(Stream) + 1
        /\ \A i \in DOMAIN Stream : i \in DOMAIN Stream' /\ Stream'[i] = Stream[i]
        /\ Stream'[Len(Stream) + 1] = f
    BY <1>0, <2>2, <2>3, OneMore DEF Stream
  <2> HIDE DEF n
  <2>6. DOMAIN Stream' \ DOMAIN Stream = {Len(Stream) + 1}
    BY <1>s, <2>5
  <2>7. ~IsClosing(f, n)
    BY <2>2 DEF IsClosing, IsEvent
  <2>8. More(n)
    BY <2>1, <2>2, <2>4, <2>5, <2>6, <2>7 DEF More
  <2> QED
    BY <1>1, <2>8 DEF n
<1>2. CASE Replies
  <2>1. PICK f : Reply(f) /\ back' = Append(back, f)
    BY <1>2 DEF Replies
  <2>2. UNCHANGED <<calls, eventChan>> /\ f \in Frames /\ f.kind = "response"
    BY <1>2, <1>f, <2>1 DEF Replies
  <2>3. Callees' = Callees /\ 0 \notin Callees
    BY <1>0, <2>2 DEF Callees
  <2>5. /\ Len(Stream') = Len(Stream) + 1 /\ DOMAIN Stream' = 1 .. Len(Stream) + 1
        /\ \A i \in DOMAIN Stream : i \in DOMAIN Stream' /\ Stream'[i] = Stream[i]
        /\ Stream'[Len(Stream) + 1] = f
    BY <1>0, <2>1, <2>2, OneMore DEF Stream
  <2>6. DOMAIN Stream' \ DOMAIN Stream = {Len(Stream) + 1}
    BY <1>s, <2>5
  <2>7. ~IsClosing(f, 0)
    BY <2>2 DEF IsClosing, IsEvent
  <2>8. More(0)
    BY <2>2, <2>3, <2>5, <2>6, <2>7 DEF More
  <2> QED
    BY <1>2, <2>8
<1>3. ASSUME NEW n \in Callees, CallMoves(n)
      PROVE  More(n)
  <2>1. n \in Nat /\ calls[n].state # "over" /\ UNCHANGED eventChan
    BY <1>0, <1>3 DEF CallMoves
  <2> DEFINE a == Event("answered", n)
             d == Event("closed", n)
  <2>2. /\ a \in Frames /\ a.kind = "event" /\ a.call = n /\ a.type = "answered"
        /\ d \in Frames /\ d.kind = "event" /\ d.call = n /\ d.type = "closed"
    BY <1>e, <2>1
  <2>3. ~IsClosing(a, n) /\ IsClosing(d, n) /\ \A f : Reply(f) => ~IsClosing(f, n) /\ ~IsEvent(f, n)
    BY <1>f, <2>2 DEF IsClosing, IsEvent
  <2>4. ASSUME NEW f \in Frames, NEW s \in {"up", "over"}, calls' = [calls EXCEPT ![n].state = s],
               back' = Append(back, f), f.kind = "event" => f.call = n,
               IsClosing(f, n) <=> s = "over"
        PROVE  More(n)
    <3>1. /\ Len(Stream') = Len(Stream) + 1 /\ DOMAIN Stream' = 1 .. Len(Stream) + 1
          /\ \A i \in DOMAIN Stream : i \in DOMAIN Stream' /\ Stream'[i] = Stream[i]
          /\ Stream'[Len(Stream) + 1] = f
      BY <1>0, <2>1, <2>4, OneMore DEF Stream
    <3>2. DOMAIN Stream' \ DOMAIN Stream = {Len(Stream) + 1}
      BY <1>s, <3>1
    <3>3. /\ Callees' = Callees /\ calls'[n].state = s
          /\ \A m \in Callees : m # n => calls'[m].state = calls[m].state
      BY <1>c, <2>4
    <3>4. \A j \in DOMAIN Stream' : ~(Len(Stream) + 1 < j)
      BY <1>s, <3>1
    <3> QED
      BY <2>1, <2>4, <3>1, <3>2, <3>3, <3>4 DEF More
  <2>5. ASSUME NEW f \in Frames, NEW g \in Frames, NEW s \in {"up", "over"}, calls' = [calls EXCEPT ![n].state = s],
               back' = Append(Append(back, f), g),
               f.kind = "event" => f.call = n, g.kind = "event" => g.call = n,
               (IsClosing(f, n) \/ IsClosing(g, n)) <=> s = "over",
               ~(IsClosing(f, n) /\ IsEvent(g, n))
        PROVE  More(n)
    <3> DEFINE r == Append(back, f)
               t == eventChan \o r
    <3>1. /\ r \in Seq(Frames) /\ Len(t) = Len(Stream) + 1 /\ DOMAIN t = 1 .. Len(Stream) + 1
          /\ \A i \in DOMAIN Stream : i \in DOMAIN t /\ t[i] = Stream[i]
          /\ t[Len(Stream) + 1] = f
      BY <1>0, OneMore DEF Stream
    <3> HIDE DEF r
    <3>2. back' = Append(r, g) /\ eventChan' = eventChan
      BY <2>1, <2>5 DEF r
    <3>3. /\ Len(Stream') = Len(t) + 1 /\ DOMAIN Stream' = 1 .. Len(t) + 1
          /\ \A i \in DOMAIN t : i \in DOMAIN Stream' /\ Stream'[i] = t[i]
          /\ Stream'[Len(t) + 1] = g
      <4>1. Stream' = eventChan \o Append(r, g)
        BY <3>2 DEF Stream
      <4> DEFINE u == eventChan \o Append(r, g)
      <4>2. /\ Len(u) = Len(t) + 1 /\ DOMAIN u = 1 .. Len(t) + 1
            /\ \A i \in DOMAIN t : i \in DOMAIN u /\ u[i] = t[i]
            /\ u[Len(t) + 1] = g
        BY SMTT(30), <1>0, <3>1, <2>5, OneMore
      <4>3. Stream' = u
        BY <4>1
      <4> HIDE DEF t, u
      <4> QED
        BY <4>2, <4>3
    <3> HIDE DEF t
    <3> DEFINE k == Len(Stream)
    <3>4. /\ k \in Nat /\ DOMAIN Stream' = 1 .. k + 2 /\ DOMAIN Stream = 1 .. k
          /\ \A i \in DOMAIN Stream : i \in DOMAIN Stream' /\ Stream'[i] = Stream[i]
      BY <1>s, <3>1, <3>3
    <3>5. Stream'[k + 1] = f /\ Stream'[k + 2] = g
      <4>1. k + 1 \in DOMAIN t /\ Len(t) + 1 = k + 2
        BY <3>1, <3>4
      <4> QED
        BY <3>1, <3>3, <4>1
    <3>6. /\ Callees' = Callees /\ calls'[n].state = s
          /\ \A m \in Callees : m # n => calls'[m].state = calls[m].state
      BY <1>c, <2>5
    <3> HIDE DEF k
    <3>7. /\ \A i \in DOMAIN Stream' \ DOMAIN Stream : i \in {k + 1, k + 2}
          /\ k + 1 \in DOMAIN Stream' /\ k + 2 \in DOMAIN Stream'
          /\ \A j \in DOMAIN Stream' : ~(k + 2 < j) /\ (k + 1 < j => j = k + 2)
      BY <3>4
    <3>8. /\ \A i \in {k + 1, k + 2} : Stream'[i].kind = "event" => Stream'[i].call = n
          /\ \A i \in {k + 1, k + 2} : IsClosing(Stream'[i], n) => s = "over"
          /\ s = "over" => IsClosing(Stream'[k + 1], n) \/ IsClosing(Stream'[k + 2], n)
      BY <2>5, <3>5
    <3>9. \A i \in {k + 1, k + 2}, j \in DOMAIN Stream' : i < j /\ IsClosing(Stream'[i], n) => ~IsEvent(Stream'[j], n)
      BY <2>5, <3>5, <3>7
    <3> QED
      BY <2>1, <3>4, <3>6, <3>7, <3>8, <3>9 DEF More
  <2> HIDE DEF a, d
  <2>6. \/ calls' = [calls EXCEPT ![n].state = "up"] /\ (back' = Append(back, a) \/ back' = Append(Append(back, a), a))
        \/ /\ calls' = [calls EXCEPT ![n].state = "over"]
           /\ \/ back' = Append(back, d)
              \/ \E f : /\ Reply(f)
                        /\ back' = Append(Append(back, d), f) \/ back' = Append(Append(back, f), d)
    BY <1>3 DEF CallMoves, a, d
  <2>7. CASE calls' = [calls EXCEPT ![n].state = "up"] /\ back' = Append(back, a)
    BY <2>2, <2>3, <2>4, <2>7
  <2>8. CASE calls' = [calls EXCEPT ![n].state = "up"] /\ back' = Append(Append(back, a), a)
    BY <2>2, <2>3, <2>5, <2>8
  <2>9. CASE calls' = [calls EXCEPT ![n].state = "over"] /\ back' = Append(back, d)
    BY <2>2, <2>3, <2>4, <2>9
  <2>10. ASSUME NEW f, Reply(f), calls' = [calls EXCEPT ![n].state = "over"], back' = Append(Append(back, d), f)
         PROVE  More(n)
    BY <1>f, <2>2, <2>3, <2>5, <2>10
  <2>11. ASSUME NEW f, Reply(f), calls' = [calls EXCEPT ![n].state = "over"], back' = Append(Append(back, f), d)
         PROVE  More(n)
    BY <1>f, <2>2, <2>3, <2>5, <2>11
  <2> QED
    BY <2>6, <2>7, <2>8, <2>9, <2>10, <2>11
<1>4. CASE Client
  <2>1. CASE ReadsResponse
    <3>1. back # <<>> /\ back' = Tail(back) /\ Head(back).kind = "response" /\ UNCHANGED <<calls, eventChan>>
      BY <2>1 DEF ReadsResponse, Routes
    <3> QED
      BY <1>0, <3>1, TakenOff DEF Stream
  <2>2. CASE ReadsEvent
    BY <1>0, <2>2, MovedOn DEF ReadsEvent, Stream
  <2>3. ASSUME NEW c \in Callers, WritesTo(c) \/ Takes(c)
        PROVE  Stream' = Stream /\ UNCHANGED calls
    BY <2>3 DEF WritesTo, Takes, Stream
  <2> QED
    BY <1>4, <2>1, <2>2, <2>3, ClientSteps
<1>5. CASE Run \/ Loop \/ \E a \in Attempts : ODA(a)
  <2>1. UNCHANGED <<calls, back>> /\ (eventChan' = eventChan \/ Takeoff)
    BY <1>5, ProgramSteps
  <2>2. CASE Takeoff
    <3>1. eventChan # <<>> /\ eventChan' = Tail(eventChan)
      BY <2>2 DEF Takeoff
    <3> QED
      BY <1>0, <2>1, <2>2, <3>1, TakenOff DEF Stream
  <2> QED
    BY <2>1, <2>2 DEF Stream
<1> QED
  BY <1>1, <1>2, <1>3, <1>4, <1>5, QuietNext, BaresipSteps

LEMMA LessFacts ==
    ASSUME NEW s \in Seq(Frames), NEW t \in Seq(Frames), NEW p, LessOne(t, s, p)
    PROVE  /\ \A i, j \in DOMAIN t : i < j =>
                 \E k, l \in DOMAIN s : k < l /\ t[i] = s[k] /\ t[j] = s[l]
           /\ \A i \in DOMAIN t : \E k \in DOMAIN s : t[i] = s[k] /\ (p = 1 => 1 < k)
           /\ \A k \in DOMAIN s : k # p => \E i \in DOMAIN t : t[i] = s[k]
<1>0. /\ Len(s) \in Nat /\ Len(t) \in Nat /\ DOMAIN s = 1 .. Len(s) /\ DOMAIN t = 1 .. Len(t)
  BY LenProperties
<1>1. /\ p \in 1 .. Len(s) /\ Len(t) = Len(s) - 1
      /\ \A i \in DOMAIN t : t[i] = s[IF i < p THEN i ELSE i + 1]
  BY <1>0 DEF LessOne
<1> DEFINE At(i) == IF i < p THEN i ELSE i + 1
<1>2. \A i \in DOMAIN t : /\ At(i) \in DOMAIN s /\ t[i] = s[At(i)] /\ (p = 1 => 1 < At(i))
  BY <1>0, <1>1
<1>3. \A i, j \in DOMAIN t : i < j => At(i) < At(j)
  BY <1>0, <1>1
<1>4. \A k \in DOMAIN s : k # p => \E i \in DOMAIN t : At(i) = k
  <2> SUFFICES ASSUME NEW k \in DOMAIN s, k # p
               PROVE  \E i \in DOMAIN t : At(i) = k
    OBVIOUS
  <2>1. CASE k < p
    <3>1. k \in DOMAIN t /\ At(k) = k
      BY <1>0, <1>1, <2>1
    <3> QED
      BY <3>1
  <2>2. CASE k > p
    <3>1. k - 1 \in DOMAIN t /\ At(k - 1) = k
      BY <1>0, <1>1, <2>2
    <3> QED
      BY <3>1
  <2> QED
    BY <1>0, <1>1, <2>1, <2>2
<1> HIDE DEF At
<1> QED
  BY <1>2, <1>3, <1>4

\* ClosingLast, and when a closing stays to be handled.
Closings ==
    /\ ClosingLast'
    /\ Callees \subseteq Callees'
    /\ \A m \in Callees : ToClose(m)' => ToClose(m)
    /\ \A m \in Callees : ToClose(m) => ToClose(m)' \/ (Takeoff /\ IsClosing(Head(eventChan), m))
    /\ \A m \in Callees' \ Callees : ToClose(m)'

LEMMA MoreCloses == ASSUME Calm, NEW n, More(n) PROVE Closings
<1>0. /\ \A m \in Callees : \A i, j \in DOMAIN Stream :
             i < j /\ IsClosing(Stream[i], m) => ~IsEvent(Stream[j], m)
      /\ \A m \in Callees : calls[m].state # "over" => ~Closing(m)
      /\ \A m \in Callees : \A i \in DOMAIN Stream : IsEvent(Stream[i], m) => ToClose(m)
  BY DEF Calm, QuietInv, ClosingLast
<1>s. \A i \in DOMAIN Stream : \A m : IsEvent(Stream[i], m) => m \in Callees
  BY StreamIs DEF IsEvent
<1>m. /\ n \in Callees => calls[n].state # "over"
      /\ \A i \in DOMAIN Stream : i \in DOMAIN Stream' /\ Stream'[i] = Stream[i]
      /\ \A i \in DOMAIN Stream' \ DOMAIN Stream : IsClosing(Stream'[i], n) => calls'[n].state = "over"
      /\ \A i \in DOMAIN Stream' \ DOMAIN Stream : \A j \in DOMAIN Stream' :
            i < j /\ IsClosing(Stream'[i], n) => ~IsEvent(Stream'[j], n)
      /\ \A m \in Callees : m \in Callees' /\ (m # n => calls'[m].state = calls[m].state)
      /\ n \in Callees' /\ calls'[n].state = "over" => \E i \in DOMAIN Stream' : IsClosing(Stream'[i], n)
      /\ Callees' \subseteq Callees \cup {n}
  BY DEF More
<1>n. \A i \in DOMAIN Stream' \ DOMAIN Stream : \A m : IsEvent(Stream'[i], m) => m = n
  BY DEF More, IsEvent
<1>c. \A f, m : IsClosing(f, m) => IsEvent(f, m)
  BY DEF IsClosing
\* The call n is to be closed, the others as before.
<1>1. n \in Callees' => ToClose(n)'
  BY <1>m DEF ToClose, Closing
<1>2. ASSUME NEW m \in Callees, m # n
      PROVE  ToClose(m)' <=> ToClose(m)
  <2>1. Closing(m) => Closing(m)'
    BY <1>m DEF Closing
  <2>2. Closing(m)' => Closing(m)
    <3> SUFFICES ASSUME NEW i \in DOMAIN Stream', IsClosing(Stream'[i], m)
                 PROVE  Closing(m)
      BY DEF Closing
    <3>1. i \in DOMAIN Stream
      BY <1>2, <1>n, <1>c
    <3> QED
      BY <1>m, <3>1 DEF Closing
  <2>3. calls'[m].state = calls[m].state
    BY <1>m, <1>2
  <2> QED
    BY <2>1, <2>2, <2>3 DEF ToClose
<1>3. n \in Callees => ToClose(n)
  BY <1>m DEF ToClose
<1>4. ASSUME NEW m \in Callees', NEW i \in DOMAIN Stream', NEW j \in DOMAIN Stream',
             i < j, IsClosing(Stream'[i], m)
      PROVE  ~IsEvent(Stream'[j], m)
  <2>1. CASE i \notin DOMAIN Stream
    BY <1>4, <1>m, <1>n, <1>c, <2>1
  <2>2. CASE i \in DOMAIN Stream
    <3>1. Stream'[i] = Stream[i] /\ m \in Callees
      BY <1>4, <1>m, <1>s, <1>c, <2>2
    <3>2. CASE j \in DOMAIN Stream
      BY <1>0, <1>4, <1>m, <2>2, <3>1, <3>2
    <3>3. CASE j \notin DOMAIN Stream
      <4>1. Closing(m)
        BY <1>4, <2>2, <3>1 DEF Closing
      <4>2. m # n
        BY <1>0, <1>m, <3>1, <4>1
      <4> QED
        BY <1>n, <3>3, <4>2
    <3> QED
      BY <3>2, <3>3
  <2> QED
    BY <2>1, <2>2
<1>5. ASSUME NEW m \in Callees', calls'[m].state # "over"
      PROVE  ~Closing(m)'
  <2> SUFFICES ASSUME NEW i \in DOMAIN Stream', IsClosing(Stream'[i], m)
               PROVE  FALSE
    BY DEF Closing
  <2>1. i \in DOMAIN Stream
    BY <1>5, <1>m, <1>n, <1>c
  <2>2. m \in Callees /\ Closing(m)
    BY <1>m, <1>s, <1>c, <2>1 DEF Closing
  <2>3. calls[m].state # "over"
    BY <1>5, <1>m, <2>2
  <2> QED
    BY <1>0, <2>2, <2>3
<1>6. ASSUME NEW m \in Callees', NEW i \in DOMAIN Stream', IsEvent(Stream'[i], m)
      PROVE  ToClose(m)'
  <2>1. CASE m = n
    BY <1>1, <2>1
  <2>2. CASE m # n
    <3>1. i \in DOMAIN Stream
      BY <1>6, <1>n, <2>2
    <3>2. m \in Callees /\ ToClose(m)
      BY <1>0, <1>6, <1>m, <1>s, <3>1
    <3> QED
      BY <1>2, <2>2, <3>2
  <2> QED
    BY <2>1, <2>2
<1>7. ClosingLast'
  BY <1>4, <1>5, <1>6 DEF ClosingLast
<1>8. /\ Callees \subseteq Callees' /\ \A m \in Callees' \ Callees : ToClose(m)'
  BY <1>1, <1>m
<1>9. \A m \in Callees : ToClose(m)' <=> ToClose(m)
  <2> TAKE m \in Callees
  <2>1. CASE m = n
    BY <1>1, <1>3, <1>m, <2>1
  <2> QED
    BY <1>2, <2>1
<1> QED
  BY <1>7, <1>8, <1>9 DEF Closings

LEMMA LessCloses ==
    ASSUME Calm, Stream' \in Seq(Frames), NEW p, LessOne(Stream', Stream, p), UNCHANGED calls,
           \/ Stream[p].kind = "response"
           \/ p = 1 /\ Takeoff /\ Stream[1] = Head(eventChan)
    PROVE  Closings
<1>0. /\ \A m \in Callees : \A i, j \in DOMAIN Stream :
             i < j /\ IsClosing(Stream[i], m) => ~IsEvent(Stream[j], m)
      /\ \A m \in Callees : calls[m].state # "over" => ~Closing(m)
      /\ \A m \in Callees : \A i \in DOMAIN Stream : IsEvent(Stream[i], m) => ToClose(m)
  BY DEF Calm, QuietInv, ClosingLast
<1>s. /\ \A i, j \in DOMAIN Stream' : i < j =>
            \E k, l \in DOMAIN Stream : k < l /\ Stream'[i] = Stream[k] /\ Stream'[j] = Stream[l]
      /\ \A i \in DOMAIN Stream' : \E k \in DOMAIN Stream : Stream'[i] = Stream[k] /\ (p = 1 => 1 < k)
      /\ \A k \in DOMAIN Stream : k # p => \E i \in DOMAIN Stream' : Stream'[i] = Stream[k]
  <2> DEFINE s == Stream
             t == Stream'
  <2>1. s \in Seq(Frames) /\ t \in Seq(Frames) /\ LessOne(t, s, p)
    BY StreamIs
  <2> HIDE DEF s, t
  <2>2. /\ \A i, j \in DOMAIN t : i < j => \E k, l \in DOMAIN s : k < l /\ t[i] = s[k] /\ t[j] = s[l]
        /\ \A i \in DOMAIN t : \E k \in DOMAIN s : t[i] = s[k] /\ (p = 1 => 1 < k)
        /\ \A k \in DOMAIN s : k # p => \E i \in DOMAIN t : t[i] = s[k]
    BY <2>1, LessFacts
  <2> QED
    BY <2>2 DEF s, t
<1>p. p \in DOMAIN Stream
  BY DEF LessOne
<1>c. Callees' = Callees /\ \A m : calls'[m].state = calls[m].state
  BY DEF Callees
<1>e. \A f, m : IsClosing(f, m) => IsEvent(f, m) /\ f.kind = "event"
  BY DEF IsClosing, IsEvent
<1>1. \A m : Closing(m)' => Closing(m)
  BY <1>s DEF Closing
<1>2. ASSUME NEW m, Closing(m), ~Closing(m)'
      PROVE  p = 1 /\ Takeoff /\ IsClosing(Head(eventChan), m) /\ IsClosing(Stream[1], m)
  <2>1. PICK k \in DOMAIN Stream : IsClosing(Stream[k], m)
    BY <1>2 DEF Closing
  <2>2. k = p
    BY <1>2, <1>s, <2>1 DEF Closing
  <2>3. Stream[p].kind # "response"
    BY <1>e, <2>1, <2>2
  <2> QED
    BY <2>1, <2>2, <2>3
<1>3. \A m \in Callees : ToClose(m)' => ToClose(m)
  BY <1>1, <1>c DEF ToClose
<1>4. \A m \in Callees : ToClose(m) => ToClose(m)' \/ (Takeoff /\ IsClosing(Head(eventChan), m))
  BY <1>2, <1>c DEF ToClose
<1>5. ASSUME NEW m \in Callees, NEW i \in DOMAIN Stream', NEW j \in DOMAIN Stream',
             i < j, IsClosing(Stream'[i], m)
      PROVE  ~IsEvent(Stream'[j], m)
  BY <1>0, <1>5, <1>s
<1>6. ASSUME NEW m \in Callees, NEW i \in DOMAIN Stream', IsEvent(Stream'[i], m)
      PROVE  ToClose(m)'
  <2>1. PICK k \in DOMAIN Stream : Stream'[i] = Stream[k] /\ (p = 1 => 1 < k)
    BY <1>s
  <2>2. ToClose(m)
    BY <1>0, <1>6, <2>1
  <2>3. CASE Closing(m) /\ ~Closing(m)'
    BY <1>0, <1>2, <1>6, <1>p, <2>1, <2>3
  <2> QED
    BY <1>c, <2>2, <2>3 DEF ToClose
<1>7. ClosingLast'
  BY <1>0, <1>1, <1>5, <1>6, <1>c DEF ClosingLast
<1> QED
  BY <1>3, <1>4, <1>7, <1>c DEF Closings

LEMMA CloseSteps ==
    ASSUME Calm, Step
    PROVE  /\ Closings
           /\ Takeoff => OnOutgoing \/ OnAnswered \/ OnClosed
           /\ \A n \in Callees : OnClosed /\ n = Head(eventChan).call => ~ToClose(n)'
<1>0. /\ eventChan \in Seq(Events) /\ back \in Seq(Frames) /\ eventChan' \in Seq(Events) /\ back' \in Seq(Frames)
  <2>1. ExpInv'
    BY StepExp DEF Calm, Step
  <2> QED
    BY <2>1 DEF Calm, ExpInv, MatchInv, Held, Connected
<1>s. Stream' \in Seq(Frames)
  BY <1>0, Joined DEF Stream
<1>1. ASSUME Stream' = Stream /\ UNCHANGED calls
      PROVE  Closings
  <2>1. Callees' = Callees /\ \A m : ToClose(m)' <=> ToClose(m)
    BY <1>1 DEF Callees, ToClose, Closing
  <2>2. ClosingLast'
    <3>1. ClosingLast /\ \A m : Closing(m)' <=> Closing(m)
      BY <1>1 DEF Calm, QuietInv, Closing
    <3> QED
      BY <1>1, <2>1, <3>1 DEF ClosingLast
  <2> QED
    <3>1. \A m \in Callees : ToClose(m)' <=> ToClose(m)
      BY <2>1
    <3>2. Callees \subseteq Callees' /\ \A m \in Callees' \ Callees : ToClose(m)'
      BY <2>1
    <3> QED
      BY <2>2, <3>1, <3>2 DEF Closings
<1>2. ASSUME LessOne(Stream', Stream, Len(eventChan) + 1) /\ Stream[Len(eventChan) + 1].kind = "response" /\ UNCHANGED calls
      PROVE  Closings
  <2> DEFINE p == Len(eventChan) + 1
  <2>1. LessOne(Stream', Stream, p) /\ Stream[p].kind = "response" /\ UNCHANGED calls
    BY <1>2
  <2> HIDE DEF p
  <2>2. Stream[p].kind = "response" \/ (p = 1 /\ Takeoff /\ Stream[1] = Head(eventChan))
    BY <2>1
  <2> QED
    BY <1>s, <2>1, <2>2, LessCloses
<1>3. ASSUME Takeoff /\ LessOne(Stream', Stream, 1) /\ Stream[1] = Head(eventChan) /\ UNCHANGED calls
      PROVE  Closings
  <2> DEFINE p == 1
  <2>1. LessOne(Stream', Stream, p) /\ p = 1 /\ Takeoff /\ Stream[1] = Head(eventChan) /\ UNCHANGED calls
    BY <1>3
  <2> HIDE DEF p
  <2>2. Stream[p].kind = "response" \/ (p = 1 /\ Takeoff /\ Stream[1] = Head(eventChan))
    BY <2>1
  <2> QED
    BY <1>s, <2>1, <2>2, LessCloses
<1>4. Closings
  BY <1>1, <1>2, <1>3, StreamSteps, MoreCloses
<1>5. Takeoff => OnOutgoing \/ OnAnswered \/ OnClosed
  <2> SUFFICES ASSUME Takeoff
               PROVE  OnOutgoing \/ OnAnswered \/ OnClosed
    OBVIOUS
  <2>1. eventChan' # eventChan /\ Len(eventChan') = Len(eventChan) - 1 /\ Len(eventChan) \in Nat
    BY <1>0 DEF Takeoff
  <2>2. Loop
    <3>1. ASSUME Baresip \/ Callee
          PROVE  FALSE
      BY <2>1, <3>1, BaresipSteps DEF NewCall, CallMoves, Replies
    <3>2. ASSUME Client
          PROVE  FALSE
      <4>1. CASE ReadsEvent
        <5>1. eventChan' = Append(eventChan, Head(back)) /\ Head(back) \in Events
          BY <4>1 DEF ReadsEvent
        <5>2. Len(eventChan') = Len(eventChan) + 1
          BY <1>0, <5>1
        <5> QED
          BY <2>1, <5>2
      <4> QED
        BY <2>1, <3>2, <4>1, ClientSteps DEF ReadsResponse, WritesTo, Takes
    <3> QED
      BY <2>1, <3>1, <3>2, QuietNext, ProgramSteps
  <2> QED
    BY <2>1, <2>2 DEF Loop, LoopEmits, LoopMarks, LoopAsks, CleansUp, TakesError, LoopEnds
<1>6. ASSUME NEW n \in Callees, OnClosed, n = Head(eventChan).call
      PROVE  ~ToClose(n)'
  <2>1. /\ Head(eventChan) \in Events /\ Head(eventChan).type = "closed"
        /\ eventChan # <<>> /\ eventChan' = Tail(eventChan) /\ UNCHANGED <<back, calls>>
    <3>1. NextEvent("closed")
      BY <1>6 DEF OnClosed
    <3>2. UNCHANGED <<back, calls>>
      BY <1>6, LoopTakes
    <3>3. calls \in Seq(Calls)
      BY NoFault
    <3>4. Head(eventChan) \in Events
      BY <3>1, TakesEvent DEF Calm
    <3>5. eventChan # <<>> /\ eventChan' = Tail(eventChan) /\ Head(eventChan).type = "closed"
      BY <3>1 DEF NextEvent
    <3> QED
      BY <3>2, <3>3, <3>4, <3>5 DEF Callees
  <2>2. LessOne(Stream', Stream, 1) /\ Stream[1] = Head(eventChan)
    BY <1>0, <2>1, TakenOff DEF Stream
  <2>3. IsClosing(Stream[1], n) /\ 1 \in DOMAIN Stream
    BY <1>6, <2>1, <2>2 DEF IsClosing, IsEvent, Events, LessOne
  <2>4. /\ \A i, j \in DOMAIN Stream : i < j /\ IsClosing(Stream[i], n) => ~IsEvent(Stream[j], n)
        /\ calls[n].state # "over" => ~Closing(n)
    BY <2>1 DEF Calm, QuietInv, ClosingLast
  <2>5. calls'[n].state = "over"
    BY <2>1, <2>3, <2>4 DEF Closing
  <2>6. ~Closing(n)'
    <3> SUFFICES ASSUME NEW i \in DOMAIN Stream', IsClosing(Stream'[i], n)
                 PROVE  FALSE
      BY DEF Closing
    <3>1. PICK k \in DOMAIN Stream : Stream'[i] = Stream[k] /\ 1 < k
      <4> DEFINE s == Stream
                 t == Stream'
      <4>1. s \in Seq(Frames) /\ t \in Seq(Frames) /\ LessOne(t, s, 1)
        BY <1>s, <2>2, StreamIs
      <4> HIDE DEF s, t
      <4>2. \A j \in DOMAIN t : \E k \in DOMAIN s : t[j] = s[k] /\ 1 < k
        BY <4>1, LessFacts
      <4> QED
        BY <4>2 DEF s, t
    <3> QED
      BY <2>3, <2>4, <3>1 DEF IsClosing
  <2> QED
    BY <2>5, <2>6 DEF ToClose
<1> QED
  BY <1>4, <1>5, <1>6
-----------------------------------------------------------------------------
(* Whose call it is. *)

LEMMA CallsAre ==
    ASSUME Calm
    PROVE  /\ Callees = DOMAIN calls /\ \A n \in Callees : n \in Nat /\ n # 0 /\ n <= Len(calls)
           /\ \A n \in Nat : n # 0 /\ n <= Len(calls) => n \in Callees
           /\ \A n \in Callees : calls[n].att \in Attempts
           /\ Len(calls) \in Nat
<1>1. calls \in Seq(Calls)
  BY NoFault DEF Calm, ExpInv, Shaped
<1>2. Len(calls) \in Nat /\ DOMAIN calls = 1 .. Len(calls) /\ \A n \in 1 .. Len(calls) : calls[n] \in Calls
  BY <1>1
<1> QED
  BY <1>2 DEF Callees, Calls

\* The event the loop takes is of a call whose closing is to come.
LEMMA EventToClose ==
    ASSUME Calm, NEW type, NextEvent(type)
    PROVE  Head(eventChan).call \in Callees /\ ToClose(Head(eventChan).call)
<1> DEFINE n == Head(eventChan).call
<1>1. n \in Callees /\ Head(eventChan) \in Events /\ eventChan # <<>>
  BY TakesEvent, CallsAre DEF Calm, NextEvent
<1>2. eventChan \in Seq(Events) /\ back \in Seq(Frames)
  BY DEF Calm, ExpInv, MatchInv, Held, Connected
<1>3. Stream[1] = Head(eventChan) /\ 1 \in DOMAIN Stream
  BY <1>1, <1>2, TakenOff DEF Stream, LessOne
<1>4. IsEvent(Stream[1], n)
  BY <1>1, <1>3 DEF IsEvent, Events
<1> QED
  BY <1>1, <1>3, <1>4 DEF Calm, QuietInv, ClosingLast

\* Such a call finds the attempt that dialled it, and no other.
LEMMA FoundIs ==
    ASSUME Calm, NEW n \in Callees, ToClose(n)
    PROVE  Found(n) = {calls[n].att} /\ att[calls[n].att].reg
<1> DEFINE o == calls[n].att
<1>1. o \in Attempts /\ n \in Nat /\ n # 0
  BY CallsAre
<1>2. /\ att[o].reg
      /\ \A m \in Callees : calls[m].att = o => m = n
      /\ \A a \in Attempts : att[a].call # 0 => calls[att[a].call].att = a
  BY DEF Calm, QuietInv, Owner
<1>3. \A a \in Attempts : att[a].reg /\ att[a].call = 0 => a = runner.att
  BY DEF Calm, OneOpen
<1>c. \A a \in Attempts : att[a].call # 0 => att[a].call \in Callees
  <2>1. \A a \in Attempts : att[a].call \in Nat /\ att[a].call <= Len(calls)
    BY DEF Calm, ExpInv, Shaped, Sessions, Known
  <2> QED
    BY <2>1, CallsAre
<1> HIDE DEF o
<1>4. Of(n) \subseteq {o}
  <2> SUFFICES ASSUME NEW a \in Attempts, att[a].reg, att[a].call = n
               PROVE  a = o
    BY DEF Of
  <2> QED
    BY <1>1, <1>2 DEF o
<1>5. CASE Of(n) # {}
  BY <1>2, <1>4, <1>5 DEF Found, o
<1>6. CASE Of(n) = {}
  <2>1. att[o].call = 0
    <3> SUFFICES ASSUME att[o].call # 0
                 PROVE  FALSE
      OBVIOUS
    <3>1. att[o].call \in Callees /\ calls[att[o].call].att = o
      BY <1>1, <1>2, <1>c
    <3>2. att[o].call = n
      BY <1>2, <3>1
    <3> QED
      BY <1>1, <1>2, <1>6, <3>2 DEF Of
  <2>2. o \in Waiting
    BY <1>1, <1>2, <2>1 DEF Waiting
  <2>3. \A a \in Waiting : a = runner.att
    BY <1>3 DEF Waiting
  <2>4. Waiting = {o}
    BY <2>2, <2>3
  <2>5. o <= o
    BY <1>1, AttemptsAreNumbers
  <2>6. Found(n) = {o}
    BY <1>6, <2>4, <2>5 DEF Found
  <2> QED
    BY <1>2, <2>6 DEF o
<1> QED
  BY <1>5, <1>6

\* Calls stay, and only a dial makes one: of the newest attempt, which has none.
LEMMA CallsOf ==
    ASSUME Calm, Step
    PROVE  /\ \A n \in Callees : n \in Callees' /\ calls'[n].att = calls[n].att
           /\ \A a : Called(a) => Called(a)'
           /\ \/ Callees' = Callees
              \/ /\ NewCall /\ Uncalled /\ Head(wire).arg = runner.att /\ runner.pc = "dial"
                 /\ cmd["runner"].pc = "wait"
                 /\ Callees' = Callees \cup {Len(calls) + 1}
                 /\ Len(calls) + 1 \notin Callees /\ calls'[Len(calls) + 1].att = runner.att
<1>0. calls \in Seq(Calls) /\ calls' \in Seq(Calls)
  BY CallSteps DEF Calm, Step, ExpInv, Shaped
<1>1. \A n \in Callees : n \in Callees' /\ calls'[n].att = calls[n].att
  BY <1>0, CallSteps DEF Calm, Step, Callees
<1>2. \A a : Called(a) => Called(a)'
  BY <1>1 DEF Called
<1>3. ASSUME NewCall
      PROVE  /\ Uncalled /\ Head(wire).arg = runner.att /\ runner.pc = "dial" /\ cmd["runner"].pc = "wait"
             /\ Callees' = Callees \cup {Len(calls) + 1}
             /\ Len(calls) + 1 \notin Callees /\ calls'[Len(calls) + 1].att = runner.att
  <2>1. HandleCommand /\ Head(wire).op = "dial" /\ calls' = Append(calls, [state |-> "ringing", att |-> Head(wire).arg])
    BY <1>3 DEF NewCall
  <2>2. Head(wire) = wire[1] /\ 1 \in DOMAIN wire
    BY <2>1, CommandKnown DEF Calm
  <2>3. Uncalled /\ Head(wire).arg = runner.att /\ runner.pc = "dial" /\ cmd["runner"].pc = "wait"
    BY <2>1, <2>2 DEF Calm, QuietInv, OneDial
  <2>4. [state |-> "ringing", att |-> Head(wire).arg] \in Calls
    BY <2>3 DEF Uncalled, Calls
  <2>5. [state |-> "ringing", att |-> Head(wire).arg].att = Head(wire).arg
    OBVIOUS
  <2> DEFINE k == [state |-> "ringing", att |-> Head(wire).arg]
  <2> HIDE DEF k
  <2>6. /\ Len(calls') = Len(calls) + 1 /\ calls'[Len(calls) + 1] = k /\ Len(calls) \in Nat
    BY <1>0, <2>1, <2>4 DEF k
  <2> QED
    BY <2>3, <2>5, <2>6 DEF Callees, k
<1>4. CASE Stream' = Stream /\ UNCHANGED calls
  BY <1>1, <1>2, <1>4 DEF Callees
<1>5. ASSUME NEW n \in Callees, CallMoves(n)
      PROVE  Callees' = Callees
  <2>1. Len(calls') = Len(calls)
    BY <1>0, <1>5 DEF CallMoves
  <2> QED
    BY <2>1 DEF Callees
<1>6. UNCHANGED calls => Callees' = Callees
  BY DEF Callees
<1>7. Replies => UNCHANGED calls
  BY DEF Replies
<1> QED
  BY <1>1, <1>2, <1>3, <1>5, <1>6, <1>7, StreamSteps
-----------------------------------------------------------------------------
(* The owner of a call. *)

LEMMA DialSucceeds ==
    ASSUME Calm, runner.pc = "dialled"
    PROVE  cmd["runner"].result = "ok" /\ Called(runner.att)
BY DEF Calm, ExpInv, Commanded, Dialling, QuietInv, DialAnswered

\* An attempt is removed by the loop only, and gets a call only if it dialled it.
LEMMA AttMoves ==
    ASSUME Calm, Step, NEW a \in Attempts
    PROVE  /\ att[a].reg => att'[a].reg \/ (CleansUp /\ a = loop.att)
           /\ att'[a].call = att[a].call \/ \E n \in Callees : calls[n].att = a /\ att'[a].call = n
<1>0. ExpInv /\ Next /\ att[a] \in Sessions
  BY DEF Calm, Step, ExpInv, Shaped
<1> DEFINE Goal == /\ att[a].reg => att'[a].reg \/ (CleansUp /\ a = loop.att)
                   /\ att'[a].call = att[a].call \/ \E n \in Callees : calls[n].att = a /\ att'[a].call = n
<1>1. CASE att' = att
  BY <1>1
\* An action that leaves the registration and the call of its attempt alone.
<1>2. ASSUME NEW b, NEW s, AttStep(b, s), a = b => s.call = att[a].call, 
             a = b /\ att[a].reg => s.reg \/ (CleansUp /\ a = loop.att)
      PROVE  Goal
  BY <1>2 DEF AttStep
<1>a. \A b, s : AttStep(b, s) => b \in Attempts /\ att[b] \in Sessions
  BY <1>0 DEF AttStep, ExpInv, Shaped
<1>3. CASE AttStep(runner.att + 1, [att[runner.att + 1] EXCEPT !.reg = TRUE])
  <2>1. runner.att + 1 \in Attempts /\ att[runner.att + 1] \in Sessions
    BY <1>a, <1>3
  <2>2. /\ [att[runner.att + 1] EXCEPT !.reg = TRUE].call = att[runner.att + 1].call
        /\ [att[runner.att + 1] EXCEPT !.reg = TRUE].reg
    BY <2>1, SessionFields
  <2> QED
    BY <1>2, <1>3, <2>2
<1>4. CASE AttStep(runner.att, [att[runner.att] EXCEPT !.sent = cmd["runner"].result # "failed"])
  <2> DEFINE b == cmd["runner"].result # "failed"
  <2>1. b \in BOOLEAN
    OBVIOUS
  <2>2. AttStep(runner.att, [att[runner.att] EXCEPT !.sent = b])
    BY <1>4
  <2> HIDE DEF b
  <2>3. runner.att \in Attempts /\ att[runner.att] \in Sessions
    BY <1>a, <2>2
  <2>4. /\ [att[runner.att] EXCEPT !.sent = b].call = att[runner.att].call
        /\ [att[runner.att] EXCEPT !.sent = b].reg = att[runner.att].reg
    BY <2>1, <2>3, SessionFields
  <2> QED
    BY <1>2, <2>2, <2>4
<1>5. CASE AttStep(runner.att, [att[runner.att] EXCEPT !.emitted = TRUE])
  <2>1. runner.att \in Attempts /\ att[runner.att] \in Sessions
    BY <1>a, <1>5
  <2>2. /\ [att[runner.att] EXCEPT !.emitted = TRUE].call = att[runner.att].call
        /\ [att[runner.att] EXCEPT !.emitted = TRUE].reg = att[runner.att].reg
    BY <2>1, SessionFields
  <2> QED
    BY <1>2, <1>5, <2>2
<1>6. CASE AttStep(runner.att, [att[runner.att] EXCEPT !.open = TRUE])
  <2>1. runner.att \in Attempts /\ att[runner.att] \in Sessions
    BY <1>a, <1>6
  <2>2. /\ [att[runner.att] EXCEPT !.open = TRUE].call = att[runner.att].call
        /\ [att[runner.att] EXCEPT !.open = TRUE].reg = att[runner.att].reg
    BY <2>1, SessionFields
  <2> QED
    BY <1>2, <1>6, <2>2
<1>b. CASE \E b \in Attempts : AttStep(b, [att[b] EXCEPT !.open = TRUE])
  <2>1. PICK b \in Attempts : AttStep(b, [att[b] EXCEPT !.open = TRUE])
    BY <1>b
  <2>2. /\ [att[b] EXCEPT !.open = TRUE].call = att[b].call
        /\ [att[b] EXCEPT !.open = TRUE].reg = att[b].reg
    BY <1>a, <2>1, SessionFields
  <2> QED
    BY <1>2, <2>1, <2>2
<1>7. CASE InitiateReturns /\ cmd["runner"].result # "ok"
  BY <1>7, DialSucceeds DEF InitiateReturns, Runner
<1>8. CASE AttStep(loop.att, [att[loop.att] EXCEPT !.emitted = TRUE])
  <2>1. loop.att \in Attempts /\ att[loop.att] \in Sessions
    BY <1>a, <1>8
  <2>2. /\ [att[loop.att] EXCEPT !.emitted = TRUE].call = att[loop.att].call
        /\ [att[loop.att] EXCEPT !.emitted = TRUE].reg = att[loop.att].reg
    BY <2>1, SessionFields
  <2> QED
    BY <1>2, <1>8, <2>2
<1>9. CASE CleansUp /\ AttStep(loop.att, [att[loop.att] EXCEPT !.reg = FALSE])
  <2>1. loop.att \in Attempts /\ att[loop.att] \in Sessions
    BY <1>a, <1>9
  <2>2. /\ [att[loop.att] EXCEPT !.reg = FALSE].call = att[loop.att].call
    BY <2>1, SessionFields
  <2> QED
    BY <1>2, <1>9, <2>2
\* An event binds the call of the attempt that is found.
<1>10. ASSUME NEW type, NextEvent(type)
       PROVE  /\ Head(eventChan).call \in Callees
              /\ Found(Head(eventChan).call) = {calls[Head(eventChan).call].att}
              /\ Head(eventChan).call \in Nat
  BY <1>10, EventToClose, FoundIs, CallsAre
<1>11. CASE OnOutgoing
  <2> DEFINE n == Head(eventChan).call
  <2>1. n \in Callees /\ Found(n) = {calls[n].att} /\ n \in Nat
    BY <1>10, <1>11 DEF OnOutgoing
  <2>2. att' = [b \in Attempts |-> IF b \in Found(n) THEN [att[b] EXCEPT !.call = n] ELSE att[b]]
    BY <1>11 DEF OnOutgoing
  <2> HIDE DEF n
  <2>3. CASE a \in Found(n)
    <3>1. att'[a] = [att[a] EXCEPT !.call = n]
      BY <2>2, <2>3
    <3>2. att'[a].reg = att[a].reg /\ att'[a].call = n
      BY <1>0, <2>1, <3>1, SessionFields
    <3> QED
      BY <2>1, <2>3, <3>2
  <2>4. CASE a \notin Found(n)
    BY <2>2, <2>4
  <2> QED
    BY <2>3, <2>4
<1>12. ASSUME NEW type, NextEvent(type), NEW b \in Found(Head(eventChan).call), NEW s, AttStep(b, s),
              s.call = Head(eventChan).call, s.reg = att[b].reg
       PROVE  Goal
  <2>1. Head(eventChan).call \in Callees /\ calls[Head(eventChan).call].att = b
    BY <1>10, <1>12
  <2> QED
    BY <1>12, <2>1 DEF AttStep
<1>13. CASE OnAnswered /\ \E b \in Found(Head(eventChan).call) :
                 /\ AttStep(b, [att[b] EXCEPT !.call = Head(eventChan).call, !.answered = TRUE, !.open = TRUE])
                 /\ loop' = [pc |-> "answer", att |-> b]
  <2>1. PICK b \in Found(Head(eventChan).call) :
                 AttStep(b, [att[b] EXCEPT !.call = Head(eventChan).call, !.answered = TRUE, !.open = TRUE])
    BY <1>13
  <2>2. NextEvent("answered") /\ Head(eventChan).call \in Nat /\ att[b] \in Sessions
    BY <1>0, <1>10, <1>13, <2>1 DEF OnAnswered, AttStep, ExpInv, Shaped
  <2>3. /\ [att[b] EXCEPT !.call = Head(eventChan).call, !.answered = TRUE, !.open = TRUE].call = Head(eventChan).call
        /\ [att[b] EXCEPT !.call = Head(eventChan).call, !.answered = TRUE, !.open = TRUE].reg = att[b].reg
    BY <2>2, SessionFields
  <2> QED
    BY <1>12, <2>1, <2>2, <2>3
<1>14. CASE OnClosed /\ \E b \in Found(Head(eventChan).call) :
                 /\ AttStep(b, [att[b] EXCEPT !.call = Head(eventChan).call, !.open = FALSE])
                 /\ loop' = [pc |-> "cleanup", att |-> b]
  <2>1. PICK b \in Found(Head(eventChan).call) :
                 AttStep(b, [att[b] EXCEPT !.call = Head(eventChan).call, !.open = FALSE])
    BY <1>14
  <2>2. NextEvent("closed") /\ Head(eventChan).call \in Nat /\ att[b] \in Sessions
    BY <1>0, <1>10, <1>14, <2>1 DEF OnClosed, AttStep, ExpInv, Shaped
  <2>3. /\ [att[b] EXCEPT !.call = Head(eventChan).call, !.open = FALSE].call = Head(eventChan).call
        /\ [att[b] EXCEPT !.call = Head(eventChan).call, !.open = FALSE].reg = att[b].reg
    BY <2>2, SessionFields
  <2> QED
    BY <1>12, <2>1, <2>2, <2>3
<1> HIDE DEF Goal
<1>15. Goal
  BY <1>0, <1>1, <1>3, <1>4, <1>5, <1>6, <1>7, <1>8, <1>9, <1>11, <1>13, <1>14, <1>b, AttActions DEF Goal
<1> QED
  BY <1>15 DEF Goal

\* The attempt that is being removed is one whose closing has been handled.
LEMMA StepCleanup ==
    ASSUME Calm, Step, loop'.pc = "cleanup"
    PROVE  \E n \in Callees : calls[n].att = loop'.att /\ ~ToClose(n)'
<1>0. ExpInv /\ Next
  BY DEF Calm, Step
<1>1. CASE loop' = loop
  <2>1. PICK n \in Callees : calls[n].att = loop.att /\ ~ToClose(n)
    BY <1>1 DEF Calm, QuietInv, Owner
  <2> QED
    BY <1>1, <2>1, CloseSteps DEF Closings
<1>2. CASE OnClosed
  <2> DEFINE n == Head(eventChan).call
  <2>1. NextEvent("closed")
    BY <1>2 DEF OnClosed
  <2>2. n \in Callees /\ Found(n) = {calls[n].att} /\ loop.pc = "idle"
    BY <2>1, EventToClose, FoundIs DEF NextEvent
  <2>3. loop'.att = calls[n].att
    <3>1. \E a \in Found(n) : loop' = [pc |-> "cleanup", att |-> a]
      BY <1>2, <2>2 DEF OnClosed
    <3> QED
      BY <2>2, <3>1
  <2>4. \A m \in Callees : m = n => ~ToClose(m)'
    BY <1>2, CloseSteps
  <2> HIDE DEF n
  <2> QED
    BY <2>2, <2>3, <2>4
<1>3. CASE OnAnswered
  <2>1. loop' = loop \/ \E a : loop' = [pc |-> "answer", att |-> a]
    BY <1>3 DEF OnAnswered
  <2> QED
    BY <1>1, <2>1
<1>4. CASE CleansUp
  BY <1>4 DEF CleansUp
<1> QED
  BY <1>0, <1>1, <1>2, <1>3, <1>4, LoopGoesOn

LEMMA StepOwner == ASSUME Calm, Step PROVE Owner'
<1>0. ExpInv /\ Next /\ runner.att \in Nat /\ runner \in Runners
  BY RunnerAtt DEF Calm, Step, ExpInv, Shaped
<1>o. /\ \A n \in Callees : calls[n].att <= runner.att
      /\ \A n, m \in Callees : calls[n].att = calls[m].att => n = m
      /\ \A a \in Attempts : att[a].call # 0 => calls[att[a].call].att = a
      /\ \A n \in Callees : ToClose(n) => att[calls[n].att].reg
      /\ loop.pc = "cleanup" => \E n \in Callees : calls[n].att = loop.att /\ ~ToClose(n)
  BY DEF Calm, QuietInv, Owner
<1>c. /\ \A n \in Callees : n \in Callees' /\ calls'[n].att = calls[n].att
      /\ \/ Callees' = Callees
         \/ \E new : /\ NewCall /\ Uncalled /\ runner.pc = "dial"
                     /\ Callees' = Callees \cup {new} /\ new \notin Callees /\ calls'[new].att = runner.att
  BY CallsOf
<1>n. \A n \in Callees : calls[n].att \in Attempts /\ calls[n].att \in Nat
  BY CallsAre, AttemptsAreNumbers
<1>r. runner'.att = runner.att \/ (runner'.att = runner.att + 1 /\ runner.pc = "start")
  <2>1. CASE StartOne /\ ~Busy
    BY <1>0, <2>1 DEF StartOne, Runner, Runners
  <2> QED
    BY <1>0, <2>1, RunnerGoesOn
<1>1. \A n \in Callees' : calls'[n].att <= runner'.att
  BY <1>0, <1>o, <1>c, <1>n, <1>r
<1>2. \A n, m \in Callees' : calls'[n].att = calls'[m].att => n = m
  BY <1>o, <1>c DEF Uncalled, Called
<1>3. \A a \in Attempts : att'[a].call # 0 => calls'[att'[a].call].att = a
  <2> SUFFICES ASSUME NEW a \in Attempts, att'[a].call # 0
               PROVE  calls'[att'[a].call].att = a
    OBVIOUS
  <2>1. CASE att'[a].call = att[a].call
    <3>1. att[a].call \in Nat /\ att[a].call <= Len(calls)
      BY <1>0 DEF ExpInv, Shaped, Sessions, Known
    <3> QED
      BY <1>o, <1>c, <2>1, <3>1, CallsAre
  <2>2. CASE \E n \in Callees : calls[n].att = a /\ att'[a].call = n
    BY <1>c, <2>2
  <2> QED
    BY <2>1, <2>2, AttMoves
<1>4. \A n \in Callees' : ToClose(n)' => att'[calls'[n].att].reg
  <2> SUFFICES ASSUME NEW n \in Callees', ToClose(n)'
               PROVE  att'[calls'[n].att].reg
    OBVIOUS
  <2>1. CASE n \in Callees
    <3>1. ToClose(n) /\ calls'[n].att = calls[n].att
      BY <1>c, <2>1, CloseSteps DEF Closings
    <3>2. ASSUME CleansUp, calls[n].att = loop.att
          PROVE  FALSE
      <4>1. loop.pc = "cleanup"
        BY <3>2 DEF CleansUp
      <4> QED
        BY <1>o, <2>1, <3>1, <3>2, <4>1
    <3> QED
      BY <1>o, <1>n, <2>1, <3>1, <3>2, AttMoves
  <2>2. CASE n \notin Callees
    <3>1. NewCall /\ Uncalled /\ calls'[n].att = runner.att
      BY <1>c, <2>2
    <3> QED
      BY <3>1 DEF NewCall, Uncalled
  <2> QED
    BY <2>1, <2>2
<1>5. loop'.pc = "cleanup" => \E n \in Callees' : calls'[n].att = loop'.att /\ ~ToClose(n)'
  BY <1>c, StepCleanup
<1> QED
  BY <1>1, <1>2, <1>3, <1>4, <1>5 DEF Owner
-----------------------------------------------------------------------------
(* There is one dial, and it is answered with a call. *)

ProgramMoves == (Run \/ Loop \/ \E a \in Attempts : ODA(a)) /\ UNCHANGED <<calls, back, wire, owed>>

LEMMA QuietSteps ==
    ASSUME Calm, Step
    PROVE  \/ NewCall \/ (\E n \in Callees : CallMoves(n)) \/ Replies
           \/ ReadsResponse \/ ReadsEvent \/ (\E c \in Callers : WritesTo(c) \/ Takes(c))
           \/ ProgramMoves
<1>1. CASE Baresip \/ Callee
  BY <1>1, BaresipSteps
<1>2. CASE Client
  BY <1>2, ClientSteps
<1>3. CASE Run \/ Loop \/ \E a \in Attempts : ODA(a)
  BY <1>3, ProgramSteps DEF ProgramMoves
<1> QED
  BY <1>1, <1>2, <1>3, QuietNext

\* The runner's command is the dial as long as the runner is dialling.
LEMMA RunnerDials ==
    ASSUME Calm
    PROVE  LET k == cmd["runner"] IN
           /\ \A c \in Callers : cmd[c].op = "dial" => c = "runner"
           /\ runner.pc = "dial" => k.op = "dial" /\ k.arg = runner.att
           /\ k.op = "dial" /\ k.pc \in {"write", "wait"} => runner.pc = "dial" /\ k.arg = runner.att
           /\ k.op = "dial" => runner.pc \in Dialling /\ k.arg = runner.att
           /\ k \in Commands /\ cmd \in [Callers -> Commands] /\ "runner" \in Callers
<1>1. /\ cmd \in [Callers -> Commands] /\ "runner" \in Callers
  BY ExpConst DEF Calm, ExpInv, MatchInv, Held
<1>2. cmd["runner"].pc = "idle" => cmd["runner"].op # "dial"
  BY <1>1 DEF Calm, ExpInv, MatchInv, OwnToken, NoCommand
<1> QED
  BY <1>1, <1>2 DEF Calm, ExpInv, Commanded, Dialling

\* An attempt that has no call stays that way, but for a new one.
LEMMA UncalledKept ==
    ASSUME Calm, Step, Uncalled, ~NewCall, runner'.att = runner.att
    PROVE  Uncalled'
<1>1. Callees' = Callees /\ \A n \in Callees : calls'[n].att = calls[n].att
  BY CallsOf
<1>2. ~Called(runner.att)' 
  BY <1>1 DEF Uncalled, Called
<1>3. ASSUME CleansUp, runner.att = loop.att
      PROVE  FALSE
  <2>1. loop.pc = "cleanup"
    BY <1>3 DEF CleansUp
  <2>2. Called(loop.att)
    BY <2>1 DEF Calm, QuietInv, Owner, Called
  <2> QED
    BY <1>3, <2>2 DEF Uncalled
<1> QED
  BY <1>2, <1>3, AttMoves DEF Uncalled

\* A command that has been answered is not on the wire.
LEMMA TakesNoDial ==
    ASSUME Calm, Takes("runner"), NEW i \in DOMAIN wire, wire[i].op = "dial"
    PROVE  FALSE
<1> DEFINE k == cmd["runner"]
           r == Head(cmd["runner"].chan)
<1>1. k.pc = "wait" /\ k.chan # <<>>
  BY DEF Takes, TakeResponse
<1>2. Uncalled /\ runner.pc = "dial"
  BY DEF Calm, QuietInv, OneDial
<1>3. k.op = "dial" /\ k.arg = runner.att
  BY <1>2, RunnerDials
<1>4. r.op = k.op /\ r.arg = k.arg
  BY <1>1, ExpConst DEF Calm, ExpInv, MatchInv, Table, Same
<1>5. Called(r.arg)
  BY <1>1, <1>3, <1>4, ExpConst DEF Calm, QuietInv, DialAnswered, AnsweredWith
<1> QED
  BY <1>2, <1>3, <1>4, <1>5 DEF Uncalled

\* A response is put where its command waits for it, or nowhere.
LEMMA ReadsKept ==
    ASSUME Calm, ReadsResponse, NEW c \in Callers
    PROVE  \/ cmd'[c] = cmd[c]
           \/ /\ cmd'[c].pc = cmd[c].pc /\ cmd'[c].op = cmd[c].op /\ cmd'[c].arg = cmd[c].arg
              /\ cmd[c].pc \in {"write", "wait"} /\ cmd'[c].chan = <<Head(back)>>
<1>0. /\ cmd \in [Callers -> Commands] /\ \A t \in DOMAIN pending : pending[t] \in Callers
      /\ \A t \in DOMAIN pending : Awaiting(cmd[pending[t]])
  BY DEF Calm, ExpInv, MatchInv, Held, Table
<1>1. Route(Head(back)) /\ Head(back) \in Responses
  BY DEF ReadsResponse, Routes
<1>2. CASE Head(back).token \in DOMAIN pending
  <2> DEFINE d == pending[Head(back).token]
             ch == IF cmd[d].token = Head(back).token THEN Append(cmd[d].chan, Head(back)) ELSE cmd[d].chan
  <2>1. d \in Callers /\ cmd[d].pc \in {"write", "wait"} /\ cmd[d].chan = <<>> /\ cmd[d] \in Commands
    BY <1>0, <1>2 DEF Awaiting
  <2>2. cmd' = [cmd EXCEPT ![d].chan = ch]
    BY <1>1, <1>2 DEF Route
  <2>3. ch \in {<<>>, <<Head(back)>>}
    BY <2>1
  <2> HIDE DEF d, ch
  <2>4. /\ cmd'[d].pc = cmd[d].pc /\ cmd'[d].op = cmd[d].op /\ cmd'[d].arg = cmd[d].arg
        /\ cmd'[d].chan = ch /\ (ch = <<>> => cmd'[d] = cmd[d])
        /\ (c # d => cmd'[c] = cmd[c])
    BY <1>0, <2>1, <2>2 DEF Commands
  <2> QED
    BY <2>1, <2>3, <2>4
<1>3. CASE Head(back).token \notin DOMAIN pending
  BY <1>1, <1>3 DEF Route
<1> QED
  BY <1>2, <1>3
\* The runner dials its next attempt, or is not dialling.
LEMMA RunDials ==
    ASSUME ExpInv, Run
    PROVE  \/ /\ StartOne /\ ~Busy /\ runner.pc = "start"
              /\ Issue("runner", "dial", runner.att + 1)
              /\ runner'.pc = "dial" /\ runner'.att = runner.att + 1
           \/ /\ ~(StartOne /\ ~Busy) /\ runner'.pc # "dial"
              /\ runner'.att = runner.att
              /\ runner.pc = "dial" => cmd["runner"].pc = "done"
<1>0. runner \in Runners
  BY DEF ExpInv, Shaped
<1>1. CASE StartOne /\ ~Busy
  BY <1>0, <1>1 DEF StartOne, Runner, Runners
<1>2. CASE StartOne /\ Busy
  BY <1>0, <1>2 DEF StartOne, Runner, Runners, Aborts
<1>3. CASE Dialled \/ DialerEmits \/ DialerMarks \/ HangupCall \/ HangupReturns \/ Stop \/ TakeResult
  BY <1>0, <1>3 DEF Dialled, DialerEmits, DialerMarks, HangupCall, HangupReturns, Stop, TakeResult, Runner, Runners, StartOne
<1>4. CASE InitiateReturns
  BY <1>0, <1>4 DEF InitiateReturns, Aborts, Runner, Runners, StartOne
<1>5. CASE HandleResult
  BY <1>0, <1>5 DEF HandleResult, Runner, Runners, StartOne
<1> QED
  BY <1>1, <1>2, <1>3, <1>4, <1>5 DEF Run

LEMMA StepOneDial == ASSUME Calm, Step PROVE OneDial'
<1>0. /\ wire \in Seq(Commands) /\ cmd \in [Callers -> Commands] /\ "runner" \in Callers
      /\ ExpInv /\ Next /\ runner.att \in Nat
  BY NoFault, RunnerDials, RunnerAtt DEF Calm, Step
<1>o. /\ \A i, j \in DOMAIN wire : wire[i].op = "dial" /\ wire[j].op = "dial" => i = j
      /\ \A i \in DOMAIN wire : wire[i].op = "dial" =>
            Uncalled /\ wire[i].arg = runner.att /\ runner.pc = "dial" /\ cmd["runner"].pc = "wait"
      /\ runner.pc = "dial" /\ cmd["runner"].pc = "write" =>
            Uncalled /\ \A i \in DOMAIN wire : wire[i].op # "dial"
  BY DEF Calm, QuietInv, OneDial
\* Nothing is written, and no call is made.
<1>1. ASSUME WireLess, ~NewCall, runner' = runner, cmd'["runner"].pc = cmd["runner"].pc
      PROVE  OneDial'
  <2>1. \A i \in DOMAIN wire' : \E p \in {0, 1} : i + p \in DOMAIN wire /\ wire'[i] = wire[i + p]
    <3>1. CASE wire' = wire
      <4>1. \A i \in DOMAIN wire : i + 0 = i
        BY <1>0
      <4> QED
        BY <3>1, <4>1
    <3>2. CASE wire # <<>> /\ wire' = Tail(wire)
      <4>1. \A i \in DOMAIN wire' : i + 1 \in DOMAIN wire /\ wire'[i] = wire[i + 1]
        BY <1>0, <3>2
      <4> QED
        BY <4>1
    <3> QED
      BY <1>1, <3>1, <3>2 DEF WireLess
  <2>2. wire' = wire \/ (wire # <<>> /\ wire' = Tail(wire))
    BY <1>1 DEF WireLess
  <2>3. \A i, j \in DOMAIN wire' : wire'[i].op = "dial" /\ wire'[j].op = "dial" => i = j
    <3>1. CASE wire' = wire
      BY <1>o, <3>1
    <3>2. CASE wire # <<>> /\ wire' = Tail(wire)
      <4>1. \A i \in DOMAIN wire' : i + 1 \in DOMAIN wire /\ wire'[i] = wire[i + 1] /\ i \in Nat
        BY <1>0, <3>2
      <4> QED
        BY <1>o, <4>1
    <3> QED
      BY <2>2, <3>1, <3>2
  <2> QED
    BY <1>1, <1>o, <2>1, <2>3, UncalledKept DEF OneDial
<1>2. CASE NewCall
  <2>1. wire # <<>> /\ Head(wire).op = "dial" /\ wire' = Tail(wire) /\ runner' = runner /\ cmd' = cmd
    BY <1>2 DEF NewCall
  <2>2. 1 \in DOMAIN wire /\ Head(wire) = wire[1]
    BY <1>0, <2>1
  <2>3. \A i \in DOMAIN wire' : i + 1 \in DOMAIN wire /\ wire'[i] = wire[i + 1] /\ i + 1 # 1
    BY <1>0, <2>1
  <2>4. \A i \in DOMAIN wire' : wire'[i].op # "dial"
    BY <1>o, <2>1, <2>2, <2>3
  <2>5. cmd["runner"].pc = "wait"
    BY <1>o, <2>1, <2>2
  <2> QED
    BY <2>1, <2>4, <2>5 DEF OneDial
<1>3. ASSUME NEW n \in Callees, CallMoves(n), ~NewCall
      PROVE  OneDial'
  BY <1>1, <1>3 DEF CallMoves
<1>4. CASE Replies /\ ~NewCall
  BY <1>1, <1>4 DEF Replies
<1>n. NewCall => Len(calls') = Len(calls) + 1 /\ Len(calls) \in Nat
  BY NoFault, CallsOf DEF NewCall
<1>c. UNCHANGED calls => ~NewCall
  BY <1>n
<1>5. CASE ReadsResponse
  <2>1. /\ wire' = wire /\ runner' = runner /\ ~NewCall
    BY <1>5, <1>c DEF ReadsResponse, Routes
  <2>2. cmd'["runner"].pc = cmd["runner"].pc
    BY <1>0, <1>5, ReadsKept
  <2> QED
    BY <1>1, <2>1, <2>2 DEF WireLess
<1>6. CASE ReadsEvent
  <2>1. wire' = wire /\ runner' = runner /\ cmd' = cmd /\ ~NewCall
    BY <1>6, <1>c DEF ReadsEvent
  <2> QED
    BY <1>1, <2>1 DEF WireLess
<1>7. ASSUME NEW c \in Callers, WritesTo(c)
      PROVE  OneDial'
  <2>1. /\ cmd[c].pc = "write" /\ wire' = Append(wire, cmd[c]) /\ runner' = runner /\ ~NewCall
        /\ cmd'["runner"].pc = IF c = "runner" THEN "wait" ELSE cmd["runner"].pc
        /\ cmd[c] \in Commands
    BY <1>0, <1>7, <1>c DEF WritesTo
  <2>2. /\ \A i \in DOMAIN wire : i \in DOMAIN wire' /\ wire'[i] = wire[i] /\ i # Len(wire) + 1
        /\ \A i \in DOMAIN wire' : i \in DOMAIN wire \/ (i = Len(wire) + 1 /\ wire'[i] = cmd[c])
    BY <1>0, <2>1
  <2>3. CASE cmd[c].op = "dial"
    <3>1. c = "runner" /\ runner.pc = "dial" /\ cmd[c].arg = runner.att
      BY <2>1, <2>3, RunnerDials
    <3>2. Uncalled /\ \A i \in DOMAIN wire : wire[i].op # "dial"
      BY <1>o, <2>1, <3>1
    <3>3. Uncalled'
      BY <2>1, <3>2, UncalledKept
    <3>4. \A i \in DOMAIN wire' : wire'[i].op = "dial" => i = Len(wire) + 1 /\ wire'[i].arg = runner.att
      BY <2>2, <3>1, <3>2
    <3> QED
      BY <2>1, <3>1, <3>3, <3>4 DEF OneDial
  <2>4. CASE cmd[c].op # "dial"
    <3>1. \A i \in DOMAIN wire' : wire'[i].op = "dial" => i \in DOMAIN wire /\ wire'[i] = wire[i]
      BY <2>2, <2>4
    <3>2. runner.pc = "dial" => cmd'["runner"].pc = cmd["runner"].pc
      BY <2>1, <2>4, RunnerDials
    <3>3. Uncalled => Uncalled'
      BY <2>1, UncalledKept
    <3> QED
      BY <1>o, <2>1, <3>1, <3>2, <3>3 DEF OneDial
  <2> QED
    BY <2>3, <2>4
<1>8. ASSUME NEW c \in Callers, Takes(c)
      PROVE  OneDial'
  <2>1. wire' = wire /\ runner' = runner /\ ~NewCall
    BY <1>8, <1>c DEF Takes
  <2>2. CASE c = "runner"
    <3>1. cmd'["runner"].pc = "done"
      BY <1>0, <1>8, <2>2 DEF Takes, TakeResponse, Returns
    <3>2. \A i \in DOMAIN wire : wire[i].op # "dial"
      BY <1>8, <2>2, TakesNoDial
    <3> QED
      BY <2>1, <3>1, <3>2 DEF OneDial
  <2>3. CASE c # "runner"
    <3>1. cmd'["runner"].pc = cmd["runner"].pc
      BY <1>0, <1>8, <2>3 DEF Takes, TakeResponse, Returns
    <3> QED
      BY <1>1, <2>1, <3>1 DEF WireLess
  <2> QED
    BY <2>2, <2>3
<1>9. CASE ProgramMoves
  <2>0. wire' = wire /\ ~NewCall /\ calls' = calls
    BY <1>9, <1>c DEF ProgramMoves
  <2>1. CASE StartOne /\ ~Busy /\ Run
    <3>1. /\ runner.pc = "start" /\ Issue("runner", "dial", runner.att + 1)
          /\ runner'.pc = "dial" /\ runner'.att = runner.att + 1
      BY <1>0, <2>1, RunDials
    <3>2. /\ att' = [att EXCEPT ![runner.att + 1].reg = TRUE]
          /\ runner.att + 1 \in Attempts /\ att \in [Attempts -> Sessions]
      BY <1>0, <2>1, <3>1, RunnerAtt DEF StartOne, ExpInv, Shaped
    <3>3. runner'.att \in Attempts /\ att'[runner'.att].reg
      <4> DEFINE b == runner.att + 1
      <4>1. b \in Attempts /\ att[b] \in Sessions /\ att'[b] = [att[b] EXCEPT !.reg = TRUE]
        BY <3>2
      <4> HIDE DEF b
      <4>2. att'[b].reg
        BY <4>1, SessionFields
      <4> QED
        BY <3>1, <4>1, <4>2 DEF b
    <3>4. ~Called(runner.att + 1)
      <4>1. \A n \in Callees : calls[n].att <= runner.att /\ calls[n].att \in Nat
        BY CallsAre, AttemptsAreNumbers DEF Calm, QuietInv, Owner
      <4> QED
        BY <1>0, <4>1 DEF Called
    <3>5. ~Called(runner.att)'
      BY <2>0, <3>1, <3>4 DEF Called, Callees
    <3>6. \A i \in DOMAIN wire' : wire'[i].op # "dial"
      BY <1>o, <2>0, <3>1
    <3> QED
      BY <3>3, <3>5, <3>6 DEF OneDial, Uncalled
  <2>2. CASE Run /\ ~(StartOne /\ ~Busy)
    <3>1. runner'.pc # "dial" /\ (runner.pc = "dial" => cmd["runner"].pc = "done")
      BY <1>0, <2>2, RunDials
    <3> QED
      BY <1>o, <2>0, <3>1 DEF OneDial
  <2>3. CASE ~Run /\ Loop
    <3>1. runner' = runner
      BY <1>0, <2>3, WhoSteps
    <3>2. cmd' = cmd
      BY <2>3 DEF Loop, OnOutgoing, OnAnswered, LoopEmits, LoopMarks, LoopAsks, OnClosed, CleansUp, TakesError, LoopEnds
    <3> QED
      BY <1>1, <2>0, <3>1, <3>2 DEF WireLess
  <2>4. ASSUME ~Run, NEW a \in Attempts, ODA(a)
        PROVE  OneDial'
    <3>1. runner' = runner
      BY <1>0, <2>4, WhoSteps
    <3>2. cmd'["runner"] = cmd["runner"]
      BY <1>0, <2>4 DEF ODA, RuaCompletes, OdaSteps, OdaRecords, OdaDropped, OdaHangsUp, OdaReturns, Issue
    <3> QED
      BY <1>1, <2>0, <3>1, <3>2 DEF WireLess
  <2> QED
    BY <1>9, <2>1, <2>2, <2>3, <2>4 DEF ProgramMoves
<1> QED
  BY <1>2, <1>3, <1>4, <1>5, <1>6, <1>7, <1>8, <1>9, QuietSteps
\* The program's other goroutines leave a command as it is, make it a new one, or end it.
LEMMA ProgramCommands ==
    ASSUME Calm, Step, ProgramMoves, NEW c \in Callers
    PROVE  cmd'[c] = cmd[c] \/ (cmd'[c].chan = <<>> /\ cmd'[c].pc \in {"idle", "write"})
<1>0. /\ cmd \in [Callers -> Commands] /\ ExpInv /\ "runner" \in Callers /\ "oda" \in Callers
      /\ NoCommand.chan = <<>> /\ NoCommand.pc = "idle"
  BY ExpConst DEF Calm, ExpInv, MatchInv, Held, NoCommand
<1>1. ASSUME NEW d \in Callers, NEW op, NEW arg, Issue(d, op, arg)
      PROVE  cmd'[c] = cmd[c] \/ (cmd'[c].chan = <<>> /\ cmd'[c].pc \in {"idle", "write"})
  BY <1>0, <1>1, Issued
<1>2. ASSUME NEW d \in Callers, cmd' = [cmd EXCEPT ![d] = NoCommand]
      PROVE  cmd'[c] = cmd[c] \/ (cmd'[c].chan = <<>> /\ cmd'[c].pc \in {"idle", "write"})
  BY <1>0, <1>2
<1>3. CASE Run
  <2>1. CASE StartOne /\ ~Busy
    <3>1. Issue("runner", "dial", runner.att + 1)
      BY <2>1 DEF StartOne
    <3> QED
      BY <1>0, <1>1, <3>1
  <2>2. CASE HangupCall
    <3>1. Issue("runner", "hangup", att[runner.res.att].call)
      BY <2>2 DEF HangupCall
    <3> QED
      BY <1>0, <1>1, <3>1
  <2>3. CASE InitiateReturns \/ HangupReturns
    <3>1. cmd' = [cmd EXCEPT !["runner"] = NoCommand]
      BY <2>3 DEF InitiateReturns, HangupReturns
    <3> QED
      BY <1>0, <1>2, <3>1
  <2>4. CASE StartOne /\ Busy
    BY <2>4 DEF StartOne
  <2>5. CASE Dialled \/ DialerEmits \/ DialerMarks \/ TakeResult \/ HandleResult \/ Stop
    BY <2>5 DEF Dialled, DialerEmits, DialerMarks, TakeResult, HandleResult, Stop
  <2> QED
    BY <1>3, <2>1, <2>2, <2>3, <2>4, <2>5 DEF Run
<1>4. CASE Loop
  BY <1>4 DEF Loop, OnOutgoing, OnAnswered, LoopEmits, LoopMarks, LoopAsks, OnClosed, CleansUp, TakesError, LoopEnds
<1>5. ASSUME NEW a \in Attempts, ODA(a)
      PROVE  cmd'[c] = cmd[c] \/ (cmd'[c].chan = <<>> /\ cmd'[c].pc \in {"idle", "write"})
  <2>1. CASE OdaHangsUp(a)
    <3>1. Issue("oda", "hangup", att[a].call)
      BY <2>1 DEF OdaHangsUp
    <3> QED
      BY <1>0, <1>1, <3>1
  <2>2. CASE OdaReturns(a)
    <3>1. cmd' = [cmd EXCEPT !["oda"] = NoCommand]
      BY <2>2 DEF OdaReturns
    <3> QED
      BY <1>0, <1>2, <3>1
  <2>3. CASE RuaCompletes(a) \/ OdaRecords(a) \/ OdaDropped(a)
    BY <2>3 DEF RuaCompletes, OdaRecords, OdaDropped
  <2> QED
    BY <1>5, <2>1, <2>2, <2>3 DEF ODA, OdaSteps
<1> QED
  BY <1>3, <1>4, <1>5 DEF ProgramMoves

LEMMA StepDialAnswered == ASSUME Calm, Step PROVE DialAnswered'
<1>0. /\ back \in Seq(Frames) /\ owed \subseteq Responses /\ cmd \in [Callers -> Commands]
      /\ "runner" \in Callers
  BY NoFault, RunnerDials
<1>d. /\ \A r \in owed : AnsweredWith(r)
      /\ \A i \in DOMAIN back : back[i].kind = "response" => AnsweredWith(back[i])
      /\ \A c \in Callers : cmd[c].chan # <<>> => AnsweredWith(Head(cmd[c].chan))
      /\ LET k == cmd["runner"] IN
         k.op = "dial" /\ k.pc = "done" => k.result = "ok" /\ Called(k.arg)
  BY DEF Calm, QuietInv, DialAnswered
<1> DEFINE Called2(a) == \E n \in Callees' : calls'[n].att = a
           Answered2(r) == r.op = "dial" => r.ok /\ Called2(r.arg)
<1>m. \A a : Called(a) => Called2(a)
  BY CallsOf DEF Called
<1>r. \A r : AnsweredWith(r) => Answered2(r)
  BY <1>m DEF AnsweredWith
<1>s. ASSUME \A r \in owed' : Answered2(r),
             \A i \in DOMAIN back' : back'[i].kind = "response" => Answered2(back'[i]),
             \A c \in Callers : cmd'[c].chan # <<>> => Answered2(Head(cmd'[c].chan)),
             cmd'["runner"].op = "dial" /\ cmd'["runner"].pc = "done"
                => cmd'["runner"].result = "ok" /\ Called2(cmd'["runner"].arg)
      PROVE  DialAnswered'
  BY <1>s DEF DialAnswered, AnsweredWith, Called
<1> HIDE DEF Called2
\* The parts that a step leaves alone.
<1>o. owed' \subseteq owed => \A r \in owed' : Answered2(r)
  BY <1>d, <1>r
<1>b. back' = back => \A i \in DOMAIN back' : back'[i].kind = "response" => Answered2(back'[i])
  BY <1>d, <1>r
<1>t. ASSUME back # <<>>, back' = Tail(back)
      PROVE  \A i \in DOMAIN back' : back'[i].kind = "response" => Answered2(back'[i])
  <2>1. \A i \in DOMAIN back' : i + 1 \in DOMAIN back /\ back'[i] = back[i + 1]
    BY <1>0, <1>t
  <2> QED
    BY <1>d, <1>r, <2>1
<1>c. ASSUME \A c \in Callers : cmd'[c] = cmd[c] \/ (cmd'[c].chan = <<>> /\ cmd'[c].pc \in {"idle", "write"})
      PROVE  /\ \A c \in Callers : cmd'[c].chan # <<>> => Answered2(Head(cmd'[c].chan))
             /\ cmd'["runner"].op = "dial" /\ cmd'["runner"].pc = "done"
                   => cmd'["runner"].result = "ok" /\ Called2(cmd'["runner"].arg)
  BY <1>0, <1>c, <1>d, <1>r, <1>m
\* What baresip emits, and what it answers.
<1>e. ASSUME NEW q \in Seq(Frames), NEW f \in Frames, f.kind = "response" => Answered2(f),
             \A i \in DOMAIN q : q[i].kind = "response" => Answered2(q[i])
      PROVE  /\ Append(q, f) \in Seq(Frames)
             /\ \A i \in DOMAIN Append(q, f) : Append(q, f)[i].kind = "response" => Answered2(Append(q, f)[i])
  BY <1>e, Put
<1>f. \A f : Reply(f) => f \in Frames /\ Answered2(f)
  BY <1>d, <1>r DEF Reply, Responses, Frames, AnsweredWith
<1>v. \A n \in Nat, type \in {"outgoing", "answered", "closed"} :
         Event(type, n) \in Frames /\ (Event(type, n).kind = "response" => Answered2(Event(type, n)))
  <2>1. \A n \in Nat, type \in {"outgoing", "answered", "closed"} :
           Event(type, n) \in Frames /\ Event(type, n).kind = "event"
    BY EventIsFrame DEF Event
  <2> QED
    BY <2>1
<1>q. \A i \in DOMAIN back : back[i].kind = "response" => Answered2(back[i])
  BY <1>d, <1>r
<1>1. CASE NewCall
  <2>1. PICK r : owed' = owed \cup {r} /\ r.arg = Head(wire).arg /\ r.ok
    BY <1>1 DEF NewCall
  <2>2. cmd' = cmd /\ back' = Append(back, Event("outgoing", Len(calls) + 1))
        /\ Len(calls') = Len(calls) + 1 /\ Len(calls) \in Nat
    BY <1>1, NoFault DEF NewCall
  <2>3. Called2(Head(wire).arg)
    <3>1. Callees' # Callees
      <4>1. Len(calls) + 1 \in Callees' /\ Len(calls) + 1 \notin Callees
        BY <2>2 DEF Callees
      <4> QED
        BY <4>1
    <3> QED
      BY <3>1, CallsOf DEF Called2
  <2>4. \A s \in owed' : Answered2(s)
    BY <1>d, <1>r, <2>1, <2>3
  <2>5. \A i \in DOMAIN back' : back'[i].kind = "response" => Answered2(back'[i])
    BY <1>0, <1>e, <1>q, <1>v, <2>2
  <2> QED
    BY <1>c, <1>s, <2>2, <2>4, <2>5
<1>2. ASSUME NEW n \in Callees, CallMoves(n)
      PROVE  DialAnswered'
  <2>1. n \in Nat
    BY CallsAre
  <2> DEFINE Good(q) == q \in Seq(Frames) /\ \A i \in DOMAIN q : q[i].kind = "response" => Answered2(q[i])
  <2>2. \A q, f : Good(q) /\ f \in Frames /\ (f.kind = "response" => Answered2(f)) => Good(Append(q, f))
    BY <1>e
  <2>3. Good(back) /\ \A f : Reply(f) => f \in Frames /\ (f.kind = "response" => Answered2(f))
    BY <1>0, <1>f, <1>q
  <2>4. /\ Event("answered", n) \in Frames /\ (Event("answered", n).kind = "response" => Answered2(Event("answered", n)))
        /\ Event("closed", n) \in Frames /\ (Event("closed", n).kind = "response" => Answered2(Event("closed", n)))
    BY <1>v, <2>1
  <2> HIDE DEF Answered2, Good
  <2>5. Good(back')
    <3>1. CASE back' = Append(back, Event("answered", n)) \/ back' = Append(Append(back, Event("answered", n)), Event("answered", n))
      BY <2>2, <2>3, <2>4, <3>1
    <3>2. CASE back' = Append(back, Event("closed", n))
      BY <2>2, <2>3, <2>4, <3>2
    <3>3. ASSUME NEW f, Reply(f), \/ back' = Append(Append(back, Event("closed", n)), f)
                                 \/ back' = Append(Append(back, f), Event("closed", n))
          PROVE  Good(back')
      <4>1. f \in Frames /\ (f.kind = "response" => Answered2(f))
        BY <2>3, <3>3
      <4> QED
        BY <2>2, <2>3, <2>4, <3>3, <4>1
    <3> QED
      BY <1>2, <3>1, <3>2, <3>3 DEF CallMoves
  <2>6. owed' = owed /\ cmd' = cmd
    BY <1>2 DEF CallMoves
  <2> QED
    BY <1>c, <1>o, <1>s, <2>5, <2>6 DEF Good
<1>3. CASE Replies
  <2>1. PICK f : Reply(f) /\ back' = Append(back, f)
    BY <1>3 DEF Replies
  <2>2. \A i \in DOMAIN back' : back'[i].kind = "response" => Answered2(back'[i])
    BY <1>0, <1>e, <1>f, <1>q, <2>1
  <2>3. owed' \subseteq owed /\ cmd' = cmd
    BY <1>3 DEF Replies
  <2> QED
    BY <1>c, <1>o, <1>s, <2>2, <2>3
<1>4. CASE ReadsResponse
  <2>1. back # <<>> /\ back' = Tail(back) /\ owed' = owed /\ Head(back).kind = "response"
    BY <1>4 DEF ReadsResponse, Routes
  <2>2. Answered2(Head(back))
    <3>1. 1 \in DOMAIN back /\ back[1] = Head(back)
      BY <1>0, <2>1
    <3> QED
      BY <1>q, <2>1, <3>1
  <2>3. \A c \in Callers : cmd'[c].chan # <<>> => Answered2(Head(cmd'[c].chan))
    <3> SUFFICES ASSUME NEW c \in Callers, cmd'[c].chan # <<>>
                 PROVE  Answered2(Head(cmd'[c].chan))
      OBVIOUS
    <3>1. CASE cmd'[c] = cmd[c]
      BY <1>d, <1>r, <3>1
    <3>2. CASE cmd'[c].chan = <<Head(back)>>
      <4>1. Head(cmd'[c].chan) = Head(back)
        BY <3>2
      <4> QED
        BY <2>2, <4>1
    <3> QED
      BY <1>4, <3>1, <3>2, ReadsKept
  <2>4. cmd'["runner"].op = "dial" /\ cmd'["runner"].pc = "done"
           => cmd'["runner"].result = "ok" /\ Called2(cmd'["runner"].arg)
    BY <1>0, <1>4, <1>d, <1>m, ReadsKept
  <2> QED
    BY <1>o, <1>s, <1>t, <2>1, <2>3, <2>4
<1>5. CASE ReadsEvent
  BY <1>5, <1>c, <1>o, <1>s, <1>t DEF ReadsEvent
<1>6. ASSUME NEW c \in Callers, WritesTo(c)
      PROVE  DialAnswered'
  <2>1. back' = back /\ owed' = owed
    BY <1>6 DEF WritesTo
  <2>2. \A d \in Callers : /\ cmd'[d].chan = cmd[d].chan
                           /\ cmd'[d].pc = "done" => cmd'[d] = cmd[d]
    BY <1>0, <1>6 DEF WritesTo, Commands
  <2> QED
    BY <1>0, <1>b, <1>d, <1>m, <1>o, <1>r, <1>s, <2>1, <2>2
<1>7. ASSUME NEW c \in Callers, Takes(c)
      PROVE  DialAnswered'
  <2> DEFINE r == Head(cmd[c].chan)
  <2>1. /\ back' = back /\ owed' = owed /\ cmd[c].pc = "wait" /\ cmd[c].chan # <<>>
        /\ cmd' = [cmd EXCEPT ![c].pc = "done", ![c].result = IF r.ok THEN "ok" ELSE "refused"]
    BY <1>7 DEF Takes, TakeResponse, Returns
  <2>2. r.op = cmd[c].op /\ r.arg = cmd[c].arg /\ Answered2(r)
    BY <1>d, <1>r, <2>1 DEF Calm, ExpInv, MatchInv, Table, Same
  <2>3. /\ \A d \in Callers : cmd'[d].chan = cmd[d].chan /\ cmd'[d].op = cmd[d].op /\ cmd'[d].arg = cmd[d].arg
        /\ \A d \in Callers : d # c => cmd'[d] = cmd[d]
        /\ cmd'[c].result = IF r.ok THEN "ok" ELSE "refused"
    BY <1>0, <2>1 DEF Commands
  <2> HIDE DEF r
  <2>4. \A d \in Callers : cmd'[d].chan # <<>> => Answered2(Head(cmd'[d].chan))
    BY <1>d, <1>r, <2>3
  <2>5. cmd'["runner"].op = "dial" /\ cmd'["runner"].pc = "done"
           => cmd'["runner"].result = "ok" /\ Called2(cmd'["runner"].arg)
    <3>1. CASE c = "runner"
      BY <1>0, <2>2, <2>3, <3>1
    <3>2. CASE c # "runner"
      BY <1>0, <1>d, <1>m, <2>3, <3>2
    <3> QED
      BY <3>1, <3>2
  <2> QED
    BY <1>b, <1>o, <1>s, <2>1, <2>4, <2>5
<1>8. CASE ProgramMoves
  <2>1. back' = back /\ owed' = owed
    BY <1>8 DEF ProgramMoves
  <2> QED
    BY <1>8, <1>b, <1>c, <1>o, <1>s, <2>1, ProgramCommands
<1> QED
  BY <1>1, <1>2, <1>3, <1>4, <1>5, <1>6, <1>7, <1>8, QuietSteps
-----------------------------------------------------------------------------
(* What is owed. *)

LEMMA OwedSteps ==
    ASSUME ExpInv, Next, NEW a \in Attempts
    PROVE  /\ a \in InFlight' => a \in InFlight \/ (InitiateReturns /\ a = runner.att)
           /\ Owed(a)' => Owed(a) \/ (StartOne /\ ~Busy /\ a = runner.att + 1)
<1>0. /\ runner \in Runners /\ inFlight \in [Attempts -> Flags]
  BY DEF ExpInv, Shaped
<1>1. CASE ~Run
  <2>1. UNCHANGED <<runner, inFlight>>
    BY <1>1, WhoSteps
  <2> QED
    BY <2>1 DEF InFlight, Owed
<1>2. CASE StartOne /\ ~Busy
  <2>1. inFlight' = inFlight /\ runner'.att = runner.att + 1
    BY <1>0, <1>2 DEF StartOne, Runners
  <2> QED
    BY <1>2, <2>1 DEF InFlight, Owed
<1>3. CASE StartOne /\ Busy
  <2>1. inFlight' = inFlight /\ runner'.pc = "aborted"
    BY <1>0, <1>3 DEF StartOne, Aborts, Runners
  <2> QED
    BY <2>1 DEF InFlight, Owed, Dialling
<1>4. CASE Dialled \/ DialerEmits \/ DialerMarks
  <2>1. inFlight' = inFlight /\ runner'.att = runner.att /\ runner.pc \in Dialling
    BY <1>0, <1>4 DEF Dialled, DialerEmits, DialerMarks, Runner, Runners, Dialling
  <2> QED
    BY <2>1 DEF InFlight, Owed
<1>5. CASE InitiateReturns
  <2>1. runner.pc \in Dialling /\ runner'.pc \notin Dialling
    BY <1>0, <1>5 DEF InitiateReturns, Aborts, Runner, Runners, Dialling
  <2>2. a # runner.att => inFlight'[a] = inFlight[a]
    BY <1>0, <1>5 DEF InitiateReturns
  <2>3. a \in InFlight' => a \in InFlight \/ a = runner.att
    BY <2>2 DEF InFlight
  <2> QED
    BY <1>5, <2>1, <2>3 DEF Owed
<1>6. CASE TakeResult \/ HangupCall \/ Stop
  <2>1. inFlight' = inFlight /\ (runner'.pc \notin Dialling \/ runner' = runner)
    BY <1>0, <1>6 DEF TakeResult, HangupCall, Stop, Runners, Dialling
  <2> QED
    BY <2>1 DEF InFlight, Owed
<1>7. CASE HangupReturns
  <2>1. runner'.pc \notin Dialling /\ inFlight' = [inFlight EXCEPT ![runner.res.att].hangup = TRUE]
    BY <1>0, <1>7 DEF HangupReturns, Runners, Dialling
  <2>2. inFlight'[a].here = inFlight[a].here
    BY <1>0, <2>1 DEF Flags
  <2> QED
    BY <2>1, <2>2 DEF InFlight, Owed
<1>8. CASE HandleResult
  <2>1. runner'.pc \notin Dialling
    BY <1>0, <1>8 DEF HandleResult, Runners, Dialling
  <2>2. runner.pc \in Handling
    BY <1>8 DEF HandleResult, Runner, Handling
  <2>3. runner.res.att \in Attempts /\ inFlight[runner.res.att].here
    BY <2>2, RunnerAtt DEF ExpInv, Progress
  <2>4. \E w : inFlight' = [inFlight EXCEPT ![runner.res.att] = w]
    BY <1>8 DEF HandleResult
  <2>5. a \in InFlight' => a \in InFlight
    BY <1>0, <2>3, <2>4 DEF InFlight
  <2> QED
    BY <2>1, <2>5 DEF Owed
<1> QED
  BY <1>1, <1>2, <1>3, <1>4, <1>5, <1>6, <1>7, <1>8 DEF Run

\* A report is kept until the runner is done with the attempt.
LEMMA ReportKept ==
    ASSUME Calm, Step, NEW a \in Attempts, Reported(a), Owed(a)'
    PROVE  Reported(a)'
<1>0. /\ ExpInv /\ Next /\ results \in Seq(Records) /\ exp' = exp /\ runner \in Runners
      /\ inFlight \in [Attempts -> Flags]
  BY WhoSteps DEF Calm, Step, ExpInv, Shaped
<1> DEFINE Final(x) == x \in {"closed", "error"} \/ (exp.oda /\ x = "oda")
<1>f. /\ \A x : Completes(x) <=> Final(x)
      /\ \A x : Completes(x)' <=> Final(x)
  BY <1>0 DEF Completes, waitForODA
<1>r. \/ \E i \in DOMAIN results : results[i].att = a /\ Final(results[i].outcome)
      \/ runner.res # <<>> /\ runner.res.att = a /\ Final(runner.res.outcome)
  BY <1>f DEF Reported, Outcome
<1>s. ASSUME \/ \E i \in DOMAIN results' : results'[i].att = a /\ Final(results'[i].outcome)
             \/ runner'.res # <<>> /\ runner'.res.att = a /\ Final(runner'.res.outcome)
      PROVE  Reported(a)'
  BY <1>0, <1>s DEF Reported, Outcome, Completes, waitForODA
<1> HIDE DEF Final
<1>1. CASE TakeResult
  <2>1. /\ results # <<>> /\ results' = Tail(results) /\ runner.pc = "wait" /\ inFlight' = inFlight
        /\ \/ ~inFlight[Head(results).att].here /\ runner' = runner
           \/ runner' = [runner EXCEPT !.res = Head(results), !.pc = "handle"]
    BY <1>1 DEF TakeResult, Runner
  <2>2. runner.res = <<>>
    BY <2>1 DEF Calm, ExpInv, Progress, Handling
  <2>3. PICK i \in DOMAIN results : results[i].att = a /\ Final(results[i].outcome)
    BY <1>r, <2>2
  <2>4. CASE i = 1
    <3>1. results[i] = Head(results) /\ Head(results) \in Records
      BY <1>0, <2>1, <2>4
    <3>2. CASE ~inFlight[Head(results).att].here /\ runner' = runner
      <4>1. ~Owed(a)'
        BY <2>1, <2>3, <3>1, <3>2 DEF Owed, InFlight, Dialling
      <4> QED
        BY <4>1
    <3>3. CASE runner' = [runner EXCEPT !.res = Head(results), !.pc = "handle"]
      <4>1. runner'.res = Head(results)
        BY <1>0, <3>3 DEF Runners
      <4>2. Head(results) # <<>>
        <5>1. "att" \in DOMAIN Head(results) /\ DOMAIN <<>> = {}
          BY <3>1 DEF Records
        <5> QED
          BY <5>1
      <4> QED
        BY <1>s, <2>3, <3>1, <4>1, <4>2
    <3> QED
      BY <2>1, <3>2, <3>3
  <2>5. CASE i # 1
    <3>1. i - 1 \in DOMAIN results' /\ results'[i - 1] = results[i]
      BY <1>0, <2>1, <2>5
    <3> QED
      BY <1>s, <2>3, <3>1
  <2> QED
    BY <2>4, <2>5
<1>2. CASE HandleResult
  <2>1. results' = results
    BY <1>2 DEF HandleResult
  <2>2. CASE Completes(Outcome)
    <3>1. inFlight' = [inFlight EXCEPT ![runner.res.att] = NotInFlight] /\ runner'.pc \notin Dialling
      BY <1>0, <1>2, <2>2 DEF HandleResult, Runners, Dialling
    <3>2. a # runner.res.att
      BY <1>0, <3>1 DEF Owed, InFlight, NotInFlight
    <3> QED
      BY <1>r, <1>s, <2>1, <3>2
  <2>3. CASE ~Completes(Outcome)
    BY <1>f, <1>r, <1>s, <2>1, <2>3 DEF Outcome
  <2> QED
    BY <2>2, <2>3
<1>3. CASE ~TakeResult /\ ~HandleResult
  <2>1. runner'.res = runner.res
    <3>1. CASE ~Run
      BY <1>0, <3>1, WhoSteps
    <3>2. CASE StartOne \/ InitiateReturns
      BY <1>0, <3>2 DEF StartOne, InitiateReturns, Aborts, Runners
    <3>3. CASE Dialled \/ DialerEmits \/ DialerMarks \/ HangupCall \/ HangupReturns \/ Stop
      BY <1>0, <3>3 DEF Dialled, DialerEmits, DialerMarks, HangupCall, HangupReturns, Stop, Runners
    <3> QED
      BY <1>3, <3>1, <3>2, <3>3 DEF Run
  <2>2. \A i \in DOMAIN results : i \in DOMAIN results' /\ results'[i] = results[i]
    <3>1. CASE results' = results
      BY <3>1
    <3>2. ASSUME NEW r, Gives(r)
          PROVE  \A i \in DOMAIN results : i \in DOMAIN results' /\ results'[i] = results[i]
      BY <1>0, <3>2 DEF Gives
    <3> QED
      BY <1>0, <1>3, <3>1, <3>2, ResultSteps
  <2> QED
    BY <1>r, <1>s, <2>1, <2>2
<1> QED
  BY <1>1, <1>2, <1>3

\* The closing of a call is reported when it is handled.
LEMMA ClosingReported ==
    ASSUME Calm, Step, NEW n \in Callees, ToClose(n), ~ToClose(n)'
    PROVE  Reported(calls[n].att)'
<1>1. IsClosing(Head(eventChan), n) /\ (OnOutgoing \/ OnAnswered \/ OnClosed)
  BY CloseSteps DEF Closings
<1>2. OnClosed /\ Head(eventChan).call = n
  BY <1>1 DEF IsClosing, IsEvent, OnOutgoing, OnAnswered, NextEvent
<1>3. Found(n) = {calls[n].att}
  BY FoundIs
<1>4. EmitResult(Record(calls[n].att, "closed"))
  <2>1. \E a \in Found(n) : EmitResult(Record(a, "closed"))
    BY <1>2, <1>3 DEF OnClosed
  <2> QED
    BY <1>3, <2>1
<1>5. results' = Append(results, Record(calls[n].att, "closed"))
  BY <1>4, NoFault DEF EmitResult
<1>6. results \in Seq(Records) /\ Record(calls[n].att, "closed") \in Records
  BY CallsAre DEF Calm, ExpInv, Shaped, Record, Records
<1>7. /\ Len(results) + 1 \in DOMAIN results'
      /\ results'[Len(results) + 1] = Record(calls[n].att, "closed")
  BY <1>5, <1>6
<1>8. Record(calls[n].att, "closed").att = calls[n].att /\ Record(calls[n].att, "closed").outcome = "closed"
  BY DEF Record
<1>9. calls' = calls
  BY <1>2, LoopTakes
<1> QED
  BY <1>7, <1>8, <1>9 DEF Reported, Completes

LEMMA StepOwing == ASSUME Calm, Step PROVE Owing'
<1>0. ExpInv /\ Next /\ runner.att \in Nat
  BY RunnerAtt DEF Calm, Step
<1>w. /\ \A a \in InFlight : Called(a)
      /\ \A n \in Callees : Owed(calls[n].att) => ToClose(n) \/ Reported(calls[n].att)
  BY DEF Calm, QuietInv, Owing
<1>c. /\ \A n \in Callees : n \in Callees' /\ calls'[n].att = calls[n].att
      /\ \A a : Called(a) => Called(a)'
  BY CallsOf
<1>1. ASSUME NEW a \in InFlight'
      PROVE  Called(a)'
  <2>1. a \in Attempts
    BY DEF InFlight
  <2>2. InitiateReturns /\ a = runner.att => Called(a)
    BY DialSucceeds DEF InitiateReturns, Runner
  <2> QED
    BY <1>0, <1>c, <1>w, <2>1, <2>2, OwedSteps
<1>2. ASSUME NEW n \in Callees', NEW a \in Attempts, a = calls'[n].att, Owed(a)'
      PROVE  ToClose(n)' \/ Reported(a)'
  <2>1. CASE n \notin Callees
    BY <2>1, CloseSteps DEF Closings
  <2>2. CASE n \in Callees /\ Owed(a)
    <3>1. ToClose(n) \/ Reported(a)
      BY <1>c, <1>2, <1>w, <2>2
    <3>2. CASE Reported(a)
      BY <1>2, <3>2, ReportKept
    <3>3. CASE ToClose(n) /\ ~ToClose(n)'
      <4>1. a = calls[n].att
        BY <1>c, <1>2, <2>2
      <4>2. \A b : b = calls[n].att /\ calls'[n].att = calls[n].att => (Reported(b)' <=> Reported(calls[n].att)')
        OBVIOUS
      <4> QED
        BY <1>c, <2>2, <3>3, <4>1, <4>2, ClosingReported
    <3> QED
      BY <3>1, <3>2, <3>3
  <2>3. CASE n \in Callees /\ ~Owed(a)
    <3>1. a = runner.att + 1
      BY <1>0, <1>2, <2>3, OwedSteps
    <3>2. calls[n].att <= runner.att /\ calls[n].att = a
      BY <1>c, <1>2, <2>3 DEF Calm, QuietInv, Owner
    <3> QED
      BY <1>0, <3>1, <3>2
  <2> QED
    BY <2>1, <2>2, <2>3
<1>3. \A n \in Callees' : calls'[n].att \in Attempts
  <2>1. calls' \in Seq(Calls)
    BY <1>0, CallSteps
  <2> QED
    <3>1. DOMAIN calls' = 1 .. Len(calls') /\ \A n \in DOMAIN calls' : calls'[n] \in Calls
      BY <2>1
    <3> QED
      BY <3>1 DEF Callees, Calls
<1> QED
  BY <1>1, <1>2, <1>3 DEF Owing
-----------------------------------------------------------------------------
(* Nothing is forgotten: the invariant, and what it gives. *)

LEMMA InitForget == ASSUME Init PROVE ForgetInv
<1>1. /\ wire = <<>> /\ back = <<>> /\ eventChan = <<>> /\ calls = <<>> /\ owed = {}
      /\ cmd = [c \in Callers |-> NoCommand] /\ link = "up" /\ reader = "run"
      /\ att = [a \in Attempts |-> NoSession] /\ inFlight = [a \in Attempts |-> NotInFlight]
      /\ loop.pc = "idle" /\ runner.pc = "start" /\ runner.att = 0
  BY DEF Init, ClientInit
<1>2. Stream = <<>> /\ DOMAIN <<>> = {} /\ Callees = {}
  <2>1. <<>> \o <<>> = <<>> /\ DOMAIN <<>> = {} /\ Len(<<>>) = 0
    OBVIOUS
  <2> QED
    BY <1>1, <2>1 DEF Stream, Callees
<1>3. /\ NoSession.reg = FALSE /\ NoSession.call = 0 /\ NotInFlight.here = FALSE
      /\ NoCommand.chan = <<>> /\ NoCommand.op = "none" /\ "runner" \in Callers
  BY ExpConst DEF NoSession, NotInFlight, NoCommand
<1>4. OneOpen /\ Fresh
  BY <1>1, <1>3 DEF OneOpen, Fresh
<1>5. Healthy /\ ClosingLast /\ Owner
  BY <1>1, <1>2, <1>3 DEF Healthy, ClosingLast, Owner
<1>6. OneDial /\ DialAnswered
  BY <1>1, <1>2, <1>3 DEF OneDial, DialAnswered
<1>7. InFlight = {}
  BY <1>1, <1>3 DEF InFlight
<1>8. Owing
  BY <1>2, <1>7 DEF Owing
<1> QED
  BY <1>4, <1>5, <1>6, <1>8 DEF ForgetInv, QuietInv

LEMMA StepForget == ASSUME ExpInv, ForgetInv, [Next]_evars PROVE ForgetInv'
<1>1. CASE Next
  <2>1. OneOpen' /\ Fresh'
    BY <1>1, StepOpen DEF ForgetInv
  <2>2. ASSUME Quiet'
        PROVE  QuietInv'
    <3>1. Calm /\ Step
      BY <1>1, <2>2, Undisturbed
    <3> QED
      BY <3>1, StepHealthy, CloseSteps, StepOwner, StepOneDial, StepDialAnswered, StepOwing DEF Closings, QuietInv
  <2> QED
    BY <2>1, <2>2 DEF ForgetInv
<1>2. CASE UNCHANGED evars
  <2>1. /\ UNCHANGED <<tokens, cmd, pending, wire, back, link, reader, eventChan, errorChan, closed, faults>>
        /\ UNCHANGED <<calls, owed, att, results, loop, oda, exp, runner, inFlight, rows>>
    BY <1>2
  <2>2. (OneOpen /\ Fresh)' <=> (OneOpen /\ Fresh)
    BY <2>1 DEF OneOpen, Removed, Fresh
  <2>3. Quiet' <=> Quiet
    BY <2>1 DEF Quiet
  <2>4. /\ Callees' = Callees /\ InFlight' = InFlight /\ Stream' = Stream
        /\ \A n : ToClose(n)' <=> ToClose(n)
        /\ \A a : Called(a)' <=> Called(a)
        /\ Uncalled' <=> Uncalled
    BY <2>1 DEF Callees, InFlight, Stream, ToClose, Closing, Called, Uncalled
  <2>5. \A a : Owed(a)' <=> Owed(a)
    BY <2>1, <2>4 DEF Owed
  <2>6. \A a : Reported(a)' <=> Reported(a)
    BY <2>1 DEF Reported, Outcome, Completes, waitForODA
  <2>7. Healthy' <=> Healthy
    BY <2>1 DEF Healthy
  <2>8. ClosingLast' <=> ClosingLast
    BY <2>1, <2>4 DEF ClosingLast, Closing
  <2>9. Owner' <=> Owner
    BY <2>1, <2>4 DEF Owner
  <2>10. OneDial' <=> OneDial
    BY <2>1, <2>4 DEF OneDial
  <2>11. DialAnswered' <=> DialAnswered
    BY <2>1, <2>4 DEF DialAnswered, AnsweredWith
  <2>12. Owing' <=> Owing
    BY <2>1, <2>4, <2>5, <2>6 DEF Owing
  <2> QED
    BY <2>2, <2>3, <2>7, <2>8, <2>9, <2>10, <2>11, <2>12 DEF ForgetInv, QuietInv
<1> QED
  BY <1>1, <1>2

LEMMA ForgetAlways == Spec => [](ExpInv /\ ForgetInv)
<1>1. Init => ExpInv /\ ForgetInv
  BY InitExp, InitForget
<1>2. ExpInv /\ ForgetInv /\ [Next]_evars => (ExpInv /\ ForgetInv)'
  BY StepExp, StepForget
<1> QED
  BY <1>1, <1>2, PTL DEF Spec

LEMMA NoneWhenClosed == ASSUME ExpInv, closed PROVE InFlight = {}
<1>1. runner.pc = "done" /\ runner.completed = exp.runs
  BY DEF ExpInv, Progress
<1>2. /\ runner.started <= exp.runs /\ runner.completed <= runner.started
      /\ Cardinality(InFlight) = runner.started - runner.completed
  BY DEF ExpInv, Progress
<1>3. Cardinality(InFlight) = 0
  BY <1>1, <1>2, RunnerAtt
<1>4. IsFiniteSet(InFlight)
  <2>1. IsFiniteSet(Attempts)
    BY ExpConst, FS_Interval DEF Attempts
  <2> QED
    BY <2>1, FS_Subset DEF InFlight
<1> QED
  BY <1>3, <1>4, FS_EmptySet

LEMMA NothingThen == ASSUME ExpInv, ForgetInv PROVE NothingIsForgotten
<1> SUFFICES ASSUME faults = 0, NEW a \in Attempts, inFlight[a].here
             PROVE  OnItsWay(a)
  BY DEF NothingIsForgotten
<1>1. a \in InFlight
  BY DEF InFlight
<1>2. Calm
  BY <1>1, NoneWhenClosed DEF Calm, ForgetInv, Quiet, ExpInv, Connected
<1>3. PICK n \in Callees : calls[n].att = a /\ (ToClose(n) \/ Reported(a))
  BY <1>1, <1>2 DEF Calm, QuietInv, Owing, Owed, Called
<1>4. CASE Reported(a)
  BY <1>4 DEF Reported, OnItsWay
<1>5. CASE ToClose(n)
  <2>1. att[a].reg
    BY <1>2, <1>3, <1>5 DEF Calm, QuietInv, Owner
  <2>2. CASE Closing(n)
    <3>1. PICK i \in DOMAIN Stream : IsClosing(Stream[i], n)
      BY <2>2 DEF Closing
    <3>2. Stream[i] = Event("closed", n)
      <4>1. Stream[i] \in Frames /\ Stream[i].kind = "event"
        BY <1>2, <3>1, StreamIs DEF IsClosing, IsEvent
      <4>2. Stream[i] \in Events
        BY <4>1, FrameKinds
      <4> QED
        BY <3>1, <4>2 DEF IsClosing, IsEvent, Events, Event
    <3>3. Stream[i] \in {back[j] : j \in DOMAIN back} \cup {eventChan[j] : j \in DOMAIN eventChan}
      <4>1. eventChan \in Seq(Events) /\ back \in Seq(Frames)
        BY <1>2 DEF Calm, ExpInv, MatchInv, Held, Connected
      <4>2. /\ Len(eventChan) \in Nat /\ Len(back) \in Nat
            /\ DOMAIN Stream = 1 .. Len(eventChan) + Len(back)
            /\ DOMAIN eventChan = 1 .. Len(eventChan) /\ DOMAIN back = 1 .. Len(back)
            /\ \A j \in 1 .. Len(eventChan) + Len(back) :
                  Stream[j] = IF j <= Len(eventChan) THEN eventChan[j] ELSE back[j - Len(eventChan)]
        BY <4>1, Joined DEF Stream
      <4>3. CASE i <= Len(eventChan)
        BY <3>1, <4>2, <4>3
      <4>4. CASE i > Len(eventChan)
        <5>1. i - Len(eventChan) \in DOMAIN back /\ Stream[i] = back[i - Len(eventChan)]
          BY <3>1, <4>2, <4>4
        <5> QED
          BY <5>1
      <4> QED
        BY <3>1, <4>2, <4>3, <4>4
    <3> QED
      BY <1>3, <2>1, <3>2, <3>3 DEF OnItsWay
  <2>3. CASE calls[n].state # "over"
    BY <1>3, <2>1, <2>3 DEF OnItsWay
  <2> QED
    BY <1>5, <2>2, <2>3 DEF ToClose
<1> QED
  BY <1>3, <1>4, <1>5

\* main.go:494: unless baresip, the connection or a full channel fails it, the runner never
\* waits for an attempt whose end has been reported, or will not be.
THEOREM NoneForgotten == Spec => []NothingIsForgotten
BY ForgetAlways, NothingThen, PTL
=============================================================================
