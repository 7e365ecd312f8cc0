---------------------------- MODULE BaresipClient ----------------------------
(***************************************************************************)
(* The control connection to baresip: internal/sipcontroller/baresip.go,    *)
(* over frames of netstring.go, and the way its event loop ends.  Goroutines*)
(* issue commands and wait for the response under their token, a timeout or *)
(* the end of the client; one goroutine reads frames and routes them.  What *)
(* baresip does with a command, and when it emits events, is left to the    *)
(* module that extends this one.                                            *)
(***************************************************************************)
EXTENDS Naturals, Sequences, FiniteSets, Netstring

CONSTANTS
    Callers,      \* the goroutines that issue commands
    EventCap,     \* capacity of eventChan (100 in the code)
    MaxFaults     \* bound: what goes wrong with the connection or its commands

ASSUME CapAssumption == EventCap \in Nat \ {0} /\ MaxFaults \in Nat

VARIABLES
    tokens,      \* tokenCounter
    cmd,         \* per caller: the command it has issued
    pending,     \* pendingCmds: the caller whose channel waits for a token
    wire,        \* commands baresip has not read
    back,        \* frames readLoop has not read
    link,        \* the TCP connection
    reader,      \* readLoop; when it stops it closes eventChan and errorChan
    eventChan, errorChan,
    closed,      \* closedCh is closed
    faults       \* what went wrong so far

commands == <<tokens, cmd, pending>>
reading  == <<back, reader, eventChan, errorChan>>
client   == <<commands, wire, link, reading, closed, faults>>

NoCommand == [pc |-> "idle", op |-> "none", arg |-> 0, token |-> 0, chan |-> <<>>,
              result |-> "none"]
Results == {"ok", "refused", "failed"}    \* an answer, OK or not; or no answer

ClientInit ==
    /\ tokens = 0
    /\ cmd = [c \in Callers |-> NoCommand]
    /\ pending = <<>>
    /\ wire = <<>> /\ back = <<>>
    /\ link = "up"
    /\ reader = "run"
    /\ eventChan = <<>> /\ errorChan = <<>>
    /\ closed = FALSE
    /\ faults = 0

\* What the environment does wrong is bounded; what the program does about it is not, and
\* counts as one more.
Fault == faults < MaxFaults /\ faults' = faults + 1
Noted == faults' = IF faults <= MaxFaults THEN faults + 1 ELSE faults
-----------------------------------------------------------------------------
(* sendCommandCore. *)

\* The token of the next command.  (Faulty variant: every command has the first one.)
SameToken(n) == 1
NextToken(n) == n + 1

\* Registered before it is written.
Issue(c, op, arg) ==
    LET t == NextToken(tokens) IN
    /\ cmd[c].pc = "idle"
    /\ tokens' = t
    /\ cmd' = [cmd EXCEPT ![c] = [NoCommand EXCEPT !.pc = "write", !.op = op, !.arg = arg,
                                                   !.token = t]]
    /\ pending' = [u \in DOMAIN pending \cup {t} |-> IF u = t THEN c ELSE pending[u]]

Forgotten(t) == [u \in DOMAIN pending \ {t} |-> pending[u]]

\* The caller has its result.
Returns(c, result) == cmd' = [cmd EXCEPT ![c].pc = "done", ![c].result = result]

\* It is written; on a connection that is gone that may fail, or seem to work.
Write(c) ==
    /\ cmd[c].pc = "write"
    /\ \/ /\ ~closed
          /\ cmd' = [cmd EXCEPT ![c].pc = "wait"]
          /\ wire' = IF link = "up" THEN Append(wire, cmd[c]) ELSE wire
          /\ UNCHANGED pending
       \/ /\ closed \/ link = "down"
          /\ pending' = Forgotten(cmd[c].token)
          /\ Returns(c, "failed")
          /\ UNCHANGED wire
    /\ UNCHANGED <<tokens, link, reading, closed, faults>>

TakeResponse(c) ==
    /\ cmd[c].pc = "wait" /\ cmd[c].chan # <<>>
    /\ Returns(c, IF Head(cmd[c].chan).ok THEN "ok" ELSE "refused")
    /\ UNCHANGED <<tokens, pending, wire, link, reading, closed, faults>>

\* A caller that gives up takes its entry out.  (Faulty variant: it leaves it.)
LeaveEntry(t) == pending
GiveUp(t) == Forgotten(t)

\* The command timeout, which may come before the answer; or nobody answers any more.
\* (Faulty variant: a command has no timeout.)
Deaf == link = "down" \/ reader # "run"
NeverExpires(k) == FALSE
Expires(k) == k.pc = "wait"
Timeout(c) ==
    /\ Expires(cmd[c])
    /\ IF Deaf THEN UNCHANGED faults ELSE Fault
    /\ pending' = GiveUp(cmd[c].token)
    /\ Returns(c, "failed")
    /\ UNCHANGED <<tokens, wire, link, reading, closed>>

CloseEndsWait(c) ==
    /\ cmd[c].pc = "wait" /\ closed
    /\ pending' = GiveUp(cmd[c].token)
    /\ Returns(c, "failed")
    /\ UNCHANGED <<tokens, wire, link, reading, closed, faults>>
-----------------------------------------------------------------------------
(* readLoop. *)

\* A response goes to the channel registered under its token, if there still is one, and
\* so to the command that reads it.
Route(r) ==
    IF r.token \in DOMAIN pending
      THEN /\ cmd' = [cmd EXCEPT ![pending[r.token]].chan =
                          IF cmd[pending[r.token]].token = r.token THEN Append(@, r) ELSE @]
           /\ pending' = Forgotten(r.token)
      ELSE UNCHANGED <<cmd, pending>>

\* An event that finds the channel full is dropped.
Deliver(e) ==
    IF Len(eventChan) < EventCap
      THEN eventChan' = Append(eventChan, e) /\ UNCHANGED faults
      ELSE Noted /\ UNCHANGED eventChan

ReadFrame ==
    /\ reader = "run" /\ back # <<>>
    /\ back' = Tail(back)
    /\ LET f == Head(back) IN
       CASE f.kind = "response" -> Route(f) /\ UNCHANGED <<reader, eventChan, faults>>
         [] f.kind = "event"    -> Deliver(f) /\ UNCHANGED <<cmd, pending, reader>>
         \* tryParse fails on what is no netstring, and on all that follows
         [] f.kind = "broken"   -> reader' = "stuck"
                                   /\ UNCHANGED <<cmd, pending, eventChan, faults>>
    /\ UNCHANGED <<tokens, wire, link, errorChan, closed>>

\* Decode fails, or the client has been closed: the loop ends and closes its channels.
ReadEnds == closed \/ (link = "down" /\ (reader = "stuck" \/ back = <<>>))
StopReading ==
    /\ reader # "stopped" /\ ReadEnds
    /\ reader' = "stopped"
    /\ errorChan' = IF closed THEN errorChan ELSE Append(errorChan, "read error")
    /\ UNCHANGED <<commands, wire, link, back, eventChan, closed, faults>>
-----------------------------------------------------------------------------
(* The connection. *)

\* It breaks; some of what was under way is lost.
LoseLink ==
    /\ link = "up" /\ Fault
    /\ link' = "down"
    /\ wire' = <<>>
    /\ back' \in {<<>>, back}
    /\ UNCHANGED <<commands, reader, eventChan, errorChan, closed>>

\* Bytes that are no netstring.
Garble ==
    /\ link = "up" /\ Fault
    /\ back' = Append(back, [kind |-> "broken"])
    /\ UNCHANGED <<commands, wire, link, reader, eventChan, errorChan, closed>>

Close == closed' = TRUE
-----------------------------------------------------------------------------
\* What the client does by itself.
CallerSteps(c) == Write(c) \/ TakeResponse(c) \/ Timeout(c) \/ CloseEndsWait(c)
ReaderSteps == ReadFrame \/ StopReading
-----------------------------------------------------------------------------
ClientTypeOK ==
    /\ tokens \in Nat
    /\ \A c \in Callers :
          /\ cmd[c].pc \in {"idle", "write", "wait", "done"}
          /\ cmd[c].result \in Results \cup {"none"}
          /\ Len(cmd[c].chan) <= 1
    /\ DOMAIN pending \subseteq 1 .. tokens /\ \A t \in DOMAIN pending : pending[t] \in Callers
    /\ link \in {"up", "down"}
    /\ reader \in {"run", "stuck", "stopped"}
    /\ Len(eventChan) <= EventCap /\ Len(errorChan) <= 1
    /\ closed \in BOOLEAN /\ faults \in 0 .. MaxFaults + 1

\* baresip.go:190 to 255: responses, late ones too, reach the command they answer and no
\* later one; a command is in the table as long as its answer is awaited, no longer.
Matched ==
    /\ \A c \in Callers : cmd[c].chan # <<>> =>
          /\ Head(cmd[c].chan).op = cmd[c].op /\ Head(cmd[c].chan).arg = cmd[c].arg
    /\ \A t \in 1 .. tokens :
          t \in DOMAIN pending <=>
             \E c \in Callers : /\ cmd[c].token = t /\ cmd[c].chan = <<>>
                                /\ cmd[c].pc \in {"write", "wait"}

\* baresip.go:252: a command returns, though baresip may never answer.
CommandsReturn == \A c \in Callers : cmd[c].pc = "wait" ~> cmd[c].pc # "wait"
=============================================================================
