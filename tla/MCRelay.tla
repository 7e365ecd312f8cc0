------------------------------- MODULE MCRelay -------------------------------
(* Instances of Relay for TLC.  Each .cfg picks the sessions, the bounds and   *)
(* the sender assignment.                                                     *)
EXTENDS Relay, TLC

CONSTANTS s1, s2, s3, alice, bob, carol

\* Every stream has a client of its own.
OwnSender == [s \in Sessions |-> IF s = s1 THEN alice ELSE IF s = s2 THEN bob ELSE carol]
\* s1 and s3 are two streams of one client (a reconnection), s2 its peer.
Reconnected == [s \in Sessions |-> IF s = s2 THEN bob ELSE alice]

\* s2's client sends no sender_id.
OneAnonymous == [s \in Sessions |-> IF s = s1 THEN alice ELSE Anonymous]

PlainOnly    == {FALSE}
TerminalOnly == {TRUE}
BothKinds    == {TRUE, FALSE}

\* Every stream with its own name as sender_id: permuting the streams permutes
\* the senders with them, which makes the streams interchangeable.
Itself == [s \in Sessions |-> s]
Interchangeable == Permutations(Sessions)
=============================================================================
