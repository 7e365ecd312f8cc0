----------------------------- MODULE OdaOutcome -----------------------------
(***************************************************************************)
(* What ODA promises about one call: nothing is asked of a peer whose phone  *)
(* still rings, a request ends one way, the way it ended is reported once,   *)
(* and then the call is over.  Oda shows how the event loop, the callback,   *)
(* the timer and the asking goroutine keep it between them.                  *)
(***************************************************************************)
EXTENDS Naturals

VARIABLES
    phone,     \* the call: ringing, up, over
    open,      \* the session is still there
    request,   \* no request, one that runs, or how it ended
    reports    \* per outcome: the records given of it

ovars == <<phone, open, request, reports>>

Endings == {"oda_done", "oda_timeout"}

Init ==
    /\ phone = "ringing" /\ open = TRUE
    /\ request = "none"
    /\ reports = [o \in Endings |-> 0]

\* The call is answered, or ends; it may end for any reason.
Answer == phone = "ringing" /\ phone' = "up" /\ UNCHANGED <<open, request, reports>>
HangUp == phone # "over" /\ phone' = "over" /\ UNCHANGED <<open, request, reports>>

\* The session goes away, after its call.
Close == phone = "over" /\ open' = FALSE /\ UNCHANGED <<phone, request, reports>>

Ask ==
    /\ phone # "ringing" /\ request = "none"
    /\ request' = "running"
    /\ UNCHANGED <<phone, open, reports>>

End ==
    /\ request = "running"
    /\ request' \in Endings
    /\ UNCHANGED <<phone, open, reports>>

Report ==
    /\ request \in Endings /\ \A o \in Endings : reports[o] = 0
    /\ reports' = [reports EXCEPT ![request] = 1]
    /\ UNCHANGED <<phone, open, request>>

Next == Answer \/ HangUp \/ Close \/ Ask \/ End \/ Report

SafeSpec == Init /\ [][Next]_ovars

\* A request ends unless the session goes first; an ended one is reported, and ends
\* the call, even then.
Spec ==
    /\ SafeSpec
    /\ WF_ovars(open /\ End)
    /\ WF_ovars(Report)
    /\ WF_ovars(request \in Endings /\ HangUp)
=============================================================================
