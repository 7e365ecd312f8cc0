---------------------------- MODULE MCCallControl ----------------------------
(* Instances of CallControl for TLC: p and q are phone numbers, and the event  *)
(* types are those a baresip may be built to emit.                            *)
EXTENDS CallControl, TLC

CONSTANTS p, q

\* An incoming call is announced by CALL_INCOMING (and CALL_RINGING) ...
Usual     == EventTypes \ {"REMOTE_SDP"}
\* ... and its answer by CALL_ESTABLISHED only (controller.go:1516) ...
OneAnswer == Usual \ {"ANSWERED"}
\* ... without ringing.
Lean      == OneAnswer \ {"RINGING"}
\* ... nor CALL_OUTGOING: a call of our own binds by a later event.
Bare      == Lean \ {"OUTGOING"}
\* It is announced by CALL_REMOTE_SDP (controller.go:269).
OnlySDP   == EventTypes \ {"INCOMING"}
=============================================================================
