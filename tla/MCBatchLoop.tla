---------------------------- MODULE MCBatchLoop -----------------------------
(* Two indicators and up to two attachments, with the rounds of the code
   (planner.py Budget) and a tool-call budget that trips. *)
EXTENDS BatchLoop

CONSTANTS k1, k2

TwoIocs == {k1, k2}
SomeVerdicts == {"malicious", "unknown"}
=============================================================================
