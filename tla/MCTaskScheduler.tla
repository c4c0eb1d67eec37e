-------------------------- MODULE MCTaskScheduler ---------------------------
(* One or two indicators and attachments, and budgets of which each trips in
   some behaviour. *)
EXTENDS TaskScheduler

CONSTANTS k1, k2

OneIoc == {k1}
TwoIocs == {k1, k2}
SomeVerdicts == Verdicts \ {"unknown"}
=============================================================================
