------------------------- MODULE MCDurableWorkflow --------------------------
(* One indicator, one attachment, up to one request, and the retry policies of
   temporal_workflow.py (three attempts to save where the code has five). *)
EXTENDS DurableWorkflow

CONSTANT k1

OneIoc == {k1}
SomeVerdicts == {"malicious", "unknown"}
AnyRepo == {"memory", "postgres"}
=============================================================================
