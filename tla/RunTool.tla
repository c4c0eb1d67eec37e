------------------------------ MODULE RunTool -------------------------------
(***************************************************************************)
(* The tools that run at the same time on one case (agents/loop.py         *)
(* run_tool, agents/tools.py).  They share an event loop, so a tool is     *)
(* alone between two of its awaits: it reads the case, awaits its          *)
(* connector, and folds what it learnt into whatever the case is by then.  *)
(***************************************************************************)
EXTENDS Investigation

CONSTANT EvidenceMayRaise  \* the evidence store is remote, not the dictionary

ASSUME EvidenceAssumption == EvidenceMayRaise \in BOOLEAN

VARIABLES st,      \* the case
          flight,  \* the tools that are running
          reached  \* those of flight that are past their first await

toolVars == <<st, flight, reached>>

Run == [id : Nat, tool : Tools, file : Files \cup {0}, keys : SUBSET Iocs]

ToolTypeOK ==
  /\ st \in Case
  /\ flight \subseteq Run
  /\ reached \subseteq flight

(* What the action reads before its first await. *)
Started(a, id) ==
  [id |-> id, tool |-> a.tool, file |-> a.file,
   keys |-> IF a.tool = "enrich_iocs" THEN st.pending_iocs ELSE a.keys]

End(a) ==
  /\ flight' = flight \ {a}
  /\ reached' = reached \ {a}

(* fetch_email_context has the message, folds it, and goes on to its second
   await; a message fetched again has the same attachments. *)
FetchMessage(a) ==
  /\ a \in flight \ reached
  /\ a.tool = "fetch_email_context"
  /\ \E n \in 0..MaxAttachments :
       /\ st.email_checked => st.attachments = 1..n
       /\ st' = [st EXCEPT !.email_checked = TRUE, !.attachments = 1..n]
  /\ reached' = reached \cup {a}
  /\ UNCHANGED flight

Finishing(a) == a \in flight /\ (a.tool = "fetch_email_context" => a \in reached)

ToolReturns(a) ==
  /\ Finishing(a)
  /\ st' \in Folded(st, a)
  /\ End(a)

(* run_tool swallows the exception.  A connector raises before the tool has
   folded anything (or, the second of fetch_email_context, after its first
   fold), a remote evidence store after it; extract_iocs keeps no evidence, and
   fetch_email_context resets extracted after its last write. *)
ToolRaises(a) ==
  /\ \/ a \in flight /\ UNCHANGED st
     \/ /\ EvidenceMayRaise /\ Finishing(a)
        /\ a.tool \notin {"extract_iocs", "fetch_email_context"}
        /\ st' \in Folded(st, a)
  /\ End(a)

(* An indicator waits for a verdict or has one, never both, and only one that
   has one is hunted, although detonations add indicators while an enrichment
   works on its snapshot of those pending (state.py add_iocs, record_enrichment). *)
IocLifecycle ==
  /\ st.pending_iocs \cap Enriched(st) = {}
  /\ st.hunted_keys \subseteq Enriched(st)
  /\ \A a \in flight : a.tool = "enrich_iocs" => a.keys \subseteq st.pending_iocs

(* While a hunt runs nothing else does and nothing waits to be enriched or
   detonated ("Never hunt while enrichment/detonation is queued"), so no
   malicious indicator turns up behind its back. *)
HuntsAreQuiescent ==
  \A a \in flight : a.tool = "hunt_edr" =>
    /\ flight = {a}
    /\ st.pending_iocs = {} /\ st.attachments \subseteq st.detonated
    /\ Malicious(st) \subseteq st.hunted_keys \cup a.keys
=============================================================================
