---------------------------- MODULE Investigation ---------------------------
(***************************************************************************)
(* What the autonomous investigator knows about a case (agents/state.py),  *)
(* what its planner proposes next (agents/planner.py), and what each tool  *)
(* folds back into the case (agents/tools.py).  The batch loop and the     *)
(* task scheduler both work on these.                                      *)
(*                                                                         *)
(* An indicator is one key of the code's IOC dictionaries; what a tool     *)
(* finds out there (the indicators of a text, the verdict of a feed, what  *)
(* a sample drops) is any value.                                           *)
(***************************************************************************)
EXTENDS Integers, FiniteSets

CONSTANTS Iocs,            \* keys of indicators
          MaxAttachments,  \* bound: attachments of the reported email
          FeedVerdicts     \* the fused verdicts that threat intel may give

(* "single" is a malicious verdict that rests on one source. *)
Verdicts == {"malicious", "single", "suspicious", "unknown"}

ASSUME InvestigationAssumption ==
  /\ MaxAttachments \in Nat
  /\ FeedVerdicts \subseteq Verdicts

Files == 1..MaxAttachments

Tools == {"run_detections", "fetch_email_context", "extract_iocs",
          "enrich_iocs", "detonate_attachment", "hunt_edr"}

(* A planned action: file is the attachment it is about, keys the indicators. *)
Action == [tool : Tools, file : Files \cup {0}, keys : SUBSET Iocs]

Act(tool) == [tool |-> tool, file |-> 0, keys |-> {}]
Detonate(f) == [tool |-> "detonate_attachment", file |-> f, keys |-> {}]
Hunt(keys) == [tool |-> "hunt_edr", file |-> 0, keys |-> keys]

-----------------------------------------------------------------------------
(* InvestigationState *)

Case == [phishing : BOOLEAN,       \* looks_like_phishing
         detections_ran : BOOLEAN,
         email_checked : BOOLEAN,
         attachments : SUBSET Files,  \* of email_msg
         extracted : BOOLEAN,
         pending_iocs : SUBSET Iocs,
         verdict : [Iocs -> Verdicts \cup {"none"}],  \* enriched
         hunted_keys : SUBSET Iocs,
         detonated : SUBSET Files]

NewCase(phishing) ==
  [phishing |-> phishing, detections_ran |-> FALSE, email_checked |-> FALSE,
   attachments |-> {}, extracted |-> FALSE, pending_iocs |-> {},
   verdict |-> [k \in Iocs |-> "none"], hunted_keys |-> {}, detonated |-> {}]

Enriched(st) == {k \in Iocs : st.verdict[k] # "none"}
Malicious(st) == {k \in Iocs : st.verdict[k] \in {"malicious", "single"}}
Known(st) == st.pending_iocs \cup Enriched(st)

AddIocs(st, found) == [st EXCEPT !.pending_iocs = @ \cup (found \ Enriched(st))]

RecordEnrichment_ClearsPending(st, results) ==
  [st EXCEPT !.verdict = [k \in Iocs |-> IF k \in DOMAIN results THEN results[k] ELSE @[k]],
             !.pending_iocs = {}]
RecordEnrichment(st, results) ==
  [st EXCEPT !.verdict = [k \in Iocs |-> IF k \in DOMAIN results THEN results[k] ELSE @[k]],
             !.pending_iocs = @ \ DOMAIN results]

-----------------------------------------------------------------------------
(* Planner.next_actions: the first phase that has something to do. *)

When(condition, actions) == IF condition THEN actions ELSE {}

Widen(st) ==
  When(~ st.detections_ran, {Act("run_detections")}) \cup
  When(st.phishing /\ ~ st.email_checked, {Act("fetch_email_context")})

Collect(st) ==
  When(st.pending_iocs # {}, {Act("enrich_iocs")}) \cup
  {Detonate(f) : f \in st.attachments \ st.detonated}

HuntNext_OnlyMalicious(st) ==
  When(Malicious(st) \ st.hunted_keys # {}, {Hunt(Malicious(st) \ st.hunted_keys)})
HuntNext_AllOver(st) == When(Enriched(st) # {}, {Hunt(Enriched(st))})
(* Malicious indicators first; if there is none, all of them, once. *)
HuntNext(st) ==
  IF Malicious(st) \ st.hunted_keys # {} THEN {Hunt(Malicious(st) \ st.hunted_keys)}
  ELSE When(st.hunted_keys = {} /\ Enriched(st) # {}, {Hunt(Enriched(st))})

NextActions_HuntsEarly(st) ==
  IF Widen(st) # {} THEN Widen(st)
  ELSE IF ~ st.extracted THEN {Act("extract_iocs")}
  ELSE Collect(st) \cup HuntNext(st)
NextActions(st) ==
  IF Widen(st) # {} THEN Widen(st)
  ELSE IF ~ st.extracted THEN {Act("extract_iocs")}
  ELSE IF Collect(st) # {} THEN Collect(st)
  ELSE HuntNext(st)

-----------------------------------------------------------------------------
(* The tools: the cases each may leave behind when it has folded what it
   learnt.  keys are what the tool read from the case before its first await:
   the indicators pending then, for an enrichment. *)
Folded(st, a) ==
  CASE a.tool = "run_detections" -> {[st EXCEPT !.detections_ran = TRUE]}
    [] a.tool = "fetch_email_context" -> {[st EXCEPT !.extracted = FALSE]}
    [] a.tool = "extract_iocs" ->
         {[AddIocs(st, found) EXCEPT !.extracted = TRUE] : found \in SUBSET Iocs}
    [] a.tool = "enrich_iocs" ->
         {RecordEnrichment(st, results) : results \in [a.keys -> FeedVerdicts]}
    [] a.tool = "detonate_attachment" ->
         {AddIocs([st EXCEPT !.detonated = @ \cup {a.file}], dropped) :
            dropped \in SUBSET Iocs}
    [] a.tool = "hunt_edr" -> {[st EXCEPT !.hunted_keys = @ \cup a.keys]}

-----------------------------------------------------------------------------
(* The order of the planner's list: the detections before the message, the
   enrichment before the detonations. *)
Position(actions) ==
  [a \in actions |->
     IF a.tool \in {"fetch_email_context", "detonate_attachment"} THEN 2 ELSE 1]

(* What the first k actions of a list leave out comes after them in it. *)
FirstOf(actions, k, rank) ==
  IF k >= Cardinality(actions) THEN {actions}
  ELSE {S \in SUBSET actions :
          /\ Cardinality(S) = k
          /\ \A a \in S, b \in actions \ S : rank[a] <= rank[b]}

(* Every detection and text source was used, every indicator has a verdict,
   every attachment was detonated, every malicious indicator was hunted, and
   if there is none some hunt ran. *)
Covered(st) ==
  /\ st.detections_ran /\ st.extracted
  /\ st.phishing => st.email_checked
  /\ st.pending_iocs = {} /\ st.attachments \subseteq st.detonated
  /\ Malicious(st) \subseteq st.hunted_keys
  /\ Enriched(st) # {} => st.hunted_keys # {}
=============================================================================
