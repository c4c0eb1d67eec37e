------------------------------ MODULE Response -------------------------------
(***************************************************************************)
(* What finalize derives from a verdict: the predicted path, the response  *)
(* plan, the playbook, the root cause, the business impact and what the    *)
(* summary claims (engines/prediction, response, playbook,                 *)
(* agents/specialists/generation.py, the templates of                      *)
(* engines/copilot/client.py). Lists that are only ranked are sets.        *)
(***************************************************************************)
EXTENDS Fingerprint

TacticOrder ==
  <<"reconnaissance", "resource-development", "initial-access", "execution",
    "persistence", "privilege-escalation", "defense-evasion", "credential-access",
    "discovery", "lateral-movement", "collection", "command-and-control",
    "exfiltration", "impact">>
FirstPredictable == 5   \* the table of predictions begins at persistence

TacticsOf(mitre) == {t.tactic : t \in mitre}
Actionable(verdict) == verdict \in {"suspicious", "malicious"}

-----------------------------------------------------------------------------
(* Prediction: the tactics that follow the furthest one observed. *)
Furthest(tactics) == Max({0} \cup {i \in DOMAIN TacticOrder : TacticOrder[i] \in tactics})

Probability(distance, tactic) ==
  LET decayed == IF distance > 7 THEN 100
                 ELSE <<800, 576, 415, 299, 215, 155, 111>>[distance] IN
  IF tactic \in {"exfiltration", "impact"} THEN Atmost(950, decayed + 100) ELSE decayed

Predicted(tactics, verdict) ==
  LET from == Furthest(tactics)
      first == Max({from + 1, FirstPredictable}) IN
  IF ~ Actionable(verdict) THEN {}
  ELSE {[tactic |-> TacticOrder[i], probability |-> Probability(i - from, TacticOrder[i])] :
          i \in first..Atmost(Len(TacticOrder), first + 4)}

(* Root cause: the observed tactics in the order of the kill chain. *)
KillChain(tactics) == SelectSeq(TacticOrder, LAMBDA t : t \in tactics)
InitialVector(mitre) ==
  LET chain == KillChain(TacticsOf(mitre)) IN
  IF chain = <<>> THEN {} ELSE {t \in mitre : t.tactic = Head(chain)}

-----------------------------------------------------------------------------
(* Business impact. A host is its name, the asset classes in it and whether it
   is called after the finance segment. *)
CrownJewels == {"finance", "domain-controller", "server"}
AssetClasses(hosts) == UNION {h.classes : h \in hosts}

Impact(hosts, verdict, risk) ==
  LET crown == AssetClasses(hosts) \cap CrownJewels # {} IN
  IF verdict = "malicious"
  THEN IF crown \/ Cardinality(hosts) >= 10 \/ risk >= 850 THEN "critical" ELSE "high"
  ELSE IF verdict = "suspicious" THEN "medium" ELSE "low"

AssetCriticality(hosts) ==
  IF "finance" \in AssetClasses(hosts) THEN 900 ELSE IF hosts # {} THEN 500 ELSE 300

-----------------------------------------------------------------------------
(* The response plan. impact is the business impact known when the plan is
   made, or "none". *)
Action(kind, target, reduction) == [kind |-> kind, target |-> target, reduction |-> reduction]

Blocks(iocs) ==
  LET malicious == WithVerdict(iocs, {"malicious"}) IN
  {Action("block", v, 700) : v \in ValuesOf(malicious, Network)}
  \cup {Action("block", v, 550) : v \in ValuesOf(malicious, Hashes)}

Plan(verdict, iocs, hosts, users, emailArtifact, impact) ==
  IF ~ Actionable(verdict) THEN {}
  ELSE Blocks(iocs)
       \cup {Action("quarantine", h.name, 800) : h \in hosts}
       \cup {Action("reset", u, 550) : u \in users}
       \cup {Action("disable", u, 600) :
               u \in IF verdict = "malicious" /\ hosts # {} THEN users ELSE {}}
       \cup (IF emailArtifact THEN {Action("purge", "campaign", 600)} ELSE {})
       \cup {Action("notify", team, 100) :
               team \in IF impact \in {"critical", "high"} THEN {"Legal", "Compliance"} ELSE {}}

(* The playbook: the steps for each technique's family, a manual step where a
   malicious case has none, and always a closing one. *)
PlaybookSteps ==
  [T1071 |-> {"block_c2", "add_c2_to_blocklist"}, T1547 |-> {"remove_run_key"},
   T1059 |-> {"isolate_hosts"}, T1486 |-> {"validate_backups"},
   T1566 |-> {"purge_email", "tune_mail_gateway"}]

RecommendPlaybook(mitre, verdict) ==
  LET mapped == UNION {PlaybookSteps[b] : b \in {t.base : t \in mitre} \cap DOMAIN PlaybookSteps} IN
  mapped
  \cup (IF verdict = "malicious" /\ mapped = {} THEN {"escalate_to_tier2"} ELSE {})
  \cup {"promote_iocs"}

(* What the template of the executive summary says of the case. *)
SummaryClaims(verdict) ==
  IF verdict = "malicious" THEN {"on_host_activity", "detonation", "containment"}
  ELSE IF verdict = "suspicious" THEN {"potential_exposure"} ELSE {"no_action"}
=============================================================================
