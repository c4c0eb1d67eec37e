----------------------------- MODULE Fingerprint -----------------------------
(***************************************************************************)
(* Incident DNA (engines/fingerprint/engine.py) and the estimate of an     *)
(* actor's type from it (engines/campaign/attribution.py). A fingerprint   *)
(* is its feature set; the threat, campaign and incident fingerprints are  *)
(* functions of the four kept here and of the verdict. Similarity is in    *)
(* ten-thousandths.                                                        *)
(***************************************************************************)
EXTENDS ThreatIntel

Network == Addresses \cup Names
Artifacts == Hashes \cup {"filename", "mutex", "registry_key"}

ValuesOf(iocs, types) == {e.value : e \in {f \in iocs : f.type \in types}}

Dna(iocs, mitre, users) ==
  [infrastructure |-> ValuesOf(Interesting(iocs), Network),
   malware |-> ValuesOf(Interesting(iocs), Artifacts),
   ttp |-> {t.id : t \in mitre},
   identity |-> users \cup ValuesOf(iocs, {"email"})]

Kinds == {"infrastructure", "malware", "ttp", "identity"}
KindWeight == [infrastructure |-> 30, malware |-> 30, ttp |-> 25, identity |-> 15]

Shared(a, b) == {k \in Kinds : a[k] \cap b[k] # {}}

(* Jaccard overlap, weighted over the dimensions that either incident has. *)
OverKinds(n) == n.infrastructure + n.malware + n.ttp + n.identity
Overlap(common, all) == RoundDiv(1000000 * Cardinality(common), Cardinality(all))
Resemblance(common, all) ==
  LET compared == {k \in Kinds : all[k] # {}}
      sum(n) == OverKinds([k \in Kinds |-> IF k \in compared THEN n[k] ELSE 0]) IN
  IF compared = {} THEN 0
  ELSE RoundDiv(sum([k \in Kinds |-> KindWeight[k] * Overlap(common[k], all[k])]),
                100 * sum(KindWeight))
Similarity(a, b) ==
  Resemblance([k \in Kinds |-> a[k] \cap b[k]], [k \in Kinds |-> a[k] \cup b[k]])

MinSimilarity_AboveLinks == 5000
MinSimilarity == 1500

(* match: of the prior rows, a list, those of other incidents that are similar
   and share a feature; the first limit of them by similarity, which the stable
   sort leaves in their order where it is the same. *)
Matching(incident, dna, priors) ==
  {x \in DOMAIN priors : /\ priors[x].incident # incident
                         /\ Similarity(dna, priors[x].dna) >= MinSimilarity
                         /\ Shared(dna, priors[x].dna) # {}}

Ahead_Ascending(dna, priors, x, y) ==
  \/ Similarity(dna, priors[x].dna) < Similarity(dna, priors[y].dna)
  \/ Similarity(dna, priors[x].dna) = Similarity(dna, priors[y].dna) /\ x < y
Ahead(dna, priors, x, y) ==
  \/ Similarity(dna, priors[x].dna) > Similarity(dna, priors[y].dna)
  \/ Similarity(dna, priors[x].dna) = Similarity(dna, priors[y].dna) /\ x < y

BestMatches(incident, dna, priors, limit) ==
  LET matching == Matching(incident, dna, priors)
      ahead(y) == {x \in matching : Ahead(dna, priors, x, y)} IN
  {priors[y] : y \in {z \in matching : Cardinality(ahead(z)) < limit}}

-----------------------------------------------------------------------------
(* attribute. *)
Ransomware == {"T1486", "T1490", "T1489", "T1491"}
CredentialAccess == {"T1003", "T1110", "T1555", "T1552", "T1558"}
Lateral == {"T1021", "T1570", "T1210", "T1534"}
CommandAndControl == {"T1071", "T1105", "T1572", "T1090"}
HighValueTactics == {"initial-access", "execution", "persistence",
                     "privilege-escalation", "defense-evasion", "credential-access",
                     "lateral-movement", "command-and-control", "exfiltration"}

Uses(techniques, bases) == \E t \in techniques : t.base \in bases

Candidates_InsiderByInfra(techniques, infra, malware, hosts) ==
  IF Uses(techniques, {"T1078"}) /\ infra = 0
  THEN {[type |-> "insider", confidence |-> 600]} ELSE {}

Candidates(techniques, infra, malware, hosts) ==
  LET breadth == Cardinality({t.tactic : t \in techniques} \cap HighValueTactics)
      if(condition, type, confidence) ==
        IF condition THEN {[type |-> type, confidence |-> confidence]} ELSE {} IN
  if(Uses(techniques, Ransomware), "ransomware", 850)
  \cup if(Uses(techniques, {"T1078"}) /\ infra = 0 /\ malware = 0, "insider", 600)
  \cup if(Uses(techniques, CommandAndControl) /\ infra >= 3 /\ hosts >= 3, "botnet", 650)
  \cup if(breadth >= 4 /\ Uses(techniques, CredentialAccess \cup Lateral),
          "apt", Atmost(800, 450 + 80 * breadth))
  \cup if(Uses(techniques, {"T1566"}) /\ malware >= 1, "crimeware", 600)

Unattributed == [type |-> "unattributed", confidence |-> 0]

(* The most confident candidate; no two candidates that can occur together
   are equally confident. *)
Attribute(techniques, infra, malware, hosts) ==
  LET candidates == Candidates(techniques, infra, malware, hosts) IN
  IF candidates = {} THEN Unattributed
  ELSE CHOOSE c \in candidates : \A d \in candidates : c.confidence >= d.confidence
=============================================================================
