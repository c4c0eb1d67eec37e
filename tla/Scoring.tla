------------------------------ MODULE Scoring -------------------------------
(***************************************************************************)
(* The two judgements of a case, which are made apart from each other: its *)
(* risk (engines/risk_scoring) and the vote on its verdict                 *)
(* (agents/consensus.py). Factors, malice and confidence are in            *)
(* thousandths, the risk score in tenths; the code's floating point is     *)
(* exact here.                                                             *)
(*                                                                         *)
(* An enriched indicator is a record of its type, the sources' judgements  *)
(* and the fused verdict and confidence.                                   *)
(***************************************************************************)
EXTENDS ThreatIntel

Abs(n) == IF n < 0 THEN -n ELSE n

-----------------------------------------------------------------------------
(* Risk. *)
HighSeverityTechniques == {"T1486", "T1490", "T1003", "T1071", "T1547"}

MitreFactor(mitre) ==
  LET high == Cardinality({t \in mitre : t.base \in HighSeverityTechniques}) IN
  IF mitre = {} THEN 0
  ELSE Atmost(1000, 300 + 200 * Cardinality(mitre) + 300 * high)

ThreatIntelFactor(iocs) ==
  Max({0} \cup {e.confidence : e \in Interesting(iocs)})

Risk(iocs, malscore, hits, mitre, criticality, recipients) ==
  RoundDiv(3 * (30 * ThreatIntelFactor(iocs) + 20 * malscore
                + 15 * MitreFactor(mitre) + 10 * criticality
                + 5 * Atmost(1000, 10 * recipients))
           + 20 * Atmost(3000, 1000 * hits), 300)

SeverityFor(risk) ==
  IF risk >= 800 THEN "critical" ELSE IF risk >= 550 THEN "high"
  ELSE IF risk >= 300 THEN "medium" ELSE "low"

-----------------------------------------------------------------------------
(* Consensus: each voter with evidence votes; the verdict is the tier of the
   weighted malice. *)
Weight == [edr |-> 30, threat_intel |-> 25, sandbox |-> 20, detections |-> 15,
           mitre |-> 10]
SeverityMalice == [critical |-> 900, high |-> 750, medium |-> 500, low |-> 300,
                   info |-> 150]
HighSeverityTactics == {"impact", "credential-access", "command-and-control",
                        "exfiltration", "lateral-movement"}

VerdictFor_Stricter(malice) ==
  IF malice >= 850 THEN "malicious" ELSE IF malice >= 700 THEN "suspicious" ELSE "benign"
VerdictFor(malice) ==
  IF malice >= 700 THEN "malicious" ELSE IF malice >= 400 THEN "suspicious" ELSE "benign"

(* An engine's vote; one without evidence abstains. *)
Vote(verdict, malice) == [verdict |-> verdict, malice |-> malice]
ByTier(malice) == Vote(VerdictFor(malice), malice)
Abstains == Vote("none", 0)

(* The strongest malicious source of the malicious indicators; an indicator may
   be malicious by a merely suspicious source, then its confidence counts. *)
FeedMalice(malicious) ==
  LET scores == UNION {{j.score : j \in {k \in Range(e.sources) : k.verdict = "malicious"}} :
                         e \in malicious} IN
  IF scores = {} THEN Max({e.confidence : e \in malicious}) ELSE Max(scores)

ThreatIntelVote(iocs) ==
  LET malicious == WithVerdict(iocs, {"malicious"}) IN
  IF malicious # {} THEN Vote("malicious", FeedMalice(malicious))
  ELSE IF WithVerdict(iocs, {"suspicious"}) # {} THEN Vote("suspicious", 500)
  ELSE IF WithVerdict(iocs, {"benign"}) # {} THEN Vote("benign", 100)
  ELSE Abstains

EdrVote_PerHit(hits) == IF hits = 0 THEN Abstains ELSE ByTier(Atmost(900, 300 * hits))
EdrVote(hits) == IF hits = 0 THEN Abstains ELSE Vote("malicious", 900)

SandboxVote(malscore) == IF malscore = 0 THEN Abstains ELSE ByTier(malscore)

DetectionVote(detections) ==
  IF detections = {} THEN Abstains
  ELSE ByTier(Max({SeverityMalice[r.severity] : r \in detections}))

MitreVote(mitre) ==
  LET high == Cardinality({t \in mitre : t.tactic \in HighSeverityTactics}) IN
  IF mitre = {} THEN Abstains ELSE ByTier(Atmost(800, 300 + 120 * high))

CollectVoters(iocs, hits, malscore, detections, mitre) ==
  [edr |-> EdrVote(hits), threat_intel |-> ThreatIntelVote(iocs),
   sandbox |-> SandboxVote(malscore), detections |-> DetectionVote(detections),
   mitre |-> MitreVote(mitre)]

Voters(votes) == {v \in DOMAIN votes : votes[v].verdict # "none"}
Agreeing(votes, verdict) == {v \in DOMAIN votes : votes[v].verdict = verdict}

Together(n) == n.edr + n.threat_intel + n.sandbox + n.detections + n.mitre
WeightOf(voters) ==
  Together([v \in DOMAIN Weight |-> IF v \in voters THEN Weight[v] ELSE 0])
MaliceOf(votes) == Together([v \in DOMAIN Weight |-> Weight[v] * votes[v].malice])

Confidence(votes, verdict) ==
  LET W == WeightOf(Voters(votes))
      n == Cardinality(Voters(votes))
      sum == 800 * WeightOf(Agreeing(votes, verdict)) + 120 * n * W
             + Abs(MaliceOf(votes) - 400 * W) IN
  IF n = 1 THEN RoundDiv(3 * sum, 10 * W) ELSE RoundDiv(sum, 2 * W)

Hypotheses(votes, chosen) ==
  [h \in {votes[v].verdict : v \in Voters(votes)} \cup {chosen} |->
     RoundDiv(1000 * WeightOf(Agreeing(votes, h)), WeightOf(Voters(votes)))]

(* decide, given its voters. *)
VerdictOn(votes) ==
  IF Voters(votes) = {} THEN "unknown"
  ELSE VerdictFor(MaliceOf(votes) \div WeightOf(Voters(votes)))

Decision(votes) ==
  LET verdict == VerdictOn(votes) IN
  IF Voters(votes) = {} THEN [verdict |-> verdict, confidence |-> 0, hypotheses |-> <<>>]
  ELSE [verdict |-> verdict, confidence |-> Confidence(votes, verdict),
        hypotheses |-> Hypotheses(votes, verdict)]
=============================================================================
