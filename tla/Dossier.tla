------------------------------- MODULE Dossier -------------------------------
(***************************************************************************)
(* What the dossier of an indicator concludes (engines/threat_intel,       *)
(* dossier.py and dossier_sources.py) from the aggregator's judgements,    *)
(* ThreatFox and four feeds of its own. A ThreatFox record is its          *)
(* confidence level, the phrases in its tags, its malware family (or "")   *)
(* and the indicators that it relates to this one; NoRecord is none.       *)
(* Wording, references, the timeline and the DNS data are left out.        *)
(***************************************************************************)
EXTENDS Response, Detections, TLC

NoRecord == [listed |-> FALSE]

-----------------------------------------------------------------------------
(* The dossier's own feeds have an opinion or none. *)
URLHaus == Judged("malicious", 900)
MalwareBazaar == Judged("malicious", 950)
Spamhaus == Judged("malicious", 850)
Talos(reputation) ==
  CASE reputation = "poor" -> Judged("malicious", 800)
    [] reputation = "favorable" -> Judged("benign", 50)
    [] OTHER -> Judged("suspicious", 400)

Opinions(type) ==
  [urlhaus |-> IF type \in Names THEN {URLHaus} ELSE {},
   malwarebazaar |-> IF type \in Hashes THEN {MalwareBazaar} ELSE {},
   spamhaus |-> IF type \in Addresses \cup {"domain"} THEN {Spamhaus} ELSE {},
   talos |-> IF type \in Addresses \cup {"domain"}
             THEN {Talos(r) : r \in {"poor", "favorable", "neutral"}} ELSE {}]

(* What may be gathered from them: each feed may as well have no opinion. *)
ExtraOpinions(type) ==
  UNION {{given \in [kept -> UNION {Opinions(type)[f] : f \in kept}] :
            \A f \in kept : given[f] \in Opinions(type)[f]} :
         kept \in SUBSET DOMAIN Opinions(type)}

(* ThreatFoxConnector.lookup: the verdict of the record, none for types that
   ThreatFox does not know. *)
FoxVerdict(type, record) ==
  IF type \notin Supported["threatfox"] THEN <<>>
  ELSE [feed \in {"threatfox"} |->
          IF record.listed THEN ThreatFox(record.level) ELSE Unrated]

(* Two functions by the same names, such as judgements by their sources: of a
   name in both the first counts. *)
Joined(f, g) ==
  [c \in DOMAIN f \cup DOMAIN g |-> IF c \in DOMAIN f THEN f[c] ELSE g[c]]

(* A record without a verdict, or a verdict without the record, is no
   provider; every verdict counts for the fusion, which itself leaves out what
   is unknown. *)
Providers(sources, record, foxVerdict, extra) ==
  Joined(Joined(sources, IF record.listed THEN foxVerdict ELSE <<>>), extra)

DossierVerdict(sources, foxVerdict, extra) ==
  Fused(Joined(Joined(sources, foxVerdict), extra))

Status(verdict, listed) ==
  IF Actionable(verdict) THEN "active"
  ELSE IF verdict = "benign" THEN "inactive"
  ELSE IF listed THEN "active" ELSE "unknown"

Saying(sources, verdicts) == Cardinality({c \in DOMAIN sources : sources[c].verdict \in verdicts})

DossierConfidence(providers, judged) ==
  [score |-> judged.confidence,
   supporting |-> Saying(providers, {judged.verdict}),
   rejected |-> Saying(providers, Verdicts \ {judged.verdict, "unknown"}),
   caution |-> Saying(providers, {judged.verdict}) <= 1]

DossierMitre(type, record, verdict) ==
  MapTechniques(IF record.listed THEN record.signals ELSE {},
                type = "url" /\ verdict = "malicious")

(* A family is known from a record, or from a feed that names one. *)
FamilyKnown(record, foxVerdict, extra) ==
  \/ record.listed /\ foxVerdict # <<>> /\ record.family # ""
  \/ {"urlhaus", "malwarebazaar"} \cap DOMAIN extra # {}

DossierActions(type, verdict, family) ==
  IF ~ Actionable(verdict) THEN {"monitor"}
  ELSE {"hunt"}
       \cup (IF type \in Addresses THEN {"block_egress"}
             ELSE IF type \in Names THEN {"block_proxy"}
             ELSE IF type \in Hashes THEN {"blocklist_hash"} ELSE {})
       \cup (IF family THEN {"deploy_detections"} ELSE {})

(* Stored incidents, in the order in which the store lists them, whose
   fingerprint holds the value: the first ten. *)
MatchLimit == 10
CampaignMatches(value, priors) ==
  LET matching == SelectSeq(priors, LAMBDA p : value \in p.dna.infrastructure \cup p.dna.malware) IN
  {matching[i].incident : i \in 1..Atmost(MatchLimit, Len(matching))}

Concluded(type, sources, record, foxVerdict, extra) ==
  LET judged == DossierVerdict(sources, foxVerdict, extra)
      verdict == judged.verdict
      mitre == DossierMitre(type, record, verdict)
      family == FamilyKnown(record, foxVerdict, extra) IN
  [verdict |-> verdict, status |-> Status(verdict, record.listed),
   confidence |-> DossierConfidence(Providers(sources, record, foxVerdict, extra), judged),
   mitre |-> mitre, prediction |-> Predicted(TacticsOf(mitre), verdict),
   attribution |-> Attribute(mitre, IF type \in Network THEN 1 ELSE 0,
                             IF family THEN 1 ELSE 0, 0).type,
   actions |-> DossierActions(type, verdict,
                              record.listed /\ record.family # "")]
=============================================================================
