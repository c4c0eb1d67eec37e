----------------------------- MODULE ThreatIntel -----------------------------
(***************************************************************************)
(* What the threat-intelligence connectors make of their feeds' answers    *)
(* and how the aggregator fuses them (engines/threat_intel). A connector   *)
(* is modelled by its judgement of an answer: every connector gives        *)
(* Unrated to an HTTP error and to an indicator that its feed does not     *)
(* know. Scores and confidences are in thousandths; a tie is rounded up.   *)
(***************************************************************************)
EXTENDS Integers, Sequences, FiniteSets, FiniteSetsExt, SequencesExt

CONSTANTS Counts,    \* numbers of reports, targets, pulses or attributes
          Engines,   \* numbers of VirusTotal engines
          Percents   \* scores that a feed gives in percent

ASSUME FeedAssumption ==
  Counts \subseteq Nat /\ Engines \subseteq Nat /\ Percents \subseteq 0..100

Verdicts == {"unknown", "benign", "suspicious", "malicious"}
Level == [unknown |-> 0, benign |-> 1, suspicious |-> 2, malicious |-> 3]

(* Of enriched indicators, those with one of these verdicts. *)
WithVerdict(iocs, verdicts) == {e \in iocs : e.verdict \in verdicts}
Interesting(iocs) == WithVerdict(iocs, {"malicious", "suspicious"})

RoundDiv(a, b) == (2 * a + b) \div (2 * b)
Atmost(bound, n) == Min({bound, n})

Judged(verdict, score) == [verdict |-> verdict, score |-> score]
Unrated == Judged("unknown", 0)

Tiered(percent, malicious, suspicious, otherwise) ==
  Judged(IF percent >= malicious THEN "malicious"
         ELSE IF percent >= suspicious THEN "suspicious" ELSE otherwise,
         10 * percent)

-----------------------------------------------------------------------------
(* The connectors. *)
DShield(hostileFeed, count, attacks) ==
  IF hostileFeed THEN Judged("malicious", 900)
  ELSE IF count >= 500 /\ attacks >= 25 THEN Judged("malicious", 850)
  ELSE IF count > 0 THEN Judged("suspicious", Atmost(650, 350 + count))
  ELSE Judged("benign", 50)

CIRCLHashlookup(knownMalicious, trust) ==
  IF knownMalicious THEN Judged("malicious", 900)
  ELSE IF trust >= 50 THEN Judged("benign", 0)
  ELSE Unrated

(* The verdict counts engines, the score is their share: many engines that
   find nothing leave a malicious verdict with a small score. *)
VirusTotal(malicious, suspicious, harmless) ==
  LET total == malicious + suspicious + harmless IN
  Judged(IF malicious >= 3 THEN "malicious"
         ELSE IF malicious + suspicious > 0 THEN "suspicious" ELSE "benign",
         RoundDiv(1000 * malicious + 500 * suspicious, IF total = 0 THEN 1 ELSE total))

AbuseIPDB(confidence) == Tiered(confidence, 75, 25, "benign")

GreyNoise(classification) ==
  Judged(classification,
         [malicious |-> 900, suspicious |-> 600, benign |-> 50, unknown |-> 0]
           [classification])

OTX(pulses) ==
  IF pulses >= 5 THEN Judged("malicious", Atmost(1000, 600 + 20 * pulses))
  ELSE IF pulses >= 1 THEN Judged("suspicious", 500)
  ELSE Judged("benign", 50)

OpenCTI(score) == Tiered(score, 75, 40, "benign")

MISP(attributes, toIds) ==
  IF attributes = 0 THEN Unrated
  ELSE IF toIds > 0 THEN Judged("malicious", Atmost(1000, 700 + 50 * toIds))
  ELSE Judged("suspicious", 500)

ThreatFox(confidenceLevel) == Tiered(confidenceLevel, 75, 40, "unknown")

(* The bundled list, and a hash of the value for everything else. *)
MockTi(knownBad, percent) ==
  IF knownBad THEN Judged("malicious", 970) ELSE Tiered(percent, 86, 61, "benign")

Addresses == {"ipv4", "ipv6"}
Hashes == {"sha256", "sha1", "md5"}
Names == {"domain", "url"}

Supported ==
  [dshield |-> Addresses, circl |-> Hashes, abuseipdb |-> Addresses,
   greynoise |-> {"ipv4"}, virustotal |-> Hashes \cup Names \cup {"ipv4"},
   otx |-> Hashes \cup Names \cup {"ipv4"},
   opencti |-> Addresses \cup Hashes \cup Names \cup {"email"},
   misp |-> Addresses \cup Hashes \cup Names \cup {"email"},
   threatfox |-> Addresses \cup Hashes \cup Names,
   mock |-> Addresses \cup Hashes \cup Names \cup {"email"}]

(* What a lookup may give. *)
Replies ==
  [dshield |-> {DShield(h, c, a) : h \in BOOLEAN, c \in Counts, a \in Counts},
   circl |-> {CIRCLHashlookup(k, t) : k \in BOOLEAN, t \in Percents},
   virustotal |-> {VirusTotal(m, s, h) : m \in Engines, s \in Engines, h \in Engines},
   abuseipdb |-> {AbuseIPDB(c) : c \in Percents},
   greynoise |-> {GreyNoise(c) : c \in Verdicts},
   otx |-> {OTX(p) : p \in Counts},
   opencti |-> {OpenCTI(s) : s \in Percents},
   misp |-> {MISP(n, Atmost(n, d)) : n \in Counts, d \in Counts},
   threatfox |-> {ThreatFox(c) : c \in Percents},
   mock |-> {MockTi(b, p) : b \in BOOLEAN, p \in Percents}]

(* build_aggregator: the connectors of a deployment. keyed are those whose key
   or address is configured. *)
Wired(useMock, publicFeeds, keyed) ==
  LET live == (IF publicFeeds THEN {"dshield", "circl"} ELSE {})
              \cup (keyed \cap {"virustotal", "abuseipdb", "greynoise", "otx",
                                "opencti", "misp"}) IN
  IF useMock \/ live = {} THEN {"mock"} ELSE live

(* What enrich_one may gather for an indicator of this type: the judgements of
   its sources, by their names. A connector that raises is left out. The order
   of the sources is that of the wiring and decides nothing. *)
Gathered(connectors, type) ==
  LET answers == [c \in DOMAIN Replies |-> Replies[c] \cup {Unrated}] IN
  UNION {{given \in [kept -> UNION {answers[c] : c \in kept}] :
            \A c \in kept : given[c] \in answers[c]} :
         kept \in SUBSET {c \in connectors : type \in Supported[c]}}

-----------------------------------------------------------------------------
(* fuse_verdicts. *)
Rated(sources) == {c \in DOMAIN sources : sources[c].verdict # "unknown"}

(* The connectors, and the feeds that only a dossier asks. *)
Feeds == <<"dshield", "circl", "virustotal", "abuseipdb", "greynoise", "otx",
           "opencti", "misp", "mock", "threatfox",
           "urlhaus", "malwarebazaar", "spamhaus", "talos">>
Total(sources) ==
  LET sum[i \in 0..Len(Feeds)] ==
        IF i = 0 THEN 0
        ELSE sum[i - 1] + (IF Feeds[i] \in Rated(sources) THEN sources[Feeds[i]].score ELSE 0) IN
  sum[Len(Feeds)]

PeakVerdict(peak) ==
  IF peak >= 850 THEN "malicious" ELSE IF peak >= 500 THEN "suspicious" ELSE "benign"

Fused_ByMean(sources) ==
  IF Rated(sources) = {} THEN [verdict |-> "unknown", confidence |-> 0]
  ELSE [verdict |-> PeakVerdict(RoundDiv(Total(sources), Cardinality(Rated(sources)))),
        confidence |-> 500]

PeakOf(sources) == Max({sources[c].score : c \in Rated(sources)})
FusedConfidence(n, peak, total, agree) ==
  Atmost(990, RoundDiv(9 * peak * n + 6 * total + 5000 * n * Atmost(3, agree), 30 * n))
Fused(sources) ==
  LET verdict == PeakVerdict(PeakOf(sources)) IN
  IF Rated(sources) = {} THEN [verdict |-> "unknown", confidence |-> 0]
  ELSE [verdict |-> verdict,
        confidence |-> FusedConfidence(Cardinality(Rated(sources)), PeakOf(sources), Total(sources),
                                       Cardinality({c \in Rated(sources) :
                                                      sources[c].verdict = verdict}))]
=============================================================================
