----------------------------- MODULE CaseProofs ------------------------------
(***************************************************************************)
(* What an investigation concludes and what it leaves to the others, for   *)
(* any alert, feeds, hosts, rules and number of attempts and requests.     *)
(* First the operators: numbers, the judgements of the feeds, the factors  *)
(* of the risk, the votes; with them the invariant of Assessment and the   *)
(* properties of its judgements; then the stores of IncidentStores: its    *)
(* detection rules, its dossiers, the queries of its graph, its            *)
(* fingerprints, and the union-find of its campaigns.                      *)
(***************************************************************************)
EXTENDS Assessment, IncidentStores, FiniteSetTheorems, SequenceTheorems,
        WellFoundedInduction, TLAPS

-----------------------------------------------------------------------------
(* Every nonempty set of naturals has a least element. *)
LEMMA HasLeast ==
  ASSUME NEW S \in SUBSET Nat, S # {}
  PROVE  \E m \in S : \A n \in S : m <= n
<1>. DEFINE R == OpToRel(<, Nat)
<1>1. IsWellFoundedOn(R, Nat)
  BY NatLessThanWellFounded
<1>2. \A x, y \in Nat : y < x => <<y, x>> \in R
  BY DEF OpToRel
<1>. HIDE DEF R
<1>3. PICK m \in S : \A n \in S : <<n, m>> \notin R
  BY <1>1, WFMin
<1>4. \A n \in S : m <= n
  <2>. SUFFICES ASSUME NEW n \in S PROVE m <= n
    OBVIOUS
  <2>1. n \in Nat /\ m \in Nat /\ <<n, m>> \notin R
    BY <1>3
  <2>2. ~ (n < m)
    BY <1>2, <2>1
  <2>. QED
    BY <2>1, <2>2
<1>. QED
  BY <1>4

(* What Max gives of a set that has a greatest element. *)
Greatest(m, S) == m \in S /\ \A x \in S : x <= m

(* A nonempty set of bounded naturals has one. *)
LEMMA HasGreatest ==
  ASSUME NEW N \in Nat, NEW S \in SUBSET (0..N), S # {}
  PROVE  Greatest(Max(S), S)
<1>. DEFINE T == {n \in 0..N : N - n \in S}
<1>1. T \in SUBSET Nat /\ \A x \in S : N - x \in T
  OBVIOUS
<1>2. PICK x \in S : TRUE
  OBVIOUS
<1>3. PICK m \in T : \A n \in T : m <= n
  <2>1. T # {}
    BY <1>1, <1>2
  <2>. HIDE DEF T
  <2>. QED
    BY <1>1, <2>1, HasLeast
<1>4. N - m \in S /\ \A y \in S : N - m >= y
  BY <1>1, <1>3
<1>. HIDE DEF T
<1>. QED
  BY <1>4 DEF Max, Greatest

(* Scores, confidences and malice are in thousandths. *)
LEMMA GreatestOfMany ==
  ASSUME NEW S \in SUBSET (0..1000), S # {}
  PROVE  Greatest(Max(S), S)
<1>. DEFINE N == 1000
<1>1. N \in Nat
  OBVIOUS
<1>2. S \in SUBSET (0..N)
  OBVIOUS
<1>. QED
  <2>. HIDE DEF N
  <2>. QED
    BY <1>1, <1>2, HasGreatest

(* The cap that the scores are kept under. *)
LEMMA AtmostIs ==
  ASSUME NEW b \in Int, NEW n \in Int
  PROVE  Atmost(b, n) = IF b <= n THEN b ELSE n
<1>. DEFINE m == IF b <= n THEN b ELSE n
<1>1. m \in {b, n} /\ \A z \in {b, n} : m <= z
  OBVIOUS
<1>2. \A y \in {b, n} : (\A z \in {b, n} : y <= z) => y = m
  OBVIOUS
<1>. QED
  BY <1>1, <1>2 DEF Atmost, Min

(* Integer division, as bounds. *)
LEMMA DivBounds ==
  ASSUME NEW a \in Int, NEW b \in Nat \ {0}
  PROVE  /\ a \div b \in Int
         /\ b * (a \div b) <= a
         /\ a < b * (a \div b)  + b
  OBVIOUS

(* Rounding to the nearest (Python's round, of a quotient) moves no quotient
   across a whole number. *)
LEMMA RoundDivBounds ==
  ASSUME NEW a \in Int, NEW b \in Nat \ {0}
  PROVE  /\ RoundDiv(a, b) \in Int
         /\ \A k \in Int : (k * b <= a => k <= RoundDiv(a, b))
         /\ \A k \in Int : (a <= k * b => RoundDiv(a, b) <= k)
         /\ \A k \in Int : (k <= RoundDiv(a, b) => (2 * k - 1) * b <= 2 * a)
<1>. DEFINE q == RoundDiv(a, b)
<1>1. q \in Int /\ (2 * b) * q <= 2 * a + b /\ 2 * a + b < (2 * b) * q + 2 * b
  <2>. DEFINE x == 2 * a + b  y == 2 * b
  <2>1. x \in Int /\ y \in Nat \ {0}
    OBVIOUS
  <2>. HIDE DEF x, y
  <2>2. x \div y \in Int /\ y * (x \div y) <= x /\ x < y * (x \div y) + y
    BY <2>1, DivBounds
  <2>. QED
    BY <2>2 DEF x, y, RoundDiv
<1>. HIDE DEF q
<1>2. ASSUME NEW k \in Int, k * b <= a PROVE k <= q
  <2>1. b * (2 * k + 1) < b * (2 * q + 2)
    BY <1>1, <1>2
  <2>2. 2 * k + 1 < 2 * q + 2
    BY <1>1, <2>1
  <2>. QED
    BY <1>1, <2>2
<1>3. ASSUME NEW k \in Int, a <= k * b PROVE q <= k
  <2>1. b * (2 * q) <= b * (2 * k + 1)
    BY <1>1, <1>3
  <2>2. 2 * q <= 2 * k + 1
    BY <1>1, <2>1
  <2>. QED
    BY <1>1, <2>2
<1>4. ASSUME NEW k \in Int, k <= q PROVE (2 * k - 1) * b <= 2 * a
  <2>1. b * (2 * k) <= b * (2 * q)
    BY <1>1, <1>4
  <2>. QED
    BY <1>1, <2>1
<1>. QED
  BY <1>1, <1>2, <1>3, <1>4 DEF q

(* The recursive sum over a sequence of weights is a function, and ... *)
LEMMA SumsExist ==
  ASSUME NEW N \in Nat, NEW w \in [1..N -> Nat]
  PROVE  \E s : s = [i \in 0..N |-> IF i = 0 THEN 0 ELSE s[i - 1] + w[i]]
<1>. DEFINE Sums(n, s) == s = [i \in 0..n |-> IF i = 0 THEN 0 ELSE s[i - 1] + w[i]]
            Defined(n) == \E s : Sums(n, s)
            Bad == {n \in 0..N : ~ Defined(n)}
<1>1. SUFFICES ASSUME N \in Bad PROVE FALSE
  OBVIOUS
<1>2. Bad \in SUBSET Nat /\ Bad # {}
  <2>. HIDE DEF Defined
  <2>. QED
    BY <1>1
<1>3. PICK n \in Bad : \A m \in Bad : n <= m
  <2>. HIDE DEF Bad
  <2>. QED
    BY <1>2, HasLeast
<1>4. n # 0
  <2>1. Sums(0, [i \in 0..0 |-> 0])
    OBVIOUS
  <2>. QED
    BY <1>3, <2>1
<1>5. PICK s : Sums(n - 1, s)
  <2>1. n - 1 \in 0..N /\ ~ (n <= n - 1)
    BY <1>3, <1>4
  <2>2. n - 1 \notin Bad
    BY <1>3, <2>1
  <2>. QED
    BY <2>1, <2>2
<1>6. Sums(n, [i \in 0..n |-> IF i = n THEN s[n - 1] + w[n] ELSE s[i]])
  BY <1>3, <1>4, <1>5
<1>. QED
  BY <1>3, <1>6

(* ... ends with at least each of the weights. *)
LEMMA SumsBound ==
  ASSUME NEW N \in Nat, NEW w \in [1..N -> Nat], NEW s,
         s = [i \in 0..N |-> IF i = 0 THEN 0 ELSE s[i - 1] + w[i]]
  PROVE  /\ s[N] \in Nat
         /\ \A k \in 1..N : s[N] >= w[k]
<1>. DEFINE Good(i) == s[i] \in Nat /\ \A k \in 1..i : s[i] >= w[k]
            Bad == {i \in 0..N : ~ Good(i)}
<1>1. SUFFICES ASSUME N \in Bad PROVE FALSE
  OBVIOUS
<1>2. PICK n \in Bad : \A m \in Bad : n <= m
  <2>1. Bad \in SUBSET Nat /\ Bad # {}
    <3>. HIDE DEF Good
    <3>. QED
      BY <1>1
  <2>. HIDE DEF Bad
  <2>. QED
    BY <2>1, HasLeast
<1>3. n # 0
  <2>1. Good(0)
    OBVIOUS
  <2>. QED
    BY <1>2, <2>1
<1>4. Good(n - 1) /\ s[n] = s[n - 1] + w[n] /\ w[n] \in Nat
  <2>1. n - 1 \in 0..N /\ ~ (n <= n - 1)
    BY <1>2, <1>3
  <2>2. n - 1 \notin Bad
    BY <1>2, <2>1
  <2>. QED
    BY <1>2, <1>3, <2>1, <2>2
<1>5. Good(n)
  <2>1. n - 1 \in Nat /\ s[n - 1] \in Nat /\ s[n] \in Nat
    BY <1>3, <1>4, <1>2
  <2>2. ASSUME NEW k \in 1..n PROVE s[n] >= w[k]
    <3>1. CASE k = n
      BY <1>4, <2>1, <3>1
    <3>2. CASE k # n
      <4>1. k \in 1..n - 1 /\ k \in 1..N
        BY <3>2, <1>2
      <4>2. s[n - 1] >= w[k] /\ w[k] \in Nat
        BY <1>4, <4>1
      <4>. QED
        BY <1>4, <2>1, <4>2
    <3>. QED
      BY <3>1, <3>2
  <2>. QED
    BY <2>1, <2>2
<1>. QED
  BY <1>2, <1>5

-----------------------------------------------------------------------------
(* What a feed may say: scores are in thousandths, and a high score and the
   verdict go together, but for VirusTotal, where one or two engines of very
   few may flag an indicator with the full score and no malicious verdict. *)
Plausible(c, j) ==
  /\ j.verdict \in Verdicts /\ j.score \in 0..1000
  /\ c # "virustotal" /\ j.verdict = "malicious" => j.score >= 700
  /\ c \notin {"virustotal", "mock"} /\ j.score >= 850 => j.verdict = "malicious"
  /\ c = "virustotal" /\ j.score >= 850 /\ j.verdict # "malicious" => j.score = 1000

(* The feeds that grade a percentage (AbuseIPDB, OpenCTI, ThreatFox). *)
LEMMA TieredPlausible ==
  ASSUME NEW p \in 0..100, NEW other \in {"benign", "unknown"}, NEW low \in {25, 40}, NEW c,
         c # "virustotal"
  PROVE  Plausible(c, Tiered(p, 75, low, other))
  BY DEF Plausible, Tiered, Judged, Verdicts

(* VirusTotal's score is the share of the engines that flag the indicator. *)
LEMMA VirusTotalPlausible ==
  ASSUME NEW m \in Nat, NEW s \in Nat, NEW h \in Nat
  PROVE  Plausible("virustotal", VirusTotal(m, s, h))
<1>. DEFINE a == 1000 * m + 500 * s
            b == IF m + s + h = 0 THEN 1 ELSE m + s + h
            score == RoundDiv(a, b)
<1>1. a \in Int /\ b \in Nat \ {0} /\ 0 * b <= a /\ a <= 1000 * b
  OBVIOUS
<1>. HIDE DEF a, b, score
<1>2. score \in 0..1000 /\ (850 <= score => (2 * 850 - 1) * b <= 2 * a)
  <2>1. /\ score \in Int
        /\ \A k \in Int : (k * b <= a => k <= score)
        /\ \A k \in Int : (a <= k * b => score <= k)
        /\ \A k \in Int : (k <= score => (2 * k - 1) * b <= 2 * a)
    BY <1>1, RoundDivBounds DEF score
  <2>2. 0 <= score /\ score <= 1000
    BY <1>1, <2>1
  <2>3. 850 <= score => (2 * 850 - 1) * b <= 2 * a
    <3>. DEFINE k == 850
    <3>1. k \in Int
      OBVIOUS
    <3>. HIDE DEF k
    <3>2. k <= score => (2 * k - 1) * b <= 2 * a
      BY <2>1, <3>1
    <3>. QED
      BY <3>2 DEF k
  <2>. QED
    BY <2>1, <2>2, <2>3
<1>3. ASSUME m < 3, 850 <= score PROVE score = 1000
  <2>1. m \in 1..2 /\ s = 0 /\ h = 0
    BY <1>2, <1>3 DEF a, b
  <2>2. a = 1000 * m /\ b = m
    BY <2>1 DEF a, b
  <2>3. 1000 * b <= a
    BY <2>1, <2>2
  <2>4. 1000 <= score
    BY <1>1, <2>3, RoundDivBounds DEF score
  <2>. QED
    BY <1>2, <2>4
<1>4. VirusTotal(m, s, h) = Judged(IF m >= 3 THEN "malicious"
         ELSE IF m + s > 0 THEN "suspicious" ELSE "benign", score)
  BY DEF VirusTotal, score, a, b
<1>. QED
  BY <1>2, <1>3, <1>4 DEF Plausible, Judged, Verdicts

(* Every reply that a connector may give, or none. *)
LEMMA RepliesPlausible ==
  ASSUME NEW c \in DOMAIN Replies, NEW j \in Replies[c] \cup {Unrated}
  PROVE  Plausible(c, j)
<1>0. Plausible(c, Unrated)
  BY DEF Plausible, Unrated, Judged, Verdicts
<1>1. ASSUME NEW h \in BOOLEAN, NEW n \in Counts, NEW a \in Counts
      PROVE  Plausible("dshield", DShield(h, n, a))
  <2>1. n \in Nat /\ a \in Nat
    BY FeedAssumption
  <2>2. Atmost(650, 350 + n) = IF 650 <= 350 + n THEN 650 ELSE 350 + n
    BY <2>1, AtmostIs
  <2>. QED
    BY <2>1, <2>2 DEF Plausible, DShield, Judged, Verdicts
<1>2. ASSUME NEW k \in BOOLEAN, NEW t \in Percents
      PROVE  Plausible("circl", CIRCLHashlookup(k, t))
  BY <1>0 DEF Plausible, CIRCLHashlookup, Judged, Verdicts, Unrated
<1>3. ASSUME NEW m \in Engines, NEW s \in Engines, NEW h \in Engines
      PROVE  Plausible("virustotal", VirusTotal(m, s, h))
  BY FeedAssumption, VirusTotalPlausible
<1>4. ASSUME NEW p \in Percents
      PROVE  /\ Plausible("abuseipdb", AbuseIPDB(p))
             /\ Plausible("opencti", OpenCTI(p))
             /\ Plausible("threatfox", ThreatFox(p))
  <2>1. p \in 0..100
    BY FeedAssumption
  <2>. QED
    BY <2>1, TieredPlausible DEF AbuseIPDB, OpenCTI, ThreatFox
<1>5. ASSUME NEW v \in Verdicts
      PROVE  Plausible("greynoise", GreyNoise(v))
  BY DEF Plausible, GreyNoise, Judged, Verdicts
<1>6. ASSUME NEW n \in Counts
      PROVE  Plausible("otx", OTX(n))
  <2>1. n \in Nat
    BY FeedAssumption
  <2>2. Atmost(1000, 600 + 20 * n) = IF 1000 <= 600 + 20 * n THEN 1000 ELSE 600 + 20 * n
    BY <2>1, AtmostIs
  <2>. QED
    BY <2>1, <2>2 DEF Plausible, OTX, Judged, Verdicts
<1>7. ASSUME NEW n \in Counts, NEW d \in Counts
      PROVE  Plausible("misp", MISP(n, Atmost(n, d)))
  <2>1. n \in Nat /\ d \in Nat
    BY FeedAssumption
  <2>2. Atmost(n, d) \in Nat
    BY <2>1, AtmostIs
  <2>3. \A i \in Nat : Atmost(1000, 700 + 50 * i) = IF 1000 <= 700 + 50 * i THEN 1000 ELSE 700 + 50 * i
    BY AtmostIs
  <2>. QED
    BY <1>0, <2>1, <2>2, <2>3 DEF Plausible, MISP, Judged, Verdicts, Unrated
<1>8. ASSUME NEW b \in BOOLEAN, NEW p \in Percents
      PROVE  Plausible("mock", MockTi(b, p))
  <2>1. p \in 0..100
    BY FeedAssumption
  <2>. QED
    BY <2>1 DEF Plausible, MockTi, Tiered, Judged, Verdicts
<1>. QED
  BY <1>0, <1>1, <1>2, <1>3, <1>4, <1>5, <1>6, <1>7, <1>8 DEF Replies

(* Judgements by their connectors; the mock feed is wired alone. *)
Grounded(f) ==
  /\ DOMAIN f \subseteq DOMAIN Supported
  /\ \A c \in DOMAIN f : Plausible(c, f[c])
  /\ "mock" \in DOMAIN f => DOMAIN f = {"mock"}

(* What ThreatIntelAggregator.enrich gathers is grounded. *)
LEMMA GatheredGrounded ==
  ASSUME NEW type, NEW f \in Gathered(Connectors, type)
  PROVE  Grounded(f)
<1>1. PICK mock \in BOOLEAN, public \in BOOLEAN, keyed \in SUBSET DOMAIN Supported :
        Connectors = Wired(mock, public, keyed)
  BY EvidenceAssumption
<1>2. /\ Connectors \subseteq DOMAIN Supported
      /\ "mock" \in Connectors => Connectors = {"mock"}
  BY <1>1 DEF Wired, Supported
<1>3. /\ DOMAIN f \subseteq Connectors
      /\ \A c \in DOMAIN f : f[c] \in [d \in DOMAIN Replies |-> Replies[d] \cup {Unrated}][c]
  BY DEF Gathered
<1>4. DOMAIN Replies = DOMAIN Supported
  BY DEF Replies, Supported
<1>5. ASSUME NEW c \in DOMAIN f PROVE Plausible(c, f[c])
  <2>1. c \in DOMAIN Replies /\ f[c] \in Replies[c] \cup {Unrated}
    BY <1>2, <1>3, <1>4
  <2>. QED
    BY <2>1, RepliesPlausible
<1>. QED
  BY <1>2, <1>3, <1>5 DEF Grounded

(* The order of summing names every connector. *)
LEMMA FeedNames ==
  /\ Len(Feeds) = 14
  /\ \A c \in DOMAIN Supported : \E i \in 1..14 : Feeds[i] = c
<1>1. Len(Feeds) = 14
  BY DEF Feeds
<1>2. /\ Feeds[1] = "dshield" /\ Feeds[2] = "circl" /\ Feeds[3] = "virustotal"
      /\ Feeds[4] = "abuseipdb" /\ Feeds[5] = "greynoise" /\ Feeds[6] = "otx"
      /\ Feeds[7] = "opencti" /\ Feeds[8] = "misp" /\ Feeds[9] = "mock" /\ Feeds[10] = "threatfox"
  BY DEF Feeds
<1>3. DOMAIN Supported = {"dshield", "circl", "virustotal", "abuseipdb", "greynoise", "otx",
                          "opencti", "misp", "mock", "threatfox"}
  BY DEF Supported
<1>. QED
  BY <1>1, <1>2, <1>3

(* There are finitely many connectors. *)
LEMMA NamesFinite == IsFiniteSet(DOMAIN Supported)
<1>. DEFINE g == [i \in 1..14 |-> Feeds[i]]
            T == {Feeds[i] : i \in 1..14}
<1>1. g \in Surjection(1..14, T)
  BY DEF Surjection
<1>2. IsFiniteSet(1..14)
  <2>1. 1 \in Int /\ 14 \in Int
    OBVIOUS
  <2>. QED
    BY <2>1, FS_Interval, Zenon
<1>3. IsFiniteSet(T)
  BY <1>1, <1>2, FS_Surjection
<1>4. DOMAIN Supported \in SUBSET T
  BY FeedNames
<1>. QED
  BY <1>3, <1>4, FS_Subset

(* The sum of the scores is at least each of them. *)
LEMMA TotalBounds ==
  ASSUME NEW f, \A c \in Rated(f) : f[c].score \in Nat
  PROVE  /\ Total(f) \in Nat
         /\ \A c \in Rated(f) \cap DOMAIN Supported : Total(f) >= f[c].score
<1>. DEFINE w == [i \in 1..14 |-> IF Feeds[i] \in Rated(f) THEN f[Feeds[i]].score ELSE 0]
            Is(s) == s = [i \in 0..14 |-> IF i = 0 THEN 0 ELSE s[i - 1] + w[i]]
            s0 == CHOOSE s : Is(s)
<1>1. w \in [1..14 -> Nat]
  OBVIOUS
<1>2. Total(f) = s0[14]
  <2>1. \A s : (s = [i \in 0..14 |->
                    IF i = 0 THEN 0
                    ELSE s[i - 1] + (IF Feeds[i] \in Rated(f) THEN f[Feeds[i]].score ELSE 0)])
                <=> Is(s)
    OBVIOUS
  <2>. QED
    BY <2>1, FeedNames DEF Total
<1>3. \A c \in Rated(f) \cap DOMAIN Supported : \E i \in 1..14 : w[i] = f[c].score
  BY FeedNames
<1>. HIDE DEF w
<1>4. Is(s0)
  <2>1. \E s : s = [i \in 0..14 |-> IF i = 0 THEN 0 ELSE s[i - 1] + w[i]]
    <3>1. 14 \in Nat
      OBVIOUS
    <3>. QED
      BY <1>1, <3>1, SumsExist, Zenon
  <2>2. \E s : Is(s)
    BY <2>1, Zenon
  <2>. HIDE DEF Is
  <2>. QED
    BY <2>2, Zenon
<1>5. s0[14] \in Nat /\ \A k \in 1..14 : s0[14] >= w[k]
  <2>. HIDE DEF s0
  <2>. QED
    BY <1>1, <1>4, SumsBound
<1>. HIDE DEF s0
<1>. QED
  BY <1>2, <1>3, <1>5

(* How sure a fusion of n judgements is of its peak. *)
SureOf(sure, n, peak, total) ==
  /\ sure \in 0..990
  /\ peak = 1000 => sure >= 300
  /\ n = 1 /\ peak >= 850 /\ total >= peak => sure >= 300

(* _fuse_confidence: never quite sure, and never unsure of a full score or of
   a single high one. *)
LEMMA FusedConfidenceBounds ==
  ASSUME NEW n \in Nat \ {0}, NEW peak \in 0..1000, NEW total \in Nat, NEW agree \in Nat
  PROVE  SureOf(FusedConfidence(n, peak, total, agree), n, peak, total)
<1>. DEFINE g == Atmost(3, agree)
            x == 9 * peak * n + 6 * total + 5000 * n * g
            y == 30 * n
            q == RoundDiv(x, y)
<1>1. g \in 0..3
  BY AtmostIs
<1>. HIDE DEF g
<1>2. x \in Int /\ y \in Nat \ {0}
  BY <1>1
<1>3. n * g >= 0
  BY <1>1
<1>4. peak * n >= 0
  OBVIOUS
<1>5. 0 * y <= x
  BY <1>1, <1>3, <1>4
<1>6. peak = 1000 => 300 * y <= x
  BY <1>1, <1>3
<1>7. n = 1 /\ peak >= 850 /\ total >= peak => 300 * y <= x
  BY <1>1
<1>. HIDE DEF x, y
<1>8. q \in Int /\ \A k \in Int : k * y <= x => k <= q
  BY <1>2, RoundDivBounds
<1>. HIDE DEF q
<1>9. FusedConfidence(n, peak, total, agree) = IF 990 <= q THEN 990 ELSE q
  <2>1. FusedConfidence(n, peak, total, agree) = Atmost(990, q)
    BY DEF FusedConfidence, q, x, y, g
  <2>. QED
    BY <1>8, <2>1, AtmostIs
<1>. QED
  BY <1>5, <1>6, <1>7, <1>8, <1>9 DEF SureOf

(* fuse_verdicts: an indicator is malicious only by a high score, and then a
   feed says so or the fusion is fairly sure. *)
LEMMA FusedIs ==
  ASSUME NEW f, Grounded(f)
  PROVE  /\ Fused(f).verdict \in Verdicts
         /\ Fused(f).confidence \in 0..990
         /\ Fused(f).verdict = "malicious" =>
              /\ \E c \in DOMAIN f : f[c].score >= 850
              /\ \/ \E c \in DOMAIN f : f[c].verdict = "malicious"
                 \/ Fused(f).confidence >= 300
<1>. DEFINE R == Rated(f)
            S == {f[c].score : c \in R}
            peak == PeakOf(f)
            n == Cardinality(R)
            agree == Cardinality({c \in R : f[c].verdict = PeakVerdict(peak)})
            sure == FusedConfidence(n, peak, Total(f), agree)
<1>1. CASE R = {}
  BY <1>1 DEF Fused, Verdicts
<1>2. CASE R # {}
  <2>1. /\ R \in SUBSET DOMAIN f /\ DOMAIN f \in SUBSET DOMAIN Supported
        /\ \A c \in R : Plausible(c, f[c])
    BY DEF Grounded, Rated
  <2>2. \A c \in R : f[c].score \in 0..1000
    BY <2>1 DEF Plausible
  <2>3. S \in SUBSET (0..1000) /\ S # {}
    BY <1>2, <2>2
  <2>4. peak \in S
    <3>. HIDE DEF S
    <3>1. Max(S) \in S
      BY <2>3, GreatestOfMany DEF Greatest
    <3>. QED
      BY <3>1 DEF S, PeakOf
  <2>5. PICK c \in R : f[c].score = peak
    BY <2>4
  <2>6. Total(f) \in Nat /\ Total(f) >= peak
    <3>0. 0..1000 \subseteq Nat
      OBVIOUS
    <3>1. \A d \in Rated(f) : f[d].score \in Nat
      BY <2>2, <3>0, ZenonT(60)
    <3>2. c \in Rated(f) \cap DOMAIN Supported
      BY <2>1
    <3>. QED
      BY <2>5, <3>1, <3>2, TotalBounds
  <2>7. n \in Nat \ {0} /\ agree \in Nat
    <3>1. IsFiniteSet(R)
      BY <2>1, NamesFinite, FS_Subset
    <3>2. n \in Nat /\ n # 0
      BY <1>2, <3>1, FS_CardinalityType, FS_EmptySet
    <3>3. {d \in R : f[d].verdict = PeakVerdict(peak)} \in SUBSET R
      OBVIOUS
    <3>4. agree \in Nat
      <4>. HIDE DEF R
      <4>. QED
        BY <3>1, <3>3, FS_Subset, FS_CardinalityType
    <3>. QED
      BY <3>2, <3>4
  <2>8. peak \in 0..1000
    BY <2>3, <2>4, ZenonT(60)
  <2>9. /\ Fused(f).verdict = PeakVerdict(peak)
        /\ Fused(f).confidence = sure
    BY <1>2 DEF Fused
  <2>10. /\ sure \in 0..990
         /\ peak = 1000 => sure >= 300
         /\ n = 1 /\ peak >= 850 => sure >= 300
    <3>. DEFINE total == Total(f)
    <3>1. total \in Nat /\ total >= peak
      BY <2>6
    <3>. HIDE DEF n, peak, agree, total
    <3>2. SureOf(FusedConfidence(n, peak, total, agree), n, peak, total)
      BY <2>7, <2>8, <3>1, FusedConfidenceBounds, ZenonT(60)
    <3>3. sure = FusedConfidence(n, peak, total, agree)
      BY DEF total
    <3>. HIDE DEF sure
    <3>. QED
      BY <3>1, <3>2, <3>3 DEF SureOf
  <2>11. ASSUME PeakVerdict(peak) = "malicious", \A d \in DOMAIN f : f[d].verdict # "malicious"
         PROVE  peak = 1000 \/ n = 1
    <3>1. peak >= 850
      BY <2>8, <2>11 DEF PeakVerdict
    <3>2. Plausible(c, f[c]) /\ f[c].verdict # "malicious"
      BY <2>1, <2>11
    <3>3. peak = 1000 \/ c = "mock"
      BY <2>5, <3>1, <3>2 DEF Plausible
    <3>4. ASSUME c = "mock" PROVE n = 1
      <4>1. R = {"mock"}
        BY <2>1, <3>4 DEF Grounded
      <4>. QED
        BY <4>1, FS_Singleton
    <3>. QED
      BY <3>3, <3>4
  <2>12. PeakVerdict(peak) = "malicious" => peak >= 850
    BY <2>8 DEF PeakVerdict
  <2>. HIDE DEF R, peak, n, agree, sure
  <2>13. PeakVerdict(peak) \in Verdicts
    BY DEF PeakVerdict, Verdicts
  <2>. QED
    BY <2>1, <2>5, <2>9, <2>10, <2>11, <2>12, <2>13
<1>. QED
  BY <1>1, <1>2

(* An enriched indicator that the rest of the pipeline can count on. *)
SoundIoc(e) ==
  /\ Grounded(e.sources)
  /\ e.verdict \in Verdicts
  /\ e.confidence \in 0..990
  /\ e.verdict = "malicious" =>
       /\ \E c \in DOMAIN e.sources : e.sources[c].score >= 850
       /\ \/ \E c \in DOMAIN e.sources : e.sources[c].verdict = "malicious"
          \/ e.confidence >= 300
(* Enriched indicators of an investigation. *)
SoundIocs(iocs) == \A e \in iocs : SoundIoc(e)

(* What a feed says of a malicious indicator, in scores. *)
JudgedMalicious(e) == {j.score : j \in {k \in Range(e.sources) : k.verdict = "malicious"}}

(* The scores from which the threat-intel vote takes the malice of a
   malicious indicator. *)
LEMMA JudgedMaliciousAre ==
  ASSUME NEW e, SoundIoc(e), e.verdict = "malicious"
  PROVE  /\ JudgedMalicious(e) \in SUBSET (0..1000)
         /\ JudgedMalicious(e) = {} => e.confidence >= 300
         /\ JudgedMalicious(e) # {} => \E x \in JudgedMalicious(e) : x >= 700
<1>. DEFINE f == e.sources
<1>0. Grounded(f) /\ \A c \in DOMAIN f : Plausible(c, f[c])
  BY DEF SoundIoc, Grounded
<1>1. ASSUME NEW c \in DOMAIN f, f[c].verdict = "malicious"
      PROVE  f[c].score \in JudgedMalicious(e)
  BY <1>1 DEF JudgedMalicious, Range
<1>2. ASSUME NEW x \in JudgedMalicious(e)
      PROVE  \E c \in DOMAIN f : f[c].verdict = "malicious" /\ x = f[c].score
  BY DEF JudgedMalicious, Range
<1>3. \A c \in DOMAIN f : f[c].score \in 0..1000
  <2>. HIDE DEF f
  <2>. QED
    BY <1>0 DEF Plausible
<1>4. ASSUME JudgedMalicious(e) = {} PROVE e.confidence >= 300
  <2>1. \A c \in DOMAIN f : f[c].verdict # "malicious"
    BY <1>1, <1>4
  <2>. QED
    BY <2>1 DEF SoundIoc
<1>5. ASSUME JudgedMalicious(e) # {} PROVE \E x \in JudgedMalicious(e) : x >= 700
  <2>1. PICK c \in DOMAIN f : f[c].verdict = "malicious"
    BY <1>2, <1>5
  <2>2. PICK d \in DOMAIN f : f[d].score >= 850
    BY DEF SoundIoc
  <2>. HIDE DEF f
  <2>3. CASE c # "virustotal"
    BY <1>0, <1>1, <2>1, <2>3 DEF Plausible
  <2>4. CASE f[d].verdict = "malicious"
    <3>1. f[d].score \in JudgedMalicious(e)
      BY <1>1, <2>4
    <3>2. f[d].score \in 0..1000
      BY <1>3
    <3>. QED
      BY <2>2, <3>1, <3>2
  <2>5. CASE c = "virustotal" /\ f[d].verdict # "malicious"
    <3>1. d # "virustotal"
      BY <2>1, <2>5
    <3>2. d = "mock"
      BY <1>0, <2>2, <2>5, <3>1 DEF Plausible
    <3>. QED
      BY <1>0, <2>5, <3>2 DEF Grounded
  <2>. QED
    BY <2>3, <2>4, <2>5
<1>. QED
  <2>1. JudgedMalicious(e) \in SUBSET (0..1000)
    BY <1>2, <1>3
  <2>. QED
    BY <1>4, <1>5, <2>1

(* The malice of the threat-intel vote over malicious indicators is at least
   0.3. *)
LEMMA FeedMaliceBounds ==
  ASSUME NEW M, M # {}, SoundIocs(M), \A e \in M : e.verdict = "malicious"
  PROVE  FeedMalice(M) \in 300..1000
<1>. DEFINE scores == UNION {JudgedMalicious(e) : e \in M}
            sure == {e.confidence : e \in M}
<1>1. \A e \in M : JudgedMalicious(e) \in SUBSET (0..1000)
  BY JudgedMaliciousAre DEF SoundIocs
<1>2. \A e \in M : JudgedMalicious(e) = {} => e.confidence >= 300
  BY JudgedMaliciousAre DEF SoundIocs
<1>3. \A e \in M : JudgedMalicious(e) # {} => \E x \in JudgedMalicious(e) : x >= 700
  BY JudgedMaliciousAre DEF SoundIocs
<1>4. \A e \in M : e.confidence \in 0..990
  BY DEF SoundIocs, SoundIoc
<1>5. FeedMalice(M) = IF scores = {} THEN Max(sure) ELSE Max(scores)
  BY DEF FeedMalice, JudgedMalicious
<1>6. CASE scores = {}
  <2>1. \A e \in M : JudgedMalicious(e) = {}
    BY <1>6
  <2>2. \A x \in sure : x \in 300..1000
    BY <1>2, <1>4, <2>1
  <2>3. sure # {}
    OBVIOUS
  <2>. HIDE DEF sure
  <2>4. sure \in SUBSET (0..1000)
    BY <2>2
  <2>5. Max(sure) \in sure
    BY <2>3, <2>4, GreatestOfMany DEF Greatest
  <2>. QED
    BY <1>5, <1>6, <2>2, <2>5
<1>7. CASE scores # {}
  <2>1. PICK e \in M : JudgedMalicious(e) # {}
    BY <1>7
  <2>2. PICK x \in JudgedMalicious(e) : x >= 700
    BY <1>3, <2>1
  <2>3. scores \in SUBSET (0..1000)
    <3>. SUFFICES ASSUME NEW y \in scores PROVE y \in 0..1000
      OBVIOUS
    <3>1. PICK d \in M : y \in JudgedMalicious(d)
      OBVIOUS
    <3>. HIDE DEF scores
    <3>. QED
      BY <1>1, <3>1
  <2>4. x \in scores
    BY <2>2
  <2>. HIDE DEF scores
  <2>. DEFINE y == Max(scores)
  <2>5. y \in scores /\ x <= y
    BY <1>7, <2>3, <2>4, GreatestOfMany DEF Greatest
  <2>6. FeedMalice(M) = y
    BY <1>5, <1>7, Zenon
  <2>. HIDE DEF y
  <2>7. y \in 0..1000
    BY <2>3, <2>5
  <2>8. x \in 0..1000
    BY <2>3, <2>4
  <2>9. y \in 300..1000
    BY <2>2, <2>5, <2>7, <2>8
  <2>. QED
    BY <2>6, <2>9, Zenon
<1>. QED
  BY <1>6, <1>7

(* The threat-intel factor of the risk is the greatest confidence in a
   suspicious or malicious indicator. *)
LEMMA ThreatIntelFactorIs ==
  ASSUME NEW iocs, SoundIocs(iocs)
  PROVE  /\ ThreatIntelFactor(iocs) \in 0..990
         /\ \A e \in Interesting(iocs) : e.confidence <= ThreatIntelFactor(iocs)
         /\ Interesting(iocs) = {} => ThreatIntelFactor(iocs) = 0
<1>. DEFINE S == {0} \cup {e.confidence : e \in Interesting(iocs)}
<1>0. \A e \in Interesting(iocs) : e.confidence \in 0..990
  BY DEF Interesting, WithVerdict, SoundIocs, SoundIoc
<1>1. S \in SUBSET (0..1000) /\ S # {}
  BY <1>0
<1>2. \A e \in Interesting(iocs) : e.confidence \in S
  OBVIOUS
<1>3. \A x \in S : x \in 0..990
  BY <1>0
<1>4. Interesting(iocs) = {} => \A x \in S : x = 0
  OBVIOUS
<1>5. ThreatIntelFactor(iocs) = Max(S)
  BY DEF ThreatIntelFactor
<1>. HIDE DEF S
<1>6. Max(S) \in S /\ \A x \in S : x <= Max(S)
  BY <1>1, GreatestOfMany DEF Greatest
<1>7. \A e \in Interesting(iocs) : e.confidence <= Max(S)
  BY <1>2, <1>6
<1>8. Max(S) \in 0..990 /\ (Interesting(iocs) = {} => Max(S) = 0)
  BY <1>3, <1>4, <1>6
<1>. QED
  BY <1>5, <1>7, <1>8

-----------------------------------------------------------------------------
(* A count or a score up to a bound. *)
UpTo(x, k) == x \in 0..k

(* A capped natural stays under the cap. *)
LEMMA AtmostBounds ==
  ASSUME NEW b \in Nat, NEW n \in Nat
  PROVE  UpTo(Atmost(b, n), b) /\ (n = 0 => Atmost(b, n) = 0)
<1>1. Atmost(b, n) = IF b <= n THEN b ELSE n
  BY AtmostIs
<1>. QED
  BY <1>1 DEF UpTo

(* A rounded share of a whole is no more than the whole. *)
LEMMA Rounded ==
  ASSUME NEW a \in Int, NEW b \in Nat \ {0}, NEW k \in Int, 0 <= a, a <= k * b
  PROVE  UpTo(RoundDiv(a, b), k)
<1>1. /\ RoundDiv(a, b) \in Int
      /\ \A i \in Int : (i * b <= a => i <= RoundDiv(a, b))
      /\ \A i \in Int : (a <= i * b => RoundDiv(a, b) <= i)
  BY RoundDivBounds
<1>2. 0 <= RoundDiv(a, b)
  <2>1. 0 \in Int /\ 0 * b <= a
    OBVIOUS
  <2>. QED
    BY <1>1, <2>1
<1>3. RoundDiv(a, b) <= k
  BY <1>1
<1>. QED
  BY <1>1, <1>2, <1>3 DEF UpTo

(* Rounding is monotone. *)
LEMMA RoundDivMonotone ==
  ASSUME NEW a \in Int, NEW c \in Int, NEW b \in Nat \ {0}, a <= c
  PROVE  RoundDiv(a, b) <= RoundDiv(c, b)
<1>. DEFINE x == 2 * a + b  z == 2 * c + b  y == 2 * b
<1>1. x \in Int /\ z \in Int /\ y \in Nat \ {0} /\ x <= z
  OBVIOUS
<1>2. RoundDiv(a, b) = x \div y /\ RoundDiv(c, b) = z \div y
  BY DEF RoundDiv
<1>. HIDE DEF x, y, z
<1>3. /\ x \div y \in Int /\ y * (x \div y) <= x
      /\ z \div y \in Int /\ z < y * (z \div y) + y
  BY <1>1, DivBounds
<1>4. y * (x \div y) < y * ((z \div y) + 1)
  BY <1>1, <1>3
<1>5. x \div y < (z \div y) + 1
  BY <1>1, <1>3, <1>4
<1>. QED
  BY <1>2, <1>3, <1>5

(* The factors of the risk (RiskEngine.score): the ATT&CK factor is a score,
   ... *)
LEMMA MitreFactorBounds ==
  ASSUME NEW mitre, IsFiniteSet(mitre)
  PROVE  MitreFactor(mitre) \in 0..1000
<1>. DEFINE high == Cardinality({t \in mitre : t.base \in HighSeverityTechniques})
            all == Cardinality(mitre)
<1>1. all \in Nat
  BY FS_CardinalityType
<1>2. high \in Nat
  <2>1. {t \in mitre : t.base \in HighSeverityTechniques} \in SUBSET mitre
    OBVIOUS
  <2>. QED
    BY <2>1, FS_Subset, FS_CardinalityType
<1>3. MitreFactor(mitre) = IF mitre = {} THEN 0 ELSE Atmost(1000, 300 + 200 * all + 300 * high)
  BY DEF MitreFactor
<1>4. Atmost(1000, 300 + 200 * all + 300 * high) \in 0..1000
  <2>. DEFINE n == 300 + 200 * all + 300 * high
  <2>. HIDE DEF all, high
  <2>1. n \in Nat
    BY <1>1, <1>2
  <2>. HIDE DEF n
  <2>2. UpTo(Atmost(1000, n), 1000)
    BY <2>1, AtmostBounds
  <2>. QED
    BY <2>2 DEF n, UpTo
<1>. HIDE DEF all, high
<1>. QED
  BY <1>3, <1>4

(* ... which is no lower where each of the techniques has a counterpart of its
   own, of the same base, ... *)
Counterparts(few, many) == {f \in Injection(few, many) : \A t \in few : f[t].base = t.base}

LEMMA MitreFactorGrows ==
  ASSUME NEW few, NEW many, IsFiniteSet(many), Counterparts(few, many) # {}
  PROVE  MitreFactor(few) <= MitreFactor(many)
<1>. DEFINE H(S) == {t \in S : t.base \in HighSeverityTechniques}
            f == Cardinality(few)  hf == Cardinality(H(few))
            m == Cardinality(many) hm == Cardinality(H(many))
<1>0. PICK g \in Injection(few, many) : \A t \in few : g[t].base = t.base
  BY DEF Counterparts
<1>. DEFINE k == [t \in H(few) |-> g[t]]
<1>1. /\ H(many) \in SUBSET many
      /\ k \in Injection(H(few), H(many))
  <2>1. /\ g \in [few -> many]
        /\ \A t, u \in few : g[t] = g[u] => t = u
    BY <1>0 DEF Injection, IsInjective
  <2>2. k \in [H(few) -> H(many)]
    BY <1>0, <2>1
  <2>3. \A t, u \in H(few) : k[t] = k[u] => t = u
    BY <2>1
  <2>4. k \in Injection(H(few), H(many))
    <3>. HIDE DEF k, H
    <3>. QED
      BY <2>2, <2>3 DEF Injection, IsInjective
  <2>. QED
    BY <2>4
<1>2. IsFiniteSet(H(many)) /\ IsFiniteSet(few) /\ Cardinality(few) <= Cardinality(many)
  <2>1. IsFiniteSet(H(many))
    <3>. HIDE DEF H
    <3>. QED
      BY <1>1, FS_Subset
  <2>2. IsFiniteSet(few) /\ Cardinality(few) <= Cardinality(many)
    BY <1>0, FS_Injection
  <2>. QED
    BY <2>1, <2>2
<1>3. f \in Nat /\ m \in Nat /\ f <= m
  BY <1>2, FS_CardinalityType
<1>4. hf \in Nat /\ hm \in Nat /\ hf <= hm
  <2>. HIDE DEF H, k
  <2>1. IsFiniteSet(H(few)) /\ hf <= hm
    BY <1>1, <1>2, FS_Injection
  <2>. QED
    BY <1>2, <2>1, FS_CardinalityType
<1>5. /\ MitreFactor(few) = IF few = {} THEN 0 ELSE Atmost(1000, 300 + 200 * f + 300 * hf)
      /\ MitreFactor(many) = IF many = {} THEN 0 ELSE Atmost(1000, 300 + 200 * m + 300 * hm)
  BY DEF MitreFactor
<1>. HIDE DEF f, hf, m, hm
<1>6. CASE few = {}
  <2>1. MitreFactor(many) \in 0..1000
    BY MitreFactorBounds
  <2>2. MitreFactor(few) = 0
    BY <1>5, <1>6
  <2>. QED
    BY <2>1, <2>2
<1>7. CASE few # {}
  <2>1. many # {}
    BY <1>0, <1>7 DEF Injection
  <2>2. Atmost(1000, 300 + 200 * f + 300 * hf) <= Atmost(1000, 300 + 200 * m + 300 * hm)
    BY <1>3, <1>4, AtmostIs
  <2>. QED
    BY <1>5, <1>7, <2>1, <2>2
<1>. QED
  BY <1>6, <1>7

(* ... nor do further indicators the threat-intel factor. *)
LEMMA ThreatIntelFactorGrows ==
  ASSUME NEW few, NEW many, SoundIocs(many), few \subseteq many
  PROVE  ThreatIntelFactor(few) <= ThreatIntelFactor(many)
<1>. DEFINE F == {0} \cup {e.confidence : e \in Interesting(few)}
            M == {0} \cup {e.confidence : e \in Interesting(many)}
<1>1. \A e \in Interesting(many) : e.confidence \in 0..990
  BY DEF Interesting, WithVerdict, SoundIocs, SoundIoc
<1>2. Interesting(few) \subseteq Interesting(many)
  BY DEF Interesting, WithVerdict
<1>3. M \in SUBSET (0..1000) /\ M # {}
  BY <1>1
<1>4. F \in SUBSET M /\ F # {}
  BY <1>2
<1>5. ThreatIntelFactor(few) = Max(F) /\ ThreatIntelFactor(many) = Max(M)
  BY DEF ThreatIntelFactor
<1>. HIDE DEF F, M
<1>6. F \in SUBSET (0..1000)
  BY <1>3, <1>4
<1>7. Greatest(Max(F), F) /\ Greatest(Max(M), M)
  BY <1>3, <1>4, <1>6, GreatestOfMany
<1>. QED
  BY <1>4, <1>5, <1>7 DEF Greatest

(* The factors of the risk, in their ranges. *)
Factors(iocs, malscore_, mitre, criticality) ==
  /\ ThreatIntelFactor(iocs) \in 0..990
  /\ malscore_ \in 0..1000
  /\ MitreFactor(mitre) \in 0..1000
  /\ criticality \in 300..900

(* k bounds the risk, whatever techniques and recipients there are. *)
Ceiling(iocs, s, hit, cr, k) ==
  3 * (30 * ThreatIntelFactor(iocs) + 20 * s + 15000 + 10 * cr + 5000)
    + 20 * (IF hit = 0 THEN 0 ELSE 3000) <= 300 * k

(* An upper bound of the risk from bounds of its factors. *)
LEMMA RiskAtMost ==
  ASSUME NEW iocs, NEW s, NEW hit \in Nat, NEW mitre, NEW cr, NEW who \in Nat,
         Factors(iocs, s, mitre, cr), NEW k \in Int,
         Ceiling(iocs, s, hit, cr, k)
  PROVE  UpTo(Risk(iocs, s, hit, mitre, cr, who), k)
<1>. DEFINE f == ThreatIntelFactor(iocs)
            m == MitreFactor(mitre)
            w == Atmost(1000, 10 * who)
            h == Atmost(3000, 1000 * hit)
            a == 3 * (30 * f + 20 * s + 15 * m + 10 * cr + 5 * w) + 20 * h
<1>1. w \in 0..1000 /\ h \in 0..3000 /\ (hit = 0 => h = 0)
  <2>. DEFINE x == 10 * who  y == 1000 * hit
  <2>1. x \in Nat /\ y \in Nat /\ (hit = 0 => y = 0)
    OBVIOUS
  <2>. HIDE DEF x, y
  <2>2. UpTo(Atmost(1000, x), 1000)
    BY <2>1, AtmostBounds
  <2>3. UpTo(Atmost(3000, y), 3000) /\ (y = 0 => Atmost(3000, y) = 0)
    BY <2>1, AtmostBounds
  <2>. QED
    BY <2>1, <2>2, <2>3 DEF x, y, UpTo
<1>2. f \in 0..990 /\ s \in 0..1000 /\ m \in 0..1000 /\ cr \in 300..900
  BY DEF Factors
<1>3. Risk(iocs, s, hit, mitre, cr, who) = RoundDiv(a, 300)
  BY DEF Risk
<1>4. 3 * (30 * f + 20 * s + 15000 + 10 * cr + 5000) + 20 * (IF hit = 0 THEN 0 ELSE 3000) <= 300 * k
  BY DEF Ceiling
<1>. HIDE DEF f, m, w, h
<1>5. a \in Int /\ 0 <= a /\ a <= k * 300
  BY <1>1, <1>2, <1>4
<1>. HIDE DEF a
<1>6. UpTo(RoundDiv(a, 300), k)
  <2>. DEFINE b == 300
  <2>1. b \in Nat \ {0} /\ a <= k * b
    BY <1>5
  <2>. HIDE DEF b
  <2>2. UpTo(RoundDiv(a, b), k)
    BY <1>5, <2>1, Rounded
  <2>. QED
    BY <2>2 DEF b
<1>. QED
  BY <1>3, <1>6

(* The risk is monotone in each of its factors. *)
LEMMA RiskGrows ==
  ASSUME NEW i1, NEW s1, NEW h1 \in Nat, NEW m1, NEW c1, NEW w1 \in Nat, Factors(i1, s1, m1, c1),
         NEW i2, NEW s2, NEW h2 \in Nat, NEW m2, NEW c2, NEW w2 \in Nat, Factors(i2, s2, m2, c2),
         ThreatIntelFactor(i1) <= ThreatIntelFactor(i2), s1 <= s2, h1 <= h2,
         MitreFactor(m1) <= MitreFactor(m2), c1 <= c2, w1 <= w2
  PROVE  Risk(i1, s1, h1, m1, c1, w1) <= Risk(i2, s2, h2, m2, c2, w2)
<1>. DEFINE x1 == Atmost(1000, 10 * w1)  y1 == Atmost(3000, 1000 * h1)
            x2 == Atmost(1000, 10 * w2)  y2 == Atmost(3000, 1000 * h2)
            t1 == ThreatIntelFactor(i1)  t2 == ThreatIntelFactor(i2)
            f1 == MitreFactor(m1)  f2 == MitreFactor(m2)
            a1 == 3 * (30 * t1 + 20 * s1 + 15 * f1 + 10 * c1 + 5 * x1) + 20 * y1
            a2 == 3 * (30 * t2 + 20 * s2 + 15 * f2 + 10 * c2 + 5 * x2) + 20 * y2
<1>1. x1 \in Int /\ x2 \in Int /\ x1 <= x2
  BY AtmostIs
<1>2. y1 \in Int /\ y2 \in Int /\ y1 <= y2
  BY AtmostIs
<1>3. /\ t1 \in Int /\ s1 \in Int /\ f1 \in Int /\ c1 \in Int
      /\ t2 \in Int /\ s2 \in Int /\ f2 \in Int /\ c2 \in Int
  <2>1. /\ t1 \in 0..990 /\ s1 \in 0..1000 /\ f1 \in 0..1000 /\ c1 \in 300..900
        /\ t2 \in 0..990 /\ s2 \in 0..1000 /\ f2 \in 0..1000 /\ c2 \in 300..900
    BY DEF Factors
  <2>. HIDE DEF t1, t2, f1, f2
  <2>. QED
    BY <2>1
<1>4. t1 <= t2 /\ s1 <= s2 /\ f1 <= f2 /\ c1 <= c2
  OBVIOUS
<1>5. /\ Risk(i1, s1, h1, m1, c1, w1) = RoundDiv(a1, 300)
      /\ Risk(i2, s2, h2, m2, c2, w2) = RoundDiv(a2, 300)
  BY DEF Risk
<1>. HIDE DEF x1, x2, y1, y2, t1, t2, f1, f2
<1>6. a1 \in Int /\ a2 \in Int /\ a1 <= a2
  BY <1>1, <1>2, <1>3, <1>4
<1>. HIDE DEF a1, a2
<1>. QED
  BY <1>5, <1>6, RoundDivMonotone

-----------------------------------------------------------------------------
(* The five voters of the consensus (ConsensusEngine). *)
VoterNames == {"edr", "threat_intel", "sandbox", "detections", "mitre"}

(* A vote, or an abstention, which has no malice. *)
IsVote(v) ==
  /\ v.verdict \in Verdicts \cup {"none"}
  /\ v.malice \in 0..1000
  /\ v.verdict = "none" => v.malice = 0

(* The votes that were collected. *)
Polled(votes) ==
  /\ DOMAIN votes = VoterNames
  /\ \A n \in VoterNames : IsVote(votes[n])

(* The weight of a voter that has not abstained. *)
WeightIn(votes, n) == IF votes[n].verdict = "none" THEN 0 ELSE Weight[n]

(* The weighted sums of the consensus, written out. *)
LEMMA WeightsAre ==
  ASSUME NEW votes, Polled(votes)
  PROVE  /\ WeightOf(Voters(votes)) =
              (IF votes.edr.verdict = "none" THEN 0 ELSE 30)
              + (IF votes.threat_intel.verdict = "none" THEN 0 ELSE 25)
              + (IF votes.sandbox.verdict = "none" THEN 0 ELSE 20)
              + (IF votes.detections.verdict = "none" THEN 0 ELSE 15)
              + (IF votes.mitre.verdict = "none" THEN 0 ELSE 10)
         /\ MaliceOf(votes) = 30 * votes.edr.malice + 25 * votes.threat_intel.malice
              + 20 * votes.sandbox.malice + 15 * votes.detections.malice + 10 * votes.mitre.malice
<1>1. /\ ("edr" \in Voters(votes) <=> votes.edr.verdict # "none")
      /\ ("threat_intel" \in Voters(votes) <=> votes.threat_intel.verdict # "none")
      /\ ("sandbox" \in Voters(votes) <=> votes.sandbox.verdict # "none")
      /\ ("detections" \in Voters(votes) <=> votes.detections.verdict # "none")
      /\ ("mitre" \in Voters(votes) <=> votes.mitre.verdict # "none")
  BY DEF Polled, Voters, VoterNames
<1>2. /\ DOMAIN Weight = VoterNames
      /\ Weight.edr = 30 /\ Weight.threat_intel = 25 /\ Weight.sandbox = 20
      /\ Weight.detections = 15 /\ Weight.mitre = 10
  BY DEF Weight, VoterNames
<1>3. WeightOf(Voters(votes)) =
        (IF "edr" \in Voters(votes) THEN Weight.edr ELSE 0)
        + (IF "threat_intel" \in Voters(votes) THEN Weight.threat_intel ELSE 0)
        + (IF "sandbox" \in Voters(votes) THEN Weight.sandbox ELSE 0)
        + (IF "detections" \in Voters(votes) THEN Weight.detections ELSE 0)
        + (IF "mitre" \in Voters(votes) THEN Weight.mitre ELSE 0)
  BY <1>2 DEF WeightOf, Together, VoterNames
<1>4. MaliceOf(votes) = Weight.edr * votes.edr.malice + Weight.threat_intel * votes.threat_intel.malice
              + Weight.sandbox * votes.sandbox.malice + Weight.detections * votes.detections.malice
              + Weight.mitre * votes.mitre.malice
  BY <1>2 DEF MaliceOf, Together, VoterNames
<1>. QED
  BY <1>1, <1>2, <1>3, <1>4

(* Malice M on weights W in all. *)
Scales(M, W) == W \in 0..100 /\ M \in Nat /\ M <= 1000 * W

(* The weighted malice is an average of scores, and only an empty poll has no
   weight. *)
LEMMA ScalesAre ==
  ASSUME NEW votes, Polled(votes)
  PROVE  /\ Scales(MaliceOf(votes), WeightOf(Voters(votes)))
         /\ Voters(votes) = {} <=> WeightOf(Voters(votes)) = 0
<1>1. /\ IsVote(votes.edr) /\ IsVote(votes.threat_intel) /\ IsVote(votes.sandbox)
      /\ IsVote(votes.detections) /\ IsVote(votes.mitre)
  BY DEF Polled, VoterNames
<1>2. Scales(MaliceOf(votes), WeightOf(Voters(votes)))
  <2>. DEFINE W == WeightOf(Voters(votes))  M == MaliceOf(votes)
              w(v, k) == IF v.verdict = "none" THEN 0 ELSE k
              e == votes.edr.malice  t == votes.threat_intel.malice  s == votes.sandbox.malice
              d == votes.detections.malice  m == votes.mitre.malice
              we == w(votes.edr, 30)  wt == w(votes.threat_intel, 25)
              ws == w(votes.sandbox, 20)  wd == w(votes.detections, 15)  wm == w(votes.mitre, 10)
  <2>1. \A v : IsVote(v) => v.malice \in 0..1000 /\ (v.verdict = "none" => v.malice = 0)
    BY DEF IsVote
  <2>2. /\ e \in 0..1000 /\ t \in 0..1000 /\ s \in 0..1000 /\ d \in 0..1000 /\ m \in 0..1000
    <3>1. e \in 0..1000
      BY <1>1, <2>1
    <3>2. t \in 0..1000
      BY <1>1, <2>1
    <3>3. s \in 0..1000
      BY <1>1, <2>1
    <3>4. d \in 0..1000
      BY <1>1, <2>1
    <3>5. m \in 0..1000
      BY <1>1, <2>1
    <3>. HIDE DEF e, t, s, d, m
    <3>. QED
      BY <3>1, <3>2, <3>3, <3>4, <3>5
  <2>3. ASSUME NEW v, IsVote(v)
        PROVE  /\ w(v, 30) \in 0..30 /\ 30 * v.malice <= 1000 * w(v, 30)
               /\ w(v, 25) \in 0..25 /\ 25 * v.malice <= 1000 * w(v, 25)
               /\ w(v, 20) \in 0..20 /\ 20 * v.malice <= 1000 * w(v, 20)
               /\ w(v, 15) \in 0..15 /\ 15 * v.malice <= 1000 * w(v, 15)
               /\ w(v, 10) \in 0..10 /\ 10 * v.malice <= 1000 * w(v, 10)
    <3>. DEFINE p == v.malice
    <3>1. p \in 0..1000 /\ (v.verdict = "none" => p = 0)
      BY <2>1, <2>3
    <3>. HIDE DEF p
    <3>2. CASE v.verdict = "none"
      <4>1. p = 0
        BY <3>1, <3>2
      <4>. QED
        BY <3>2, <4>1 DEF p
    <3>3. CASE v.verdict # "none"
      <4>1. 30 * p <= 30000 /\ 25 * p <= 25000 /\ 20 * p <= 20000 /\ 15 * p <= 15000 /\ 10 * p <= 10000
        BY <3>1
      <4>. QED
        BY <3>3, <4>1 DEF p
    <3>. QED
      BY <3>2, <3>3
  <2>6. /\ we \in 0..30 /\ 30 * e <= 1000 * we
        /\ wt \in 0..25 /\ 25 * t <= 1000 * wt
        /\ ws \in 0..20 /\ 20 * s <= 1000 * ws
        /\ wd \in 0..15 /\ 15 * d <= 1000 * wd
        /\ wm \in 0..10 /\ 10 * m <= 1000 * wm
    <3>. HIDE DEF w
    <3>. QED
      BY <1>1, <2>3
  <2>4. W = we + wt + ws + wd + wm /\ M = 30 * e + 25 * t + 20 * s + 15 * d + 10 * m
    BY WeightsAre
  <2>. HIDE DEF W, M, w, e, t, s, d, m, we, wt, ws, wd, wm
  <2>5. W \in 0..100 /\ M \in Nat /\ M <= 1000 * W
    BY <2>2, <2>4, <2>6
  <2>. QED
    BY <2>5 DEF W, M, Scales
<1>3. Voters(votes) = {} <=> \A n \in VoterNames : votes[n].verdict = "none"
  BY DEF Polled, Voters
<1>4. Voters(votes) = {} <=> /\ votes.edr.verdict = "none" /\ votes.threat_intel.verdict = "none"
                             /\ votes.sandbox.verdict = "none" /\ votes.detections.verdict = "none"
                             /\ votes.mitre.verdict = "none"
  BY <1>3 DEF VoterNames
<1>5. WeightOf(Voters(votes)) = 0 <=>
        /\ votes.edr.verdict = "none" /\ votes.threat_intel.verdict = "none"
        /\ votes.sandbox.verdict = "none" /\ votes.detections.verdict = "none"
        /\ votes.mitre.verdict = "none"
  BY WeightsAre
<1>. QED
  BY <1>2, <1>4, <1>5

(* The verdict by the thresholds 0.7 and 0.4 of the average, without the
   division. *)
Tier(M, W) == IF M >= 700 * W THEN "malicious" ELSE IF M >= 400 * W THEN "suspicious" ELSE "benign"

(* The rounding down of the average changes no verdict. *)
LEMMA TierIs ==
  ASSUME NEW W \in Nat \ {0}, NEW M \in Nat
  PROVE  VerdictFor(M \div W) = Tier(M, W)
<1>. DEFINE q == M \div W
<1>1. q \in Int /\ W * q <= M /\ M < W * q + W
  BY DivBounds
<1>. HIDE DEF q
<1>2. ASSUME NEW k \in Int PROVE q >= k <=> M >= k * W
  <2>1. ASSUME q >= k PROVE M >= k * W
    <3>1. W * q >= W * k
      BY <2>1, <1>1
    <3>. QED
      BY <3>1, <1>1
  <2>2. ASSUME M >= k * W PROVE q >= k
    <3>1. W * (q + 1) > W * k
      BY <2>2, <1>1
    <3>2. q + 1 > k
      BY <3>1, <1>1
    <3>. QED
      BY <3>2, <1>1
  <2>. QED
    BY <2>1, <2>2
<1>3. (q >= 700 <=> M >= 700 * W) /\ (q >= 400 <=> M >= 400 * W)
  BY <1>2
<1>. QED
  BY <1>3 DEF VerdictFor, Tier, q

(* The verdict of the consensus in terms of the two sums. *)
LEMMA VerdictOnIs ==
  ASSUME NEW votes, Polled(votes)
  PROVE  VerdictOn(votes) = IF Voters(votes) = {} THEN "unknown"
                            ELSE Tier(MaliceOf(votes), WeightOf(Voters(votes)))
<1>1. CASE Voters(votes) # {}
  <2>1. WeightOf(Voters(votes)) \in Nat \ {0} /\ MaliceOf(votes) \in Nat
    BY <1>1, ScalesAre DEF Scales
  <2>2. VerdictFor(MaliceOf(votes) \div WeightOf(Voters(votes))) =
          Tier(MaliceOf(votes), WeightOf(Voters(votes)))
    BY <2>1, TierIs
  <2>. QED
    BY <1>1, <2>2 DEF VerdictOn
<1>. QED
  BY <1>1 DEF VerdictOn

(* At most five vote. *)
LEMMA VotersFinite ==
  ASSUME NEW votes, Polled(votes)
  PROVE  Cardinality(Voters(votes)) \in 0..5 /\ IsFiniteSet(Voters(votes))
<1>1. IsFiniteSet(VoterNames) /\ Cardinality(VoterNames) = 5
  <2>. DEFINE a == {"edr"} b == a \cup {"threat_intel"} c == b \cup {"sandbox"}
              d == c \cup {"detections"} e == d \cup {"mitre"}
  <2>1. IsFiniteSet(a) /\ Cardinality(a) = 1
    BY FS_Singleton
  <2>2. IsFiniteSet(b) /\ Cardinality(b) = 2
    <3>1. "threat_intel" \notin a
      OBVIOUS
    <3>. HIDE DEF a
    <3>. QED
      BY <2>1, <3>1, FS_AddElement
  <2>3. IsFiniteSet(c) /\ Cardinality(c) = 3
    <3>1. "sandbox" \notin b
      OBVIOUS
    <3>. HIDE DEF b
    <3>. QED
      BY <2>2, <3>1, FS_AddElement
  <2>4. IsFiniteSet(d) /\ Cardinality(d) = 4
    <3>1. "detections" \notin c
      OBVIOUS
    <3>. HIDE DEF c
    <3>. QED
      BY <2>3, <3>1, FS_AddElement
  <2>5. IsFiniteSet(e) /\ Cardinality(e) = 5
    <3>1. "mitre" \notin d
      OBVIOUS
    <3>. HIDE DEF d
    <3>. QED
      BY <2>4, <3>1, FS_AddElement
  <2>6. e = VoterNames
    BY DEF VoterNames
  <2>. HIDE DEF e
  <2>. QED
    BY <2>5, <2>6
<1>2. Voters(votes) \in SUBSET VoterNames
  BY DEF Voters, Polled
<1>3. IsFiniteSet(Voters(votes)) /\ Cardinality(Voters(votes)) <= Cardinality(VoterNames)
  BY <1>1, <1>2, FS_Subset
<1>4. Cardinality(Voters(votes)) \in Nat
  BY <1>3, FS_CardinalityType
<1>. QED
  BY <1>1, <1>3, <1>4

(* Those that agree weigh no more than those that vote. *)
LEMMA AgreeingWeigh ==
  ASSUME NEW votes, Polled(votes), NEW verdict \in Verdicts
  PROVE  WeightOf(Agreeing(votes, verdict)) \in 0..WeightOf(Voters(votes))
<1>1. Agreeing(votes, verdict) \subseteq Voters(votes)
  BY DEF Agreeing, Voters, Verdicts
<1>. DEFINE w(S, n) == IF n \in S THEN Weight[n] ELSE 0
<1>2. /\ DOMAIN Weight = VoterNames
      /\ Weight.edr = 30 /\ Weight.threat_intel = 25 /\ Weight.sandbox = 20
      /\ Weight.detections = 15 /\ Weight.mitre = 10
  BY DEF Weight, VoterNames
<1>3. \A S : WeightOf(S) = w(S, "edr") + w(S, "threat_intel") + w(S, "sandbox")
                           + w(S, "detections") + w(S, "mitre")
  BY <1>2 DEF WeightOf, Together, VoterNames
<1>. QED
  BY <1>1, <1>2, <1>3

(* The confidence of the consensus is a score. *)
LEMMA ConfidenceBounds ==
  ASSUME NEW votes, Polled(votes), Voters(votes) # {}, NEW verdict \in Verdicts
  PROVE  UpTo(Confidence(votes, verdict), 1000)
<1>. DEFINE W == WeightOf(Voters(votes))
            n == Cardinality(Voters(votes))
            A == WeightOf(Agreeing(votes, verdict))
            D == Abs(MaliceOf(votes) - 400 * W)
            sum == 800 * A + 120 * n * W + D
<1>1. W \in Nat \ {0} /\ W \in 0..100 /\ MaliceOf(votes) \in Nat /\ MaliceOf(votes) <= 1000 * W
  BY ScalesAre DEF Scales
<1>2. n \in 1..5
  <2>1. n \in 0..5 /\ IsFiniteSet(Voters(votes))
    BY VotersFinite
  <2>2. n # 0
    BY <2>1, FS_EmptySet
  <2>. QED
    BY <2>1, <2>2
<1>3. A \in 0..W
  BY AgreeingWeigh
<1>4. Confidence(votes, verdict) = IF n = 1 THEN RoundDiv(3 * sum, 10 * W) ELSE RoundDiv(sum, 2 * W)
  BY DEF Confidence
<1>. HIDE DEF W, n, A
<1>5. D \in Nat /\ D <= 600 * W
  BY <1>1 DEF Abs
<1>. HIDE DEF D
<1>6. n * W \in Nat /\ n * W <= 5 * W /\ (n = 1 => n * W = W)
  <2>1. n * W <= 5 * W
    BY <1>1, <1>2
  <2>. QED
    BY <1>1, <1>2, <2>1
<1>7. sum \in Nat /\ sum <= 2000 * W /\ (n = 1 => sum <= 1520 * W)
  <2>. DEFINE p == n * W
  <2>1. sum = 800 * A + 120 * p + D
    BY <1>1, <1>2, <1>3, <1>5
  <2>2. p \in Nat /\ p <= 5 * W /\ (n = 1 => p = W)
    BY <1>6
  <2>. HIDE DEF p, sum
  <2>3. W \in Nat /\ A \in Nat /\ A <= W /\ D \in Nat /\ D <= 600 * W
    BY <1>1, <1>3, <1>5
  <2>. QED
    BY <2>1, <2>2, <2>3
<1>. HIDE DEF sum
<1>8. CASE n = 1
  <2>. DEFINE a == 3 * sum  b == 10 * W  k == 1000
  <2>1. a \in Int /\ b \in Nat \ {0} /\ k \in Int /\ 0 <= a /\ a <= k * b
    BY <1>1, <1>7, <1>8
  <2>2. Confidence(votes, verdict) = RoundDiv(a, b)
    BY <1>4, <1>8
  <2>. HIDE DEF a, b, k
  <2>3. UpTo(RoundDiv(a, b), k)
    BY <2>1, Rounded
  <2>. QED
    BY <2>2, <2>3 DEF k
<1>9. CASE n # 1
  <2>. DEFINE b == 2 * W  k == 1000
  <2>1. sum \in Int /\ b \in Nat \ {0} /\ k \in Int /\ 0 <= sum /\ sum <= k * b
    BY <1>1, <1>7
  <2>2. Confidence(votes, verdict) = RoundDiv(sum, b)
    BY <1>4, <1>9
  <2>. HIDE DEF b, k
  <2>3. UpTo(RoundDiv(sum, b), k)
    BY <2>1, Rounded
  <2>. QED
    BY <2>2, <2>3 DEF k
<1>. QED
  BY <1>8, <1>9

(* Each of the voters gives a vote: of a malice, ... *)
LEMMA ByTierIs ==
  ASSUME NEW m \in 0..1000
  PROVE  IsVote(ByTier(m)) /\ ByTier(m).malice = m /\ ByTier(m).verdict # "none"
  BY DEF ByTier, Vote, VerdictFor, IsVote, Verdicts

(* ... of the number of hosts where an indicator was seen, ... *)
LEMMA EdrVotes ==
  ASSUME NEW hit \in Nat
  PROVE  /\ IsVote(EdrVote(hit))
         /\ EdrVote(hit) = IF hit = 0 THEN Abstains ELSE Vote("malicious", 900)
         /\ EdrVote(hit).verdict = "none" <=> hit = 0
         /\ hit # 0 => EdrVote(hit).malice = 900
  BY DEF EdrVote, Abstains, Vote, IsVote, Verdicts

(* ... of the enriched indicators: an interesting one always counts, ... *)
LEMMA ThreatIntelVotes ==
  ASSUME NEW iocs, SoundIocs(iocs)
  PROVE  /\ IsVote(ThreatIntelVote(iocs))
         /\ Interesting(iocs) # {} => ThreatIntelVote(iocs).verdict # "none"
                                      /\ ThreatIntelVote(iocs).malice >= 300
<1>. DEFINE M == WithVerdict(iocs, {"malicious"})
<1>1. M # {} => FeedMalice(M) \in 300..1000
  <2>1. SoundIocs(M) /\ \A e \in M : e.verdict = "malicious"
    BY DEF SoundIocs, WithVerdict
  <2>. HIDE DEF M
  <2>. QED
    BY <2>1, FeedMaliceBounds
<1>2. CASE M # {}
  <2>1. ThreatIntelVote(iocs) = Vote("malicious", FeedMalice(M))
    BY <1>2 DEF ThreatIntelVote
  <2>. HIDE DEF M
  <2>. QED
    BY <1>1, <1>2, <2>1 DEF Vote, IsVote, Verdicts
<1>3. CASE M = {} /\ WithVerdict(iocs, {"suspicious"}) # {}
  <2>1. ThreatIntelVote(iocs) = Vote("suspicious", 500)
    BY <1>3 DEF ThreatIntelVote
  <2>. QED
    BY <2>1 DEF Vote, IsVote, Verdicts
<1>4. CASE M = {} /\ WithVerdict(iocs, {"suspicious"}) = {}
  <2>1. ThreatIntelVote(iocs) \in {Vote("benign", 100), Abstains}
    BY <1>4 DEF ThreatIntelVote
  <2>2. IsVote(ThreatIntelVote(iocs))
    BY <2>1 DEF Vote, IsVote, Verdicts, Abstains
  <2>3. Interesting(iocs) = {}
    BY <1>4 DEF Interesting, WithVerdict
  <2>. QED
    BY <2>2, <2>3
<1>. QED
  BY <1>2, <1>3, <1>4

(* ... of the sandbox score, which is its malice, ... *)
LEMMA SandboxVotes ==
  ASSUME NEW s \in 0..1000
  PROVE  /\ IsVote(SandboxVote(s))
         /\ SandboxVote(s).verdict = "none" <=> s = 0
         /\ SandboxVote(s).malice = s
<1>1. CASE s = 0
  BY <1>1, SMTT(30) DEF SandboxVote, Abstains, Vote, IsVote, Verdicts
<1>2. CASE s # 0
  <2>1. SandboxVote(s) = ByTier(s)
    BY <1>2 DEF SandboxVote
  <2>. QED
    BY <1>2, <2>1, ByTierIs, ZenonT(60)
<1>. QED
  BY <1>1, <1>2

(* Rules that have one of the four severities. *)
Graded(fired) == \A r \in fired : r.severity \in DOMAIN SeverityMalice

(* ... of the rules that fired, ... *)
LEMMA DetectionVotes ==
  ASSUME NEW fired, Graded(fired)
  PROVE  /\ IsVote(DetectionVote(fired))
         /\ DetectionVote(fired).verdict # "none" => DetectionVote(fired).malice >= 150
<1>. DEFINE S == {SeverityMalice[r.severity] : r \in fired}
<1>1. \A r \in fired : SeverityMalice[r.severity] \in 150..900
  BY DEF Graded, SeverityMalice
<1>2. \A x \in S : x \in 150..900
  BY <1>1
<1>3. CASE fired = {}
  BY <1>3 DEF DetectionVote, Abstains, Vote, IsVote, Verdicts
<1>4. CASE fired # {}
  <2>1. DetectionVote(fired) = ByTier(Max(S))
    BY <1>4 DEF DetectionVote
  <2>2. S # {} 
    BY <1>4
  <2>. HIDE DEF S
  <2>3. S \in SUBSET (0..1000)
    BY <1>2
  <2>4. Max(S) \in S
    BY <2>2, <2>3, GreatestOfMany DEF Greatest
  <2>5. Max(S) \in 0..1000 /\ Max(S) >= 150
    BY <1>2, <2>4
  <2>. QED
    BY <2>1, <2>5, ByTierIs, ZenonT(60)
<1>. QED
  BY <1>3, <1>4

(* ... and of the techniques. *)
LEMMA MitreVotes ==
  ASSUME NEW mitre, IsFiniteSet(mitre)
  PROVE  /\ IsVote(MitreVote(mitre))
         /\ MitreVote(mitre).verdict # "none" => MitreVote(mitre).malice >= 300
<1>. DEFINE high == Cardinality({t \in mitre : t.tactic \in HighSeverityTactics})
            m == Atmost(800, 300 + 120 * high)
<1>1. high \in Nat
  <2>1. {t \in mitre : t.tactic \in HighSeverityTactics} \in SUBSET mitre
    OBVIOUS
  <2>. QED
    BY <2>1, FS_Subset, FS_CardinalityType
<1>2. CASE mitre = {}
  BY <1>2 DEF MitreVote, Abstains, Vote, IsVote, Verdicts
<1>3. CASE mitre # {}
  <2>1. MitreVote(mitre) = ByTier(m)
    BY <1>3 DEF MitreVote
  <2>. HIDE DEF high
  <2>2. m = IF 800 <= 300 + 120 * high THEN 800 ELSE 300 + 120 * high
    BY <1>1, AtmostIs
  <2>3. m \in 0..1000 /\ m >= 300
    BY <1>1, <2>2
  <2>. HIDE DEF m
  <2>. QED
    BY <2>1, <2>3, ByTierIs, ZenonT(60)
<1>. QED
  BY <1>2, <1>3

(* Together they are a poll. *)
LEMMA PollIs ==
  ASSUME NEW iocs, SoundIocs(iocs), NEW hit \in Nat, NEW s \in 0..1000,
         NEW fired, Graded(fired), NEW mitre, IsFiniteSet(mitre)
  PROVE  Polled(CollectVoters(iocs, hit, s, fired, mitre))
<1>1. /\ IsVote(EdrVote(hit)) /\ IsVote(ThreatIntelVote(iocs)) /\ IsVote(SandboxVote(s))
      /\ IsVote(DetectionVote(fired)) /\ IsVote(MitreVote(mitre))
  <2>1. IsVote(EdrVote(hit))
    BY EdrVotes
  <2>2. IsVote(ThreatIntelVote(iocs))
    BY ThreatIntelVotes
  <2>3. IsVote(SandboxVote(s))
    BY SandboxVotes
  <2>4. IsVote(DetectionVote(fired))
    BY DetectionVotes
  <2>5. IsVote(MitreVote(mitre))
    BY MitreVotes
  <2>. QED
    BY <2>1, <2>2, <2>3, <2>4, <2>5
<1>. QED
  BY <1>1 DEF Polled, CollectVoters, VoterNames

(* Of a case the vote does not act on, what the votes of sightings, feeds and
   sandbox may be. *)
LEMMA Dismissed ==
  ASSUME NEW iocs, SoundIocs(iocs), NEW hit \in Nat, NEW s \in 0..1000,
         NEW fired, Graded(fired), NEW mitre, IsFiniteSet(mitre),
         ~ Actionable(VerdictOn(CollectVoters(iocs, hit, s, fired, mitre)))
  PROVE  hit = 0 \/ s <= 12 \/ Interesting(iocs) = {}
<1>. DEFINE votes == CollectVoters(iocs, hit, s, fired, mitre)
            W == WeightOf(Voters(votes))
            M == MaliceOf(votes)
            t == votes.threat_intel.malice
            d == votes.detections.malice
            m == votes.mitre.malice
<1>0. SUFFICES ASSUME hit # 0, Interesting(iocs) # {} PROVE s <= 12
  OBVIOUS
<1>1. /\ votes.edr = EdrVote(hit) /\ votes.threat_intel = ThreatIntelVote(iocs)
      /\ votes.sandbox = SandboxVote(s) /\ votes.detections = DetectionVote(fired)
      /\ votes.mitre = MitreVote(mitre)
  BY DEF CollectVoters
<1>2. Polled(votes)
  BY PollIs, ZenonT(60)
<1>3. votes.edr.verdict # "none" /\ votes.edr.malice = 900
  BY <1>0, <1>1, EdrVotes
<1>4. votes.threat_intel.verdict # "none" /\ t \in 300..1000
  BY <1>0, <1>1, ThreatIntelVotes DEF IsVote
<1>5. (votes.sandbox.verdict = "none" <=> s = 0) /\ votes.sandbox.malice = s
  BY <1>1, SandboxVotes
<1>6. d \in 0..1000 /\ (votes.detections.verdict # "none" => d >= 150)
  BY <1>1, DetectionVotes DEF IsVote
<1>7. m \in 0..1000 /\ (votes.mitre.verdict # "none" => m >= 300)
  BY <1>1, MitreVotes DEF IsVote
<1>8. /\ W = 30 + 25 + (IF s = 0 THEN 0 ELSE 20)
             + (IF votes.detections.verdict = "none" THEN 0 ELSE 15)
             + (IF votes.mitre.verdict = "none" THEN 0 ELSE 10)
      /\ M = 27000 + 25 * t + 20 * s + 15 * d + 10 * m
  <2>. HIDE DEF votes
  <2>. QED
    BY <1>2, <1>3, <1>4, <1>5, WeightsAre
<1>9. M < 400 * W
  <2>1. ~ Actionable(VerdictOn(votes))
    OBVIOUS
  <2>2. Scales(M, W) /\ (Voters(votes) = {} <=> W = 0)
    <3>. HIDE DEF votes
    <3>. QED
      BY <1>2, ScalesAre
  <2>3. VerdictOn(votes) = IF Voters(votes) = {} THEN "unknown" ELSE Tier(M, W)
    <3>. HIDE DEF votes
    <3>. QED
      BY <1>2, VerdictOnIs
  <2>. HIDE DEF votes, M, W
  <2>4. W # 0
    BY <1>8
  <2>5. ~ (M >= 400 * W)
    BY <2>1, <2>2, <2>3, <2>4 DEF Actionable, Tier, Scales
  <2>. QED
    BY <2>2, <2>5 DEF Scales
<1>. DEFINE x == votes.detections.verdict = "none"  y == votes.mitre.verdict = "none"
<1>10. /\ x \/ d >= 150
       /\ y \/ m >= 300
       /\ W = 55 + (IF s = 0 THEN 0 ELSE 20) + (IF x THEN 0 ELSE 15) + (IF y THEN 0 ELSE 10)
  <2>1. (x \/ d >= 150) /\ (y \/ m >= 300)
    <3>. HIDE DEF votes
    <3>. QED
      BY <1>6, <1>7
  <2>2. W = 30 + 25 + (IF s = 0 THEN 0 ELSE 20) + (IF x THEN 0 ELSE 15) + (IF y THEN 0 ELSE 10)
    <3>. HIDE DEF votes, W, M
    <3>. QED
      BY <1>8
  <2>. HIDE DEF votes, W, x, y, d, m
  <2>. QED
    BY <2>1, <2>2
<1>. HIDE DEF votes, W, M, t, d, m, x, y
<1>11. 27000 + 25 * t + 20 * s + 15 * d + 10 * m < 400 * W
  BY <1>8, <1>9
<1>12. 25 * t >= 7500 /\ 15 * d >= (IF x THEN 0 ELSE 2250) /\ 10 * m >= (IF y THEN 0 ELSE 3000)
  BY <1>4, <1>6, <1>7, <1>10
<1>. QED
  BY <1>4, <1>6, <1>7, <1>10, <1>11, <1>12

-----------------------------------------------------------------------------
(* The techniques that the mapping and the builtin rules can name. *)
KnownTechniques ==
  {SpearphishingLink, MaliciousLink, MaliciousFile, PowerShell, RunKeys, WebProtocols,
   DataEncrypted, ProxyExecution, LsassMemory, InhibitRecovery, ValidAccounts, ScheduledTask}

(* There are finitely many of them. *)
LEMMA KnownTechniquesFinite == IsFiniteSet(KnownTechniques)
<1>. DEFINE all == <<SpearphishingLink, MaliciousLink, MaliciousFile, PowerShell, RunKeys,
                     WebProtocols, DataEncrypted, ProxyExecution, LsassMemory, InhibitRecovery,
                     ValidAccounts, ScheduledTask>>
            g == [i \in 1..12 |-> all[i]]
            T == {all[i] : i \in 1..12}
<1>1. g \in Surjection(1..12, T)
  <2>. HIDE DEF all
  <2>. QED
    BY DEF Surjection
<1>2. IsFiniteSet(1..12)
  <2>1. 1 \in Int /\ 12 \in Int
    OBVIOUS
  <2>. QED
    BY <2>1, FS_Interval, Zenon
<1>3. IsFiniteSet(T)
  <2>. HIDE DEF g, T
  <2>. QED
    BY <1>1, <1>2, FS_Surjection
<1>4. KnownTechniques \in SUBSET T
  <2>1. /\ all[1] = SpearphishingLink /\ all[2] = MaliciousLink /\ all[3] = MaliciousFile
        /\ all[4] = PowerShell /\ all[5] = RunKeys /\ all[6] = WebProtocols
        /\ all[7] = DataEncrypted /\ all[8] = ProxyExecution /\ all[9] = LsassMemory
        /\ all[10] = InhibitRecovery /\ all[11] = ValidAccounts /\ all[12] = ScheduledTask
    OBVIOUS
  <2>. HIDE DEF all
  <2>. QED
    BY <2>1 DEF KnownTechniques
<1>. QED
  BY <1>3, <1>4, FS_Subset

(* The builtin rules are graded and name such techniques. *)
LEMMA BuiltinsKnown ==
  ASSUME NEW r \in BuiltinRules
  PROVE  r.severity \in DOMAIN SeverityMalice /\ r.techniques \subseteq KnownTechniques
<1>1. \A i, s, t, n, a, b, c : /\ Rule(i, s, t, n, a, b, c).severity = s
                               /\ Rule(i, s, t, n, a, b, c).techniques = t
  BY DEF Rule
<1>2. /\ "critical" \in DOMAIN SeverityMalice /\ "high" \in DOMAIN SeverityMalice
      /\ "medium" \in DOMAIN SeverityMalice
  BY DEF SeverityMalice
<1>3. /\ {PowerShell} \subseteq KnownTechniques /\ {ProxyExecution} \subseteq KnownTechniques
      /\ {RunKeys} \subseteq KnownTechniques /\ {LsassMemory} \subseteq KnownTechniques
      /\ {SpearphishingLink} \subseteq KnownTechniques
      /\ {InhibitRecovery, DataEncrypted} \subseteq KnownTechniques
      /\ {ValidAccounts} \subseteq KnownTechniques /\ {ScheduledTask} \subseteq KnownTechniques
  BY DEF KnownTechniques
<1>4. \E i, s, t, n, a, b, c :
        /\ r = Rule(i, s, t, n, a, b, c)
        /\ s \in {"critical", "high", "medium"}
        /\ t \in {{PowerShell}, {ProxyExecution}, {RunKeys}, {LsassMemory}, {SpearphishingLink},
                  {InhibitRecovery, DataEncrypted}, {ValidAccounts}, {ScheduledTask}}
  BY DEF BuiltinRules
<1>. QED
  BY <1>1, <1>2, <1>3, <1>4

(* Rules that may fire: the builtin ones and the tenant's. *)
FiredRules(fired) == fired \subseteq BuiltinRules \cup TenantRules

(* Their severities are among the graded ones. *)
LEMMA FiredAreGraded ==
  ASSUME NEW fired, FiredRules(fired)
  PROVE  Graded(fired)
  BY BuiltinsKnown, EvidenceAssumption DEF FiredRules, Graded

(* The techniques of the mapping are known ones, ... *)
LEMMA MappedAreKnown ==
  ASSUME NEW text, NEW url
  PROVE  MapTechniques(text, url) \subseteq KnownTechniques \cap Range(Signals)
<1>1. \A w \in DOMAIN Signals : Signals[w] \in KnownTechniques /\ Signals[w] \in Range(Signals)
  BY DEF Signals, KnownTechniques, Range
<1>2. /\ {SpearphishingLink, MaliciousLink} \subseteq KnownTechniques
      /\ {SpearphishingLink, MaliciousLink} \subseteq Range(Signals)
  <2>1. "url" \in DOMAIN Signals /\ "clicked" \in DOMAIN Signals
    BY DEF Signals
  <2>2. Signals["url"] = SpearphishingLink /\ Signals["clicked"] = MaliciousLink
    BY DEF Signals
  <2>. QED
    BY <1>1, <2>1, <2>2
<1>. QED
  BY <1>1, <1>2 DEF MapTechniques

(* ... which have an id each. *)
LEMMA KnownByTheirIds ==
  \A t, u \in KnownTechniques : t.id = u.id => t = u
<1>. DEFINE all == <<SpearphishingLink, MaliciousLink, MaliciousFile, PowerShell, RunKeys,
                     WebProtocols, DataEncrypted, ProxyExecution, LsassMemory, InhibitRecovery,
                     ValidAccounts, ScheduledTask>>
            ids == <<"T1566.002", "T1204.001", "T1204.002", "T1059.001", "T1547.001",
                     "T1071.001", "T1486", "T1218", "T1003.001", "T1490", "T1078", "T1053.005">>
<1>1. \A i \in 1..12 : all[i].id = ids[i]
  <2>1. \A i, b, t : Technique(i, b, t).id = i
    BY DEF Technique
  <2>2. /\ all[1].id = "T1566.002" /\ all[2].id = "T1204.001" /\ all[3].id = "T1204.002"
        /\ all[4].id = "T1059.001" /\ all[5].id = "T1547.001" /\ all[6].id = "T1071.001"
        /\ all[7].id = "T1486" /\ all[8].id = "T1218" /\ all[9].id = "T1003.001"
        /\ all[10].id = "T1490" /\ all[11].id = "T1078" /\ all[12].id = "T1053.005"
    BY <2>1 DEF SpearphishingLink, MaliciousLink, MaliciousFile, PowerShell, RunKeys,
       WebProtocols, DataEncrypted, ProxyExecution, LsassMemory, InhibitRecovery,
       ValidAccounts, ScheduledTask
  <2>. HIDE DEF all
  <2>. QED
    BY <2>2
<1>2. \A i, j \in 1..12 : ids[i] = ids[j] => i = j
  OBVIOUS
<1>3. \A t \in KnownTechniques : \E i \in 1..12 : t = all[i]
  <2>1. /\ all[1] = SpearphishingLink /\ all[2] = MaliciousLink /\ all[3] = MaliciousFile
        /\ all[4] = PowerShell /\ all[5] = RunKeys /\ all[6] = WebProtocols
        /\ all[7] = DataEncrypted /\ all[8] = ProxyExecution /\ all[9] = LsassMemory
        /\ all[10] = InhibitRecovery /\ all[11] = ValidAccounts /\ all[12] = ScheduledTask
    OBVIOUS
  <2>. HIDE DEF all
  <2>. QED
    BY <2>1 DEF KnownTechniques
<1>. HIDE DEF all, ids
<1>. QED
  BY <1>1, <1>2, <1>3

(* What rules and mapping may name. *)
Nameable == TechniquesOf(BuiltinRules \cup TenantRules) \cup Range(Signals)

(* An investigation's techniques are nameable, those of the mapping are among
   them, and each id is there once that the mapping or a fired rule names. *)
LEMMA MitreIs ==
  ASSUME NEW text, NEW url, NEW fired, FiredRules(fired)
  PROVE  LET mitre == Mitre(text, url, fired) IN
         /\ mitre \subseteq Nameable
         /\ IdsOf(mitre) = IdsOf(MapTechniques(text, url)) \cup IdsOf(TechniquesOf(fired))
         /\ \A t, u \in mitre : t.id = u.id => t = u
<1>. DEFINE mapped == MapTechniques(text, url)
            named == TechniquesOf(fired)
            ids == IdsOf(named) \ IdsOf(mapped)
            pick(id) == CHOOSE t \in named : t.id = id
            mitre == Mitre(text, url, fired)
<1>1. mitre = mapped \cup {pick(id) : id \in ids}
  BY DEF Mitre
<1>2. \A id \in ids : pick(id) \in named /\ pick(id).id = id
  <2>. SUFFICES ASSUME NEW id \in ids PROVE pick(id) \in named /\ pick(id).id = id
    OBVIOUS
  <2>1. \E t \in named : t.id = id
    BY DEF IdsOf
  <2>. HIDE DEF named
  <2>. QED
    BY <2>1
<1>3. mapped \subseteq Nameable /\ (\A t, u \in mapped : t.id = u.id => t = u)
  BY MappedAreKnown, KnownByTheirIds DEF Nameable
<1>4. named \subseteq Nameable
  BY DEF TechniquesOf, FiredRules, Nameable
<1>. HIDE DEF pick, named, mapped, mitre
<1>5. mitre \subseteq Nameable
  BY <1>1, <1>2, <1>3, <1>4
<1>6. IdsOf(mitre) = IdsOf(mapped) \cup IdsOf(named)
  <2>1. IdsOf(mitre) = IdsOf(mapped) \cup {pick(id).id : id \in ids}
    BY <1>1 DEF IdsOf
  <2>2. {pick(id).id : id \in ids} = ids
    BY <1>2
  <2>. QED
    BY <2>1, <2>2
<1>7. \A t, u \in mitre : t.id = u.id => t = u
  <2>1. \A t \in mapped : t.id \notin ids
    BY DEF IdsOf
  <2>. QED
    BY <1>1, <1>2, <1>3, <2>1
<1>. QED
  BY <1>5, <1>6, <1>7 DEF mitre, mapped, named

(* There are finitely many of them. *)
LEMMA MitreFinite ==
  ASSUME NEW text, NEW url, NEW fired, FiredRules(fired)
  PROVE  IsFiniteSet(Mitre(text, url, fired))
<1>1. Range(Signals) \subseteq KnownTechniques
  BY DEF Signals, KnownTechniques, Range
<1>2. TechniquesOf(BuiltinRules \cup TenantRules)
        \subseteq KnownTechniques \cup TechniquesOf(TenantRules)
  <2>. SUFFICES ASSUME NEW t \in TechniquesOf(BuiltinRules \cup TenantRules)
                PROVE  t \in KnownTechniques \cup TechniquesOf(TenantRules)
    OBVIOUS
  <2>1. PICK r \in BuiltinRules \cup TenantRules : t \in r.techniques
    BY DEF TechniquesOf
  <2>2. CASE r \in BuiltinRules
    BY <2>1, <2>2, BuiltinsKnown
  <2>3. CASE r \in TenantRules
    BY <2>1, <2>3 DEF TechniquesOf
  <2>. QED
    BY <2>2, <2>3
<1>3. Mitre(text, url, fired) \in SUBSET (KnownTechniques \cup TechniquesOf(TenantRules))
  BY <1>1, <1>2, MitreIs DEF Nameable
<1>4. IsFiniteSet(KnownTechniques \cup TechniquesOf(TenantRules))
  BY KnownTechniquesFinite, EvidenceAssumption, FS_Union
<1>. QED
  BY <1>3, <1>4, FS_Subset

(* Finitely many indicators have finitely many values. *)
LEMMA ValuesFinite ==
  ASSUME NEW iocs, IsFiniteSet(iocs), NEW types
  PROVE  IsFiniteSet(ValuesOf(iocs, types))
<1>. DEFINE F == {f \in iocs : f.type \in types}
            g == [e \in F |-> e.value]
<1>1. F \in SUBSET iocs
  OBVIOUS
<1>2. IsFiniteSet(F)
  BY <1>1, FS_Subset
<1>3. ValuesOf(iocs, types) = {e.value : e \in F}
  BY DEF ValuesOf
<1>. HIDE DEF F
<1>4. g \in Surjection(F, {e.value : e \in F})
  BY DEF Surjection
<1>. QED
  BY <1>2, <1>3, <1>4, FS_Surjection

(* attribute picks one of its candidates. *)
LEMMA AttributeIsCandidate ==
  ASSUME NEW techniques, NEW infra, NEW malware, NEW hosts
  PROVE  Attribute(techniques, infra, malware, hosts)
           \in Candidates(techniques, infra, malware, hosts) \cup {Unattributed}
<1>. DEFINE C == Candidates(techniques, infra, malware, hosts)
            breadth == Cardinality({t.tactic : t \in techniques} \cap HighValueTactics)
            S == {c.confidence : c \in C}
<1>1. breadth \in Nat
  <2>. DEFINE all == <<"initial-access", "execution", "persistence",
                       "privilege-escalation", "defense-evasion", "credential-access",
                       "lateral-movement", "command-and-control", "exfiltration">>
              g == [i \in 1..9 |-> all[i]]
  <2>1. g \in Surjection(1..9, HighValueTactics)
    BY DEF Surjection, HighValueTactics
  <2>2. IsFiniteSet(1..9)
    <3>1. 1 \in Int /\ 9 \in Int
      OBVIOUS
    <3>. QED
      BY <3>1, FS_Interval, Zenon
  <2>. HIDE DEF g
  <2>3. IsFiniteSet(HighValueTactics)
    BY <2>1, <2>2, FS_Surjection
  <2>4. ({t.tactic : t \in techniques} \cap HighValueTactics) \in SUBSET HighValueTactics
    OBVIOUS
  <2>. QED
    BY <2>3, <2>4, FS_Subset, FS_CardinalityType
<1>2. \A c \in C : c.confidence \in 0..1000
  <2>1. UpTo(Atmost(800, 450 + 80 * breadth), 800)
    <3>. DEFINE n == 450 + 80 * breadth
    <3>. HIDE DEF breadth
    <3>1. n \in Nat
      BY <1>1
    <3>. HIDE DEF n
    <3>2. UpTo(Atmost(800, n), 800)
      BY <3>1, AtmostBounds
    <3>. QED
      BY <3>2 DEF n
  <2>. DEFINE best == Atmost(800, 450 + 80 * breadth)
  <2>2. \A c \in C : c.confidence \in {850, 600, 650, best}
    BY DEF Candidates
  <2>3. best \in 0..800
    BY <2>1 DEF UpTo
  <2>. HIDE DEF best, C
  <2>. QED
    BY <2>2, <2>3
<1>3. CASE C = {}
  BY <1>3 DEF Attribute
<1>4. CASE C # {}
  <2>1. S \in SUBSET (0..1000) /\ S # {}
    <3>. HIDE DEF C
    <3>. QED
      BY <1>2, <1>4
  <2>2. PICK c \in C : \A d \in C : c.confidence >= d.confidence
    <3>1. Greatest(Max(S), S)
      <4>. HIDE DEF S
      <4>. QED
        BY <2>1, GreatestOfMany
    <3>2. Max(S) \in S /\ \A x \in S : x <= Max(S)
      BY <3>1 DEF Greatest
    <3>. HIDE DEF C
    <3>3. PICK c \in C : c.confidence = Max(S)
      BY <3>2
    <3>4. \A d \in C : d.confidence <= Max(S)
      BY <3>2
    <3>5. \A d \in C : c.confidence >= d.confidence
      BY <1>2, <3>3, <3>4
    <3>. QED
      BY <3>5
  <2>3. Attribute(techniques, infra, malware, hosts) =
          CHOOSE k \in C : \A d \in C : k.confidence >= d.confidence
    BY <1>4 DEF Attribute
  <2>4. Attribute(techniques, infra, malware, hosts) \in C
    <3>. HIDE DEF C
    <3>. QED
      BY <2>2, <2>3
  <2>. QED
    BY <2>4
<1>. QED
  BY <1>3, <1>4

(* Attribution names an insider only where there is neither infrastructure
   nor malware. *)
LEMMA InsiderHasNone ==
  ASSUME NEW techniques, NEW infra, NEW malware, NEW hosts,
         Attribute(techniques, infra, malware, hosts).type = "insider"
  PROVE  infra = 0 /\ malware = 0
<1>1. PICK c \in Candidates(techniques, infra, malware, hosts) \cup {Unattributed} : c.type = "insider"
  BY AttributeIsCandidate
<1>2. c \in Candidates(techniques, infra, malware, hosts)
  BY <1>1 DEF Unattributed
<1>. QED
  BY <1>1, <1>2 DEF Candidates

-----------------------------------------------------------------------------
(* The evidence that an investigation has gathered, whatever the alert and
   the feeds said. *)
Evidence ==
  /\ IsFiniteSet(enriched) /\ SoundIocs(enriched)
  /\ malscore \in 0..1000
  /\ hunted \subseteq {Ioc(e) : e \in enriched}
  /\ hits \subseteq hunted \X Hosts /\ IsFiniteSet(hits)
  /\ IsFiniteSet(users)
  /\ FiredRules(detections)

(* What finalize keeps is what the evidence says: none of it is changed
   afterwards. *)
Conclusive == package # <<>> => package = ConcludedFrom(Decision(VotesOf))

(* The inductive invariant of the assessment. *)
Inv == Evidence /\ Conclusive

(* An alert brings no evidence but its own. *)
LEMMA InitEvidence == AssessmentInit => Inv
<1>1. ASSUME AssessmentInit PROVE Evidence
  BY <1>1, FS_EmptySet DEF AssessmentInit, Evidence, SoundIocs, FiredRules
<1>. QED
  BY <1>1 DEF AssessmentInit, Inv, Conclusive

(* An alert has finitely many indicators. *)
LEMMA UnenrichedFinite == IsFiniteSet(Unenriched)
<1>1. IsFiniteSet(AlertIocs \cup DroppedIocs)
  BY EvidenceAssumption, FS_Union
<1>2. Unenriched \in SUBSET (AlertIocs \cup DroppedIocs)
  BY DEF Unenriched, Known
<1>. QED
  BY <1>1, <1>2, FS_Subset

(* An indicator that the enrichment rates is sound, ... *)
LEMMA EnrichedIsSound ==
  ASSUME NEW i \in Unenriched, NEW sources \in Answers[i.type]
  PROVE  SoundIoc(EnrichedIoc(i, sources))
<1>1. i \in AlertIocs \cup DroppedIocs
  BY DEF Unenriched, Known
<1>2. sources \in Gathered(Connectors, i.type)
  BY <1>1 DEF Answers
<1>3. Grounded(sources)
  BY <1>2, GatheredGrounded
<1>. DEFINE e == EnrichedIoc(i, sources)
<1>4. e.sources = sources /\ e.verdict = Fused(sources).verdict
      /\ e.confidence = Fused(sources).confidence
  BY DEF EnrichedIoc
<1>. HIDE DEF e
<1>5. SoundIoc(e)
  BY <1>3, <1>4, FusedIs DEF SoundIoc
<1>. QED
  BY <1>5 DEF e

(* ... so enrich_iocs keeps the evidence sound. *)
LEMMA EnrichKeepsEvidence == Evidence /\ EnrichIocs => Evidence'
<1>. SUFFICES ASSUME Evidence, EnrichIocs PROVE Evidence'
  OBVIOUS
<1>1. PICK found \in [Unenriched -> UNION Range(Answers)] :
        /\ \A i \in Unenriched : found[i] \in Answers[i.type]
        /\ enriched' = enriched \cup {EnrichedIoc(i, found[i]) : i \in Unenriched}
  BY DEF EnrichIocs
<1>. DEFINE new == {EnrichedIoc(i, found[i]) : i \in Unenriched}
            g == [i \in Unenriched |-> EnrichedIoc(i, found[i])]
<1>2. IsFiniteSet(new)
  <2>1. g \in Surjection(Unenriched, new)
    BY DEF Surjection
  <2>. HIDE DEF g, new
  <2>. QED
    BY <2>1, UnenrichedFinite, FS_Surjection
<1>3. IsFiniteSet(enriched')
  <2>1. enriched' = enriched \cup new
    BY <1>1
  <2>. HIDE DEF new
  <2>. QED
    BY <1>2, <2>1, FS_Union DEF Evidence
<1>4. SoundIocs(enriched')
  <2>. SUFFICES ASSUME NEW e \in enriched' PROVE SoundIoc(e)
    BY DEF SoundIocs
  <2>1. CASE e \in enriched
    BY <2>1 DEF Evidence, SoundIocs
  <2>2. CASE e \in new
    <3>1. PICK i \in Unenriched : e = EnrichedIoc(i, found[i])
      BY <2>2
    <3>2. found[i] \in Answers[i.type]
      BY <1>1
    <3>. QED
      BY <3>1, <3>2, EnrichedIsSound
  <2>. QED
    BY <1>1, <2>1, <2>2
<1>5. hunted' \subseteq {Ioc(e) : e \in enriched'}
  <2>1. enriched \subseteq enriched' /\ hunted' = hunted
    BY <1>1 DEF EnrichIocs
  <2>. QED
    BY <2>1 DEF Evidence
<1>6. UNCHANGED <<detections, users, malscore, hunted, hits>>
  BY DEF EnrichIocs
<1>. QED
  BY <1>3, <1>4, <1>5, <1>6 DEF Evidence

(* Whatever is hunted for has been enriched. *)
LEMMA HuntsAreKnown == \A targets \in Hunts : targets \subseteq enriched
  BY DEF Hunts, PlannerHunts, ReflectionHunts, Unhunted, Unverified, WithVerdict

(* A hunt on the tenant's hosts, for however many known indicators, adds
   finitely many hits. *)
LEMMA HuntKeepsEvidence == Evidence /\ HuntEdr => Evidence'
<1>. SUFFICES ASSUME Evidence, HuntEdr PROVE Evidence'
  OBVIOUS
<1>1. PICK targets \in Hunts \ {{}} : \E seen \in [targets -> Sightings] :
        /\ hunted' = hunted \cup {Ioc(e) : e \in targets}
        /\ hits' = hits \cup Sighted(targets, seen)
  BY DEF HuntEdr
<1>2. PICK seen \in [targets -> Sightings] :
        /\ hunted' = hunted \cup {Ioc(e) : e \in targets}
        /\ hits' = hits \cup Sighted(targets, seen)
  BY <1>1
<1>. DEFINE new == {Ioc(e) : e \in targets}
            g == [e \in targets |-> Ioc(e)]
<1>3. targets \in SUBSET enriched
  BY HuntsAreKnown
<1>4. UNCHANGED <<signals, enriched, detections, users, email, malscore, detonated, package>>
  BY DEF HuntEdr
<1>5. (\A e \in targets : seen[e] \in SUBSET Hosts) /\ IsFiniteSet(Hosts)
  BY EvidenceAssumption
<1>6. hunted' \subseteq {Ioc(d) : d \in enriched'}
  BY <1>2, <1>3, <1>4 DEF Evidence
<1>7. Sighted(targets, seen) \in SUBSET (new \X Hosts)
  BY <1>5 DEF Sighted
<1>8. hits' \subseteq hunted' \X Hosts
  <2>1. new \X Hosts \subseteq hunted' \X Hosts
    BY <1>2
  <2>2. hits \subseteq hunted' \X Hosts
    BY <1>2 DEF Evidence
  <2>. HIDE DEF new
  <2>. QED
    BY <1>2, <1>7, <2>1, <2>2
<1>9. IsFiniteSet(hits')
  <2>1. IsFiniteSet(targets)
    BY <1>3, FS_Subset DEF Evidence
  <2>2. IsFiniteSet(new)
    <3>1. g \in Surjection(targets, new)
      BY DEF Surjection
    <3>. HIDE DEF g, new
    <3>. QED
      BY <2>1, <3>1, FS_Surjection
  <2>. HIDE DEF new
  <2>3. IsFiniteSet(new \X Hosts)
    BY <1>5, <2>2, FS_Product
  <2>4. IsFiniteSet(Sighted(targets, seen))
    BY <1>7, <2>3, FS_Subset
  <2>. QED
    BY <1>2, <2>4, FS_Union DEF Evidence
<1>. QED
  BY <1>4, <1>6, <1>8, <1>9 DEF Evidence

(* No step of an investigation spoils its evidence, ... *)
LEMMA EvidenceKept == Evidence /\ [AssessmentNext]_assessmentVars => Evidence'
<1>. SUFFICES ASSUME Evidence, [AssessmentNext]_assessmentVars PROVE Evidence'
  OBVIOUS
<1>1. CASE RunDetections
  BY <1>1 DEF RunDetections, Evidence, Evaluate, FiredRules
<1>2. CASE FetchEmailContext
  <2>1. IsFiniteSet(users')
    BY <1>2, EvidenceAssumption, FS_Union, ZenonT(60) DEF FetchEmailContext, Evidence
  <2>. QED
    BY <1>2, <2>1 DEF FetchEmailContext, Evidence
<1>3. CASE EnrichIocs
  BY <1>3, EnrichKeepsEvidence
<1>4. CASE DetonateAttachment
  <2>1. PICK score \in Malscores : malscore' = Malscore(score)
    BY <1>4 DEF DetonateAttachment
  <2>2. malscore' \in 0..1000
    <3>1. {malscore, score} \in SUBSET (0..1000) /\ {malscore, score} # {}
      BY EvidenceAssumption DEF Evidence
    <3>2. Max({malscore, score}) \in {malscore, score}
      BY <3>1, GreatestOfMany, SMTT(30) DEF Greatest
    <3>. QED
      BY <2>1, <3>1, <3>2 DEF Malscore
  <2>. QED
    BY <1>4, <2>2 DEF DetonateAttachment, Evidence
<1>5. CASE HuntEdr
  BY <1>5, HuntKeepsEvidence
<1>6. CASE Finalize
  BY <1>6 DEF Finalize, evidence, Evidence
<1>7. CASE UNCHANGED assessmentVars
  BY <1>7 DEF assessmentVars, evidence, Evidence
<1>. QED
  BY <1>1, <1>2, <1>3, <1>4, <1>5, <1>6, <1>7 DEF AssessmentNext

(* ... and none changes it once it is concluded. *)
LEMMA ConcludedKept == Conclusive /\ [AssessmentNext]_assessmentVars => Conclusive'
<1>. SUFFICES ASSUME Conclusive, [AssessmentNext]_assessmentVars PROVE Conclusive'
  OBVIOUS
<1>1. ASSUME UNCHANGED evidence
      PROVE  ConcludedFrom(Decision(VotesOf))' = ConcludedFrom(Decision(VotesOf))
  BY <1>1 DEF evidence, ConcludedFrom, VotesOf, MitreOf, HasMaliciousUrl, RiskOf, AffectedHosts,
     Review, Unenriched, Known, Insight, SourcesSaying, Unhunted, Unverified
<1>2. CASE Finalize
  <2>1. UNCHANGED evidence /\ package' = ConcludedFrom(Decision(VotesOf))
    BY <1>2 DEF Finalize
  <2>. QED
    BY <1>1, <2>1 DEF Conclusive
<1>3. CASE UNCHANGED assessmentVars
  <2>1. UNCHANGED evidence /\ package' = package
    BY <1>3 DEF assessmentVars
  <2>. QED
    BY <1>1, <2>1 DEF Conclusive
<1>4. CASE RunDetections \/ FetchEmailContext \/ EnrichIocs \/ DetonateAttachment \/ HuntEdr
  <2>1. package' = <<>>
    BY <1>4 DEF RunDetections, FetchEmailContext, EnrichIocs, DetonateAttachment, HuntEdr
  <2>. QED
    BY <2>1 DEF Conclusive
<1>. QED
  BY <1>2, <1>3, <1>4 DEF AssessmentNext

(* In every investigation the evidence is sound and the package says what the
   evidence does (InvestigationState, finalize): the inductive invariant
   holds. *)
THEOREM EvidenceIsSound == AssessmentSpec => []Inv
<1>1. Inv /\ [AssessmentNext]_assessmentVars => Inv'
  BY EvidenceKept, ConcludedKept DEF Inv
<1>. QED
  BY InitEvidence, <1>1, PTL DEF AssessmentSpec

-----------------------------------------------------------------------------
(* The terms of the risk and of the consensus, read from the evidence: its
   techniques, ... *)
LEMMA MitreOfFinite == Evidence => IsFiniteSet(MitreOf)
  BY MitreFinite DEF Evidence, MitreOf

(* ... the criticality of the affected assets, ... *)
LEMMA CriticalityIs ==
  ASSUME NEW hosts
  PROVE  /\ AssetCriticality(hosts) \in 300..900
         /\ hosts = {} => AssetCriticality(hosts) = 300
  BY DEF AssetCriticality, AssetClasses

(* ... which further hosts never lower, ... *)
LEMMA CriticalityGrows ==
  ASSUME NEW few, NEW many, few \subseteq many
  PROVE  AssetCriticality(few) <= AssetCriticality(many)
<1>1. AssetClasses(few) \subseteq AssetClasses(many)
  BY DEF AssetClasses
<1>2. "finance" \in AssetClasses(few) => few # {}
  BY DEF AssetClasses
<1>. QED
  BY <1>1, <1>2 DEF AssetCriticality

(* ... all factors of the risk, ... *)
FactorsOf == Factors(enriched, malscore, MitreOf, AssetCriticality(AffectedHosts))

(* ... which are in their ranges, ... *)
LEMMA FactorsAre ==
  Evidence => /\ FactorsOf
              /\ Cardinality(hits) \in Nat /\ Cardinality(users) \in Nat
<1>. SUFFICES ASSUME Evidence
              PROVE  /\ FactorsOf
                     /\ Cardinality(hits) \in Nat /\ Cardinality(users) \in Nat
  OBVIOUS
<1>1. ThreatIntelFactor(enriched) \in 0..990
  BY ThreatIntelFactorIs DEF Evidence
<1>2. MitreFactor(MitreOf) \in 0..1000
  BY MitreOfFinite, MitreFactorBounds
<1>3. AssetCriticality(AffectedHosts) \in 300..900
  BY CriticalityIs
<1>4. Cardinality(hits) \in Nat /\ Cardinality(users) \in Nat
  BY FS_CardinalityType DEF Evidence
<1>. QED
  BY <1>1, <1>2, <1>3, <1>4 DEF FactorsOf, Factors, Evidence

(* ... and the votes. *)
LEMMA VotesArePolled == Evidence => Polled(VotesOf)
<1>. SUFFICES ASSUME Evidence PROVE Polled(VotesOf)
  OBVIOUS
<1>1. Cardinality(hits) \in Nat
  BY FactorsAre
<1>2. Graded(detections) /\ IsFiniteSet(MitreOf) /\ SoundIocs(enriched) /\ malscore \in 0..1000
  BY FiredAreGraded, MitreOfFinite DEF Evidence
<1>. QED
  BY <1>1, <1>2, PollIs, ZenonT(60) DEF VotesOf

(* The risk is a score. *)
LEMMA RiskBounds == Evidence => RiskOf \in 0..1000
<1>. SUFFICES ASSUME Evidence PROVE RiskOf \in 0..1000
  OBVIOUS
<1>. DEFINE h == Cardinality(hits)  w == Cardinality(users)  c == AssetCriticality(AffectedHosts)
            f == ThreatIntelFactor(enriched)  k == 1000
<1>1. /\ Factors(enriched, malscore, MitreOf, c) /\ h \in Nat /\ w \in Nat
      /\ f \in 0..990 /\ malscore \in 0..1000 /\ c \in 300..900
  BY FactorsAre DEF FactorsOf, Factors
<1>2. RiskOf = Risk(enriched, malscore, h, MitreOf, c, w)
  BY DEF RiskOf
<1>. HIDE DEF h, w, c
<1>3. 3 * (30 * f + 20 * malscore + 15000 + 10 * c + 5000) + 20 * (IF h = 0 THEN 0 ELSE 3000) <= 300 * 1000
  <2>. HIDE DEF f
  <2>. QED
    BY <1>1
<1>4. k \in Int /\ Ceiling(enriched, malscore, h, c, k)
  BY <1>3 DEF Ceiling
<1>. HIDE DEF k
<1>5. UpTo(Risk(enriched, malscore, h, MitreOf, c, w), k)
  BY <1>1, <1>4, RiskAtMost
<1>. QED
  BY <1>2, <1>5 DEF k, UpTo

(* What the consensus dismisses has a risk below the critical 0.8: with no
   sighting, no sandbox score to speak of, or no interesting indicator, one
   of the weighted terms is missing. *)
LEMMA DismissedIsNotCritical ==
  Evidence /\ ~ Actionable(VerdictOn(VotesOf)) => RiskOf \in 0..790
<1>. SUFFICES ASSUME Evidence, ~ Actionable(VerdictOn(VotesOf)) PROVE RiskOf \in 0..790
  OBVIOUS
<1>. DEFINE h == Cardinality(hits)  w == Cardinality(users)  c == AssetCriticality(AffectedHosts)
            f == ThreatIntelFactor(enriched)  k == 790
<1>1. /\ Factors(enriched, malscore, MitreOf, c) /\ h \in Nat /\ w \in Nat
      /\ f \in 0..990 /\ malscore \in 0..1000 /\ c \in 300..900
  BY FactorsAre DEF FactorsOf, Factors
<1>2. RiskOf = Risk(enriched, malscore, h, MitreOf, c, w)
  BY DEF RiskOf
<1>3. h = 0 => c = 300
  <2>1. h = 0 => hits = {}
    BY FS_EmptySet DEF Evidence
  <2>2. hits = {} => AffectedHosts = {}
    BY DEF AffectedHosts
  <2>. QED
    BY <2>1, <2>2, CriticalityIs
<1>4. Interesting(enriched) = {} => f = 0
  BY ThreatIntelFactorIs DEF Evidence
<1>5. h = 0 \/ malscore <= 12 \/ f = 0
  <2>1. Graded(detections) /\ IsFiniteSet(MitreOf) /\ SoundIocs(enriched)
    BY FiredAreGraded, MitreOfFinite DEF Evidence
  <2>2. ~ Actionable(VerdictOn(CollectVoters(enriched, h, malscore, detections, MitreOf)))
    BY DEF VotesOf
  <2>3. h = 0 \/ malscore <= 12 \/ Interesting(enriched) = {}
    <3>1. h \in Nat /\ malscore \in 0..1000
      BY <1>1
    <3>. HIDE DEF h, w, c, f, k
    <3>. QED
      BY <2>1, <2>2, <3>1, Dismissed, ZenonT(60)
  <2>. QED
    BY <1>4, <2>3
<1>. HIDE DEF h, w, c
<1>6. 3 * (30 * f + 20 * malscore + 15000 + 10 * c + 5000) + 20 * (IF h = 0 THEN 0 ELSE 3000) <= 300 * 790
  <2>. HIDE DEF f
  <2>. QED
    BY <1>1, <1>3, <1>5
<1>7. k \in Int /\ Ceiling(enriched, malscore, h, c, k)
  BY <1>6 DEF Ceiling
<1>. HIDE DEF k
<1>8. UpTo(Risk(enriched, malscore, h, MitreOf, c, w), k)
  BY <1>1, <1>7, RiskAtMost
<1>. QED
  BY <1>2, <1>8 DEF k, UpTo

(* The two judgements of a package agree by the invariant alone. *)
LEMMA InvJudges == Inv => JudgementsAgree
<1>. SUFFICES ASSUME Inv PROVE JudgementsAgree
  OBVIOUS
<1>0. Evidence /\ (Finalized => package = ConcludedFrom(Decision(VotesOf)))
  BY DEF Inv, Conclusive, Finalized
<1>1. malscore \in 0..1000 /\ hunted \subseteq {Ioc(e) : e \in enriched}
      /\ hits \subseteq hunted \X Hosts
  BY <1>0 DEF Evidence
<1>2. ASSUME Finalized
      PROVE  /\ package.risk \in 0..1000 /\ package.confidence \in 0..1000
             /\ ~ Actionable(package.verdict) => package.severity # "critical"
  <2>1. /\ package.risk = RiskOf /\ package.severity = SeverityFor(RiskOf)
        /\ package.verdict = Decision(VotesOf).verdict
        /\ package.confidence = Decision(VotesOf).confidence
    BY <1>0, <1>2 DEF ConcludedFrom
  <2>2. Decision(VotesOf).verdict = VerdictOn(VotesOf)
    BY DEF Decision
  <2>3. Decision(VotesOf).confidence \in 0..1000
    <3>. DEFINE votes == VotesOf
    <3>1. Polled(votes)
      BY <1>0, VotesArePolled
    <3>. HIDE DEF votes
    <3>2. CASE Voters(votes) = {}
      BY <3>2 DEF Decision, votes
    <3>3. CASE Voters(votes) # {}
      <4>1. Decision(votes).confidence = Confidence(votes, VerdictOn(votes))
        BY <3>3 DEF Decision
      <4>2. VerdictOn(votes) \in Verdicts
        BY <3>1, VerdictOnIs DEF Tier, Verdicts
      <4>3. UpTo(Confidence(votes, VerdictOn(votes)), 1000)
        BY <3>1, <3>3, <4>2, ConfidenceBounds
      <4>. QED
        BY <4>1, <4>3 DEF UpTo, votes
    <3>. QED
      BY <3>2, <3>3
  <2>4. RiskOf \in 0..1000
    BY <1>0, RiskBounds
  <2>5. ~ Actionable(VerdictOn(VotesOf)) => SeverityFor(RiskOf) # "critical"
    <3>1. ~ Actionable(VerdictOn(VotesOf)) => RiskOf \in 0..790
      BY <1>0, DismissedIsNotCritical
    <3>. QED
      BY <3>1 DEF SeverityFor
  <2>. QED
    BY <2>1, <2>2, <2>3, <2>4, <2>5
<1>. QED
  BY <1>1, <1>2 DEF JudgementsAgree

(* The two judgements of a package never contradict each other, whatever the
   evidence: consensus (ConsensusEngine.decide) and risk (RiskEngine.score)
   weigh it in different ways, but no case that the one dismisses is critical
   to the other. *)
THEOREM JudgementsAlwaysAgree == AssessmentSpec => []JudgementsAgree
  BY EvidenceIsSound, InvJudges, PTL

(* A case without infrastructure or malware has no indicator that the
   response would block or hunt. *)
LEMMA InsiderPlanBlocksNothing == Inv => InsidersHaveNothingToBlock
<1>. SUFFICES ASSUME Inv, Finalized, package.attribution = "insider",
                     NEW action \in package.plan
              PROVE  action.kind # "block"
  BY DEF InsidersHaveNothingToBlock
<1>. DEFINE dna == Dna(enriched, MitreOf, users)
            verdict == Decision(VotesOf).verdict
<1>0. Evidence /\ package = ConcludedFrom(Decision(VotesOf))
  BY DEF Inv, Conclusive, Finalized
<1>1. package.attribution = Attribute(MitreOf, Cardinality(dna.infrastructure),
                               Cardinality(dna.malware), Cardinality(AffectedHosts)).type
  BY <1>0 DEF ConcludedFrom
<1>2. package.plan = Plan(verdict, enriched, AffectedHosts, users, email \/ CameAsEmail, "none")
  BY <1>0 DEF ConcludedFrom
<1>3. Cardinality(dna.infrastructure) = 0 /\ Cardinality(dna.malware) = 0
  <2>. HIDE DEF dna
  <2>. QED
    BY <1>1, InsiderHasNone
<1>4. /\ dna.infrastructure = ValuesOf(Interesting(enriched), Network)
      /\ dna.malware = ValuesOf(Interesting(enriched), Artifacts)
  BY DEF Dna
<1>5. IsFiniteSet(Interesting(enriched))
  <2>1. Interesting(enriched) \in SUBSET enriched
    BY DEF Interesting, WithVerdict
  <2>. QED
    BY <1>0, <2>1, FS_Subset DEF Evidence
<1>6. ValuesOf(Interesting(enriched), Network) = {} /\ ValuesOf(Interesting(enriched), Artifacts) = {}
  BY <1>3, <1>4, <1>5, ValuesFinite, FS_EmptySet
<1>7. Blocks(enriched) = {}
  <2>. DEFINE M == WithVerdict(enriched, {"malicious"})
  <2>1. M \subseteq Interesting(enriched) /\ Hashes \subseteq Artifacts
    BY DEF Interesting, WithVerdict, Artifacts
  <2>2. ValuesOf(M, Network) = {} /\ ValuesOf(M, Hashes) = {}
    <3>. HIDE DEF M
    <3>. QED
      BY <1>6, <2>1 DEF ValuesOf
  <2>. QED
    BY <2>2 DEF Blocks
<1>8. \A a \in Plan(verdict, enriched, AffectedHosts, users, email \/ CameAsEmail, "none") : a.kind # "block"
  BY <1>7 DEF Plan, Action
<1>. QED
  BY <1>2, <1>8

(* The response that is proposed for a case attributed to an insider
   (attribute, ResponseEngine) never contains a block of an indicator. *)
THEOREM InsidersNeverHaveBlocks == AssessmentSpec => []InsidersHaveNothingToBlock
  BY EvidenceIsSound, InsiderPlanBlocksNothing, PTL

(* A step never takes evidence back. *)
Accumulates ==
  /\ signals \subseteq signals' /\ enriched \subseteq enriched'
  /\ detections \subseteq detections' /\ users \subseteq users'
  /\ malscore <= malscore' /\ hits \subseteq hits'

(* None of the tools does. *)
LEMMA StepsAccumulate == Evidence /\ AssessmentNext => Accumulates
<1>. SUFFICES ASSUME Evidence, AssessmentNext PROVE Accumulates
  OBVIOUS
<1>0. malscore \in 0..1000
  BY DEF Evidence
<1>1. CASE RunDetections
  BY <1>0, <1>1 DEF RunDetections, Accumulates
<1>2. CASE FetchEmailContext
  BY <1>0, <1>2 DEF FetchEmailContext, Accumulates
<1>3. CASE EnrichIocs
  BY <1>0, <1>3 DEF EnrichIocs, Accumulates
<1>4. CASE DetonateAttachment
  <2>1. PICK score \in Malscores : malscore' = Malscore(score)
    BY <1>4 DEF DetonateAttachment
  <2>2. {malscore, score} \in SUBSET (0..1000) /\ {malscore, score} # {}
    BY <1>0, EvidenceAssumption
  <2>3. Greatest(Max({malscore, score}), {malscore, score})
    BY <2>2, GreatestOfMany, SMTT(30)
  <2>4. malscore <= malscore'
    BY <2>1, <2>3 DEF Greatest, Malscore
  <2>. QED
    BY <1>4, <2>4 DEF DetonateAttachment, Accumulates
<1>5. CASE HuntEdr
  BY <1>0, <1>5 DEF HuntEdr, Accumulates
<1>6. CASE Finalize
  BY <1>0, <1>6 DEF Finalize, evidence, Accumulates
<1>. QED
  BY <1>1, <1>2, <1>3, <1>4, <1>5, <1>6 DEF AssessmentNext

(* So techniques accumulate too: a later one may take the place of one of the
   same id, by another tactic, but of the same base. *)
LEMMA MitreGrows ==
  Evidence /\ Evidence' /\ Accumulates => Counterparts(MitreOf, MitreOf') # {}
<1>. SUFFICES ASSUME Evidence, Evidence', Accumulates PROVE Counterparts(MitreOf, MitreOf') # {}
  OBVIOUS
<1>1. HasMaliciousUrl => HasMaliciousUrl'
  BY DEF Accumulates, HasMaliciousUrl
<1>2. TechniquesOf(detections) \subseteq TechniquesOf(detections')
  BY DEF Accumulates, TechniquesOf
<1>3. MapTechniques(signals, HasMaliciousUrl) \subseteq MapTechniques(signals', HasMaliciousUrl')
  BY <1>1 DEF Accumulates, MapTechniques
<1>. DEFINE few == Mitre(signals, HasMaliciousUrl, detections)
            many == Mitre(signals', HasMaliciousUrl', detections')
<1>4. /\ few \subseteq Nameable
      /\ IdsOf(few) = IdsOf(MapTechniques(signals, HasMaliciousUrl)) \cup IdsOf(TechniquesOf(detections))
      /\ \A t, u \in few : t.id = u.id => t = u
  BY MitreIs, Zenon DEF Evidence
<1>5. /\ many \subseteq Nameable
      /\ IdsOf(many) = IdsOf(MapTechniques(signals', HasMaliciousUrl'))
                         \cup IdsOf(TechniquesOf(detections'))
  <2>1. FiredRules(detections')
    BY DEF Evidence
  <2>. QED
    BY <2>1, MitreIs, Zenon
<1>6. IdsOf(few) \subseteq IdsOf(many)
  <2>. HIDE DEF few, many
  <2>. QED
    BY <1>2, <1>3, <1>4, <1>5 DEF IdsOf
<1>7. MitreOf = few /\ MitreOf' = many
  BY DEF MitreOf
<1>. DEFINE f == [t \in few |-> CHOOSE u \in many : u.id = t.id]
<1>. HIDE DEF few, many
<1>8. \A t \in few : f[t] \in many /\ f[t].id = t.id
  <2>. SUFFICES ASSUME NEW t \in few PROVE f[t] \in many /\ f[t].id = t.id
    OBVIOUS
  <2>1. \E u \in many : u.id = t.id
    BY <1>6 DEF IdsOf
  <2>. QED
    BY <2>1
<1>9. f \in Injection(few, many)
  <2>1. f \in [few -> many]
    BY <1>8
  <2>2. \A t, u \in few : f[t] = f[u] => t = u
    BY <1>4, <1>8
  <2>. HIDE DEF f
  <2>. QED
    BY <2>1, <2>2 DEF Injection, IsInjective
<1>10. \A t \in few : f[t].base = t.base
  BY <1>4, <1>5, <1>8, EvidenceAssumption DEF Nameable
<1>. HIDE DEF f
<1>. QED
  BY <1>7, <1>9, <1>10 DEF Counterparts

(* The same facts of the state that a step leads to. *)
LEMMA NextFacts ==
  Evidence' => /\ IsFiniteSet(MitreOf') /\ FactorsOf'
               /\ Cardinality(hits') \in Nat /\ Cardinality(users') \in Nat
               /\ RiskOf' \in 0..1000 /\ Polled(VotesOf')
<1>1. Evidence => /\ IsFiniteSet(MitreOf) /\ FactorsOf
                  /\ Cardinality(hits) \in Nat /\ Cardinality(users) \in Nat
                  /\ RiskOf \in 0..1000 /\ Polled(VotesOf)
  BY MitreOfFinite, FactorsAre, RiskBounds, VotesArePolled
<1>2. (Evidence => /\ IsFiniteSet(MitreOf) /\ FactorsOf
                   /\ Cardinality(hits) \in Nat /\ Cardinality(users) \in Nat
                   /\ RiskOf \in 0..1000 /\ Polled(VotesOf))'
  BY <1>1, PTL
<1>. QED
  BY <1>2

(* More evidence is no less risk. *)
LEMMA EvidenceGrowsRisk == Evidence /\ Evidence' /\ Accumulates => RiskOf' >= RiskOf
<1>. SUFFICES ASSUME Evidence, Evidence', Accumulates PROVE RiskOf' >= RiskOf
  OBVIOUS
<1>. DEFINE m1 == MitreOf  m2 == MitreOf'
            c1 == AssetCriticality(AffectedHosts)  c2 == AssetCriticality(AffectedHosts')
            h1 == Cardinality(hits)  h2 == Cardinality(hits')
            w1 == Cardinality(users)  w2 == Cardinality(users')
<1>1. /\ Factors(enriched, malscore, m1, c1) /\ h1 \in Nat /\ w1 \in Nat
  BY FactorsAre DEF FactorsOf
<1>2. /\ Factors(enriched', malscore', m2, c2) /\ h2 \in Nat /\ w2 \in Nat
  <2>1. FactorsOf' /\ h2 \in Nat /\ w2 \in Nat
    BY NextFacts
  <2>. QED
    BY <2>1 DEF FactorsOf
<1>3. ThreatIntelFactor(enriched) <= ThreatIntelFactor(enriched')
  BY ThreatIntelFactorGrows DEF Evidence, Accumulates
<1>4. MitreFactor(m1) <= MitreFactor(m2)
  <2>1. Counterparts(m1, m2) # {}
    BY MitreGrows
  <2>2. IsFiniteSet(m2)
    BY NextFacts
  <2>. HIDE DEF m1, m2
  <2>. QED
    BY <2>1, <2>2, MitreFactorGrows
<1>5. c1 <= c2
  <2>1. AffectedHosts \subseteq AffectedHosts'
    BY DEF AffectedHosts, Accumulates
  <2>. QED
    BY <2>1, CriticalityGrows
<1>6. h1 <= h2 /\ w1 <= w2
  <2>1. hits \in SUBSET hits' /\ users \in SUBSET users' /\ IsFiniteSet(hits') /\ IsFiniteSet(users')
    BY DEF Accumulates, Evidence
  <2>. QED
    BY <2>1, FS_Subset
<1>7. malscore <= malscore'
  BY DEF Accumulates
<1>8. /\ RiskOf = Risk(enriched, malscore, h1, m1, c1, w1)
      /\ RiskOf' = Risk(enriched', malscore', h2, m2, c2, w2)
  BY DEF RiskOf
<1>9. RiskOf \in Int /\ RiskOf' \in Int
  <2>1. RiskOf \in 0..1000 
    BY RiskBounds
  <2>2. RiskOf' \in 0..1000
    BY NextFacts
  <2>. QED
    BY <2>1, <2>2
<1>. HIDE DEF m1, m2, c1, c2, h1, h2, w1, w2
<1>10. Risk(enriched, malscore, h1, m1, c1, w1) <= Risk(enriched', malscore', h2, m2, c2, w2)
  BY <1>1, <1>2, <1>3, <1>4, <1>5, <1>6, <1>7, RiskGrows
<1>. QED
  BY <1>8, <1>9, <1>10

(* While an investigation gathers evidence its risk never falls: no tool that
   runs later, in whichever order the planner chooses, can talk it down. *)
THEOREM RiskOnlyRises == AssessmentSpec => RiskNeverFalls
<1>1. Inv /\ Inv' /\ [AssessmentNext]_assessmentVars => [RiskOf' >= RiskOf]_assessmentVars
  <2>. SUFFICES ASSUME Inv, Inv', AssessmentNext PROVE RiskOf' >= RiskOf
    OBVIOUS
  <2>. QED
    BY StepsAccumulate, EvidenceGrowsRisk DEF Inv
<1>. QED
  BY EvidenceIsSound, <1>1, PTL DEF AssessmentSpec, RiskNeverFalls

(* A vote of malice 0.9 that joins a poll never makes its verdict milder: the
   average rises, or was above 0.9, which is malicious. *)
LEMMA Outvoted ==
  ASSUME NEW before, NEW after, Polled(before), Polled(after),
         before.edr = Abstains, after.edr = Vote("malicious", 900),
         after.threat_intel = before.threat_intel, after.sandbox = before.sandbox,
         after.detections = before.detections, after.mitre = before.mitre
  PROVE  Level[VerdictOn(after)] >= Level[VerdictOn(before)]
<1>. DEFINE W == WeightOf(Voters(before))  M == MaliceOf(before)
            V == WeightOf(Voters(after))  N == MaliceOf(after)
<1>1. V = W + 30 /\ N = M + 27000
  <2>1. Abstains.verdict = "none" /\ Abstains.malice = 0
    BY DEF Abstains, Vote
  <2>2. Vote("malicious", 900).verdict = "malicious" /\ Vote("malicious", 900).malice = 900
    BY DEF Vote
  <2>. DEFINE w == (IF before.threat_intel.verdict = "none" THEN 0 ELSE 25)
              + (IF before.sandbox.verdict = "none" THEN 0 ELSE 20)
              + (IF before.detections.verdict = "none" THEN 0 ELSE 15)
              + (IF before.mitre.verdict = "none" THEN 0 ELSE 10)
  <2>3. W = w /\ V = 30 + w
    BY <2>1, <2>2, WeightsAre
  <2>4. \A n \in VoterNames : before[n].malice \in 0..1000
    BY DEF Polled, IsVote
  <2>. DEFINE a == before.threat_intel.malice  b == before.sandbox.malice
              c == before.detections.malice  d == before.mitre.malice
  <2>5. a \in 0..1000 /\ b \in 0..1000 /\ c \in 0..1000 /\ d \in 0..1000
    <3>1. \A n \in {"threat_intel", "sandbox", "detections", "mitre"} : n \in VoterNames
      BY DEF VoterNames
    <3>2. a \in 0..1000
      BY <2>4, <3>1
    <3>3. b \in 0..1000
      BY <2>4, <3>1
    <3>4. c \in 0..1000
      BY <2>4, <3>1
    <3>5. d \in 0..1000
      BY <2>4, <3>1
    <3>. HIDE DEF a, b, c, d
    <3>. QED
      BY <3>2, <3>3, <3>4, <3>5
  <2>6. M = 30 * 0 + 25 * a + 20 * b + 15 * c + 10 * d
    <3>1. M = 30 * before.edr.malice + 25 * a + 20 * b + 15 * c + 10 * d
      BY WeightsAre
    <3>2. before.edr.malice = 0
      BY <2>1
    <3>. QED
      BY <3>1, <3>2
  <2>7. N = 30 * 900 + 25 * a + 20 * b + 15 * c + 10 * d
    <3>1. N = 30 * after.edr.malice + 25 * after.threat_intel.malice + 20 * after.sandbox.malice
              + 15 * after.detections.malice + 10 * after.mitre.malice
      BY WeightsAre
    <3>2. after.edr.malice = 900
      BY <2>2
    <3>. QED
      BY <3>1, <3>2
  <2>8. w \in Nat
    OBVIOUS
  <2>. HIDE DEF W, V, M, N, w, a, b, c, d
  <2>10. V = W + 30
    BY <2>3, <2>8
  <2>11. N = M + 27000
    BY <2>5, <2>6, <2>7
  <2>. QED
    BY <2>10, <2>11
<1>2. Scales(M, W) /\ (Voters(before) = {} <=> W = 0)
  BY ScalesAre
<1>3. Scales(N, V) /\ (Voters(after) = {} <=> V = 0)
  BY ScalesAre
<1>4. /\ VerdictOn(before) = IF Voters(before) = {} THEN "unknown" ELSE Tier(M, W)
      /\ VerdictOn(after) = IF Voters(after) = {} THEN "unknown" ELSE Tier(N, V)
  BY VerdictOnIs
<1>5. VerdictOn(after) = Tier(N, V)
  <2>. HIDE DEF W, V, M, N
  <2>. QED
    BY <1>1, <1>2, <1>3, <1>4 DEF Scales
<1>. HIDE DEF W, V, M, N
<1>6. (M >= 700 * W => N >= 700 * V) /\ (M >= 400 * W => N >= 400 * V)
  BY <1>1, <1>2 DEF Scales
<1>7. Level[Tier(N, V)] >= 1
  BY DEF Tier, Level
<1>8. Level[Tier(N, V)] >= Level[Tier(M, W)]
  BY <1>6 DEF Tier, Level
<1>9. Level["unknown"] = 0
  BY DEF Level
<1>10. Level[Tier(N, V)] >= 0
  BY DEF Tier, Level
<1>. QED
  BY <1>4, <1>5, <1>8, <1>9, <1>10

(* The sightings of a hunt are such a vote. *)
LEMMA HuntingNeverExonerates ==
  Evidence /\ Evidence' /\ HuntEdr => Level[VerdictOn(VotesOf')] >= Level[VerdictOn(VotesOf)]
<1>. SUFFICES ASSUME Evidence, Evidence', HuntEdr
              PROVE  Level[VerdictOn(VotesOf')] >= Level[VerdictOn(VotesOf)]
  OBVIOUS
<1>. DEFINE h == Cardinality(hits)  g == Cardinality(hits')
            before == VotesOf  after == VotesOf'
<1>1. UNCHANGED <<signals, enriched, detections, malscore>> /\ hits \subseteq hits'
  BY DEF HuntEdr
<1>2. MitreOf' = MitreOf
  BY <1>1 DEF MitreOf, HasMaliciousUrl
<1>3. h \in Nat /\ g \in Nat /\ h <= g
  BY <1>1, FS_Subset, FS_CardinalityType DEF Evidence
<1>4. Polled(before) /\ Polled(after)
  BY VotesArePolled, NextFacts
<1>5. /\ before.edr = EdrVote(h) /\ after.edr = EdrVote(g)
      /\ after.threat_intel = before.threat_intel /\ after.sandbox = before.sandbox
      /\ after.detections = before.detections /\ after.mitre = before.mitre
  BY <1>1, <1>2 DEF VotesOf, CollectVoters
<1>6. /\ before = CollectVoters(enriched, h, malscore, detections, MitreOf)
      /\ after = CollectVoters(enriched, g, malscore, detections, MitreOf)
  BY <1>1, <1>2 DEF VotesOf
<1>. HIDE DEF h, g, before, after
<1>7. CASE h = 0 /\ g # 0
  <2>1. before.edr = Abstains /\ after.edr = Vote("malicious", 900)
    BY <1>3, <1>5, <1>7, EdrVotes
  <2>2. Level[VerdictOn(after)] >= Level[VerdictOn(before)]
    BY <1>4, <1>5, <2>1, Outvoted
  <2>. QED
    BY <2>2 DEF before, after
<1>8. CASE h # 0 \/ g = 0
  <2>1. EdrVote(h) = EdrVote(g)
    BY <1>3, <1>8, EdrVotes
  <2>2. after = before
    BY <1>6, <2>1 DEF CollectVoters
  <2>3. Level[VerdictOn(before)] \in Int
    <3>1. VerdictOn(before) \in Verdicts
      BY <1>4, VerdictOnIs DEF Tier, Verdicts
    <3>. QED
      BY <3>1 DEF Verdicts, Level
  <2>4. Level[VerdictOn(after)] >= Level[VerdictOn(before)]
    BY <2>2, <2>3
  <2>. QED
    BY <2>4 DEF before, after
<1>. QED
  BY <1>7, <1>8

(* Finding an indicator on the tenant's hosts (hunt_edr) never makes the
   verdict of the consensus milder, though the new voter shifts every weight. *)
THEOREM SightingsOnlyIncriminate == AssessmentSpec => SightingsNeverExonerate
<1>. DEFINE P == hits' # hits =>
                   \A before \in {VotesOf}, after \in {VotesOf'} :
                     Level[VerdictOn(after)] >= Level[VerdictOn(before)]
<1>1. Inv /\ Inv' /\ [AssessmentNext]_assessmentVars => [P]_assessmentVars
  <2>. SUFFICES ASSUME Inv, Inv', AssessmentNext, hits' # hits
                PROVE  Level[VerdictOn(VotesOf')] >= Level[VerdictOn(VotesOf)]
    OBVIOUS
  <2>1. HuntEdr
    BY DEF AssessmentNext, RunDetections, FetchEmailContext, EnrichIocs, DetonateAttachment, Finalize, evidence
  <2>. QED
    BY <2>1, HuntingNeverExonerates DEF Inv
<1>. QED
  BY EvidenceIsSound, <1>1, PTL DEF AssessmentSpec, SightingsNeverExonerate

(***************************************************************************)
(* The rule store.                                                         *)
(***************************************************************************)
ruleStoreVars == <<durable, ruleVars>>

-----------------------------------------------------------------------------
(* The upserts that are about to insert a rule. *)
Inserting == {a \in Authors : upserts[a].kind = "insert"}

(* What an author of rules may be at. *)
Upserts == {NoUpsert} \cup {Pending(kind, id) : kind \in {"insert", "update"}, id \in RuleIds}

(* The types of the rule store. *)
RulesTypeOK ==
  /\ durable \in BOOLEAN
  /\ IsFiniteSet(rules)
  /\ upserts \in [Authors -> Upserts]

(* Only the Postgres store has open transactions. *)
MemoryKeepsQuota == ~ durable => Inserting = {} /\ Cardinality(rules) <= MaxRules
(* Over Postgres the rules and the inserts on their way have a common budget. *)
QuotaBudget ==
  durable => Cardinality(rules) + Cardinality(Inserting)
               <= MaxRules - 1 + Cardinality(Authors)

(* The inductive invariant of the rule store. *)
RulesInv == RulesTypeOK /\ MemoryKeepsQuota /\ QuotaBudget

(* Finitely many authors write. *)
LEMMA InsertingFinite ==
  /\ IsFiniteSet(Inserting)
  /\ Cardinality(Inserting) \in Nat /\ Cardinality(Authors) \in Nat
<1>1. Inserting \in SUBSET Authors
  BY DEF Inserting
<1>. QED
  BY <1>1, RulesAssumption, FS_Subset, FS_CardinalityType

(* In memory the count and the write are one step. *)
LEMMA UpsertInMemoryKeeps ==
  ASSUME RulesInv, NEW id \in RuleIds, UpsertInMemory(id), UNCHANGED durable
  PROVE  RulesInv'
<1>1. /\ ~ durable /\ ~ durable' /\ rules' = rules \cup {id} /\ upserts' = upserts
      /\ IsFiniteSet(rules)
  BY DEF UpsertInMemory, RulesInv, RulesTypeOK
<1>2. id \in rules \/ Cardinality(rules) < MaxRules
  BY DEF UpsertInMemory, Accepted, WithinQuota
<1>3. /\ IsFiniteSet(rules')
      /\ Cardinality(rules') = IF id \in rules THEN Cardinality(rules)
                               ELSE Cardinality(rules) + 1
  BY <1>1, FS_AddElement
<1>4. Cardinality(rules) \in Nat /\ Cardinality(rules) <= MaxRules
  BY <1>1, FS_CardinalityType DEF RulesInv, MemoryKeepsQuota
<1>5. Cardinality(rules') <= MaxRules
  BY <1>2, <1>3, <1>4, RulesAssumption
<1>6. RulesTypeOK'
  BY <1>1, <1>3 DEF RulesInv, RulesTypeOK
<1>. QED
  BY <1>1, <1>5, <1>6 DEF RulesInv, MemoryKeepsQuota, QuotaBudget, Inserting

(* Of those who pass the check together, the last to begin finds room for all
   but itself among the authors. *)
LEMMA BeginUpsertKeeps ==
  ASSUME RulesInv, NEW a \in Authors, NEW id \in RuleIds, BeginUpsert(a, id),
         UNCHANGED durable
  PROVE  RulesInv'
<1>1. /\ durable /\ durable' = durable /\ rules' = rules
      /\ upserts[a] = NoUpsert /\ upserts \in [Authors -> Upserts]
      /\ IsFiniteSet(rules)
  BY DEF BeginUpsert, RulesInv, RulesTypeOK
<1>. DEFINE new == Pending(IF id \in rules THEN "update" ELSE "insert", id)
<1>2. new \in Upserts /\ (new.kind = "insert" <=> id \notin rules)
  BY DEF Upserts, Pending
<1>3. upserts' = [upserts EXCEPT ![a] = new]
  BY DEF BeginUpsert
<1>. HIDE DEF new
<1>4. RulesTypeOK'
  BY <1>1, <1>2, <1>3 DEF RulesInv, RulesTypeOK
<1>5. a \notin Inserting
  BY <1>1 DEF Inserting, NoUpsert
<1>6. CASE id \in rules
  <2>1. Inserting' = Inserting
    BY <1>1, <1>2, <1>3, <1>5, <1>6 DEF Inserting
  <2>. QED
    BY <1>1, <1>4, <2>1 DEF RulesInv, MemoryKeepsQuota, QuotaBudget
<1>7. CASE id \notin rules
  <2>1. Inserting' = Inserting \cup {a}
    BY <1>1, <1>2, <1>3, <1>7 DEF Inserting
  <2>2. Cardinality(Inserting') = Cardinality(Inserting) + 1
    BY <1>5, <2>1, InsertingFinite, FS_AddElement
  <2>3. Cardinality(Inserting) + 1 <= Cardinality(Authors)
    <3>1. Inserting \in SUBSET (Authors \ {a})
      BY <1>5 DEF Inserting
    <3>2. /\ IsFiniteSet(Authors \ {a})
          /\ Cardinality(Authors \ {a}) = Cardinality(Authors) - 1
      BY RulesAssumption, FS_RemoveElement
    <3>3. Cardinality(Inserting) <= Cardinality(Authors \ {a})
      BY <3>1, <3>2, FS_Subset
    <3>. QED
      BY <3>2, <3>3, InsertingFinite
  <2>4. Cardinality(rules) \in Nat /\ Cardinality(rules) < MaxRules
    BY <1>1, <1>7, FS_CardinalityType DEF BeginUpsert, Accepted, WithinQuota
  <2>5. Cardinality(rules) + Cardinality(Inserting')
          <= MaxRules - 1 + Cardinality(Authors)
    BY <2>2, <2>3, <2>4, InsertingFinite, RulesAssumption
  <2>. QED
    BY <1>1, <1>4, <2>5 DEF RulesInv, MemoryKeepsQuota, QuotaBudget
<1>. QED
  BY <1>6, <1>7

(* A commit turns an insert on its way into a rule. *)
LEMMA CommitUpsertKeeps ==
  ASSUME RulesInv, NEW a \in Authors, CommitUpsert(a), UNCHANGED durable
  PROVE  RulesInv'
<1>1. /\ durable' = durable /\ upserts \in [Authors -> Upserts]
      /\ upserts' = [upserts EXCEPT ![a] = NoUpsert]
      /\ IsFiniteSet(rules) /\ NoUpsert \in Upserts
  BY DEF CommitUpsert, RulesInv, RulesTypeOK, Upserts
<1>2. Inserting' = Inserting \ {a}
  BY <1>1 DEF Inserting, NoUpsert
<1>3. CASE upserts[a].kind = "insert"
  <2>. DEFINE id == upserts[a].rule
  <2>1. rules' = rules \cup {id} /\ a \in Inserting
    BY <1>3 DEF CommitUpsert, Inserting
  <2>2. /\ IsFiniteSet(rules')
        /\ Cardinality(rules') = IF id \in rules THEN Cardinality(rules)
                                 ELSE Cardinality(rules) + 1
    BY <1>1, <2>1, FS_AddElement
  <2>. HIDE DEF id
  <2>3. Cardinality(Inserting') = Cardinality(Inserting) - 1
    BY <1>2, <2>1, InsertingFinite, FS_RemoveElement
  <2>4. durable
    BY <2>1 DEF RulesInv, RulesTypeOK, MemoryKeepsQuota
  <2>5. Cardinality(rules) \in Nat
    BY <1>1, FS_CardinalityType
  <2>6. Cardinality(rules) + Cardinality(Inserting)
          <= MaxRules - 1 + Cardinality(Authors)
    BY <2>4 DEF RulesInv, QuotaBudget
  <2>7. Cardinality(rules') + Cardinality(Inserting')
          <= MaxRules - 1 + Cardinality(Authors)
    BY <2>2, <2>3, <2>5, <2>6, InsertingFinite, RulesAssumption
  <2>8. RulesTypeOK'
    BY <1>1, <2>2 DEF RulesInv, RulesTypeOK
  <2>. QED
    BY <1>1, <2>4, <2>7, <2>8 DEF RulesInv, MemoryKeepsQuota, QuotaBudget
<1>4. CASE upserts[a].kind # "insert"
  <2>1. rules' = rules /\ Inserting' = Inserting
    BY <1>2, <1>4 DEF CommitUpsert, Inserting
  <2>2. RulesTypeOK'
    BY <1>1, <2>1 DEF RulesInv, RulesTypeOK
  <2>. QED
    BY <1>1, <2>1, <2>2 DEF RulesInv, MemoryKeepsQuota, QuotaBudget
<1>. QED
  BY <1>3, <1>4

(* A deletion makes room. *)
LEMMA DeleteRuleKeeps ==
  ASSUME RulesInv, NEW id \in RuleIds, DeleteRule(id), UNCHANGED durable
  PROVE  RulesInv'
<1>1. /\ durable' = durable /\ rules' = rules \ {id} /\ upserts' = upserts
      /\ IsFiniteSet(rules) /\ id \in rules
  BY DEF DeleteRule, RulesInv, RulesTypeOK
<1>2. IsFiniteSet(rules') /\ Cardinality(rules') = Cardinality(rules) - 1
  BY <1>1, FS_RemoveElement
<1>3. Cardinality(rules) \in Nat
  BY <1>1, FS_CardinalityType
<1>4. Inserting' = Inserting
  BY <1>1 DEF Inserting
<1>5. RulesTypeOK'
  BY <1>1, <1>2 DEF RulesInv, RulesTypeOK
<1>6. MemoryKeepsQuota'
  BY <1>1, <1>2, <1>3, <1>4, RulesAssumption DEF RulesInv, MemoryKeepsQuota
<1>7. QuotaBudget'
  BY <1>1, <1>2, <1>3, <1>4, RulesAssumption, InsertingFinite DEF RulesInv, QuotaBudget
<1>. QED
  BY <1>5, <1>6, <1>7 DEF RulesInv

(* The store starts empty. *)
LEMMA RulesInitInv ==
  ASSUME RulesInit
  PROVE  RulesInv
<1>1. rules = {} /\ Inserting = {} /\ RulesTypeOK
  BY FS_EmptySet DEF RulesInit, Inserting, NoUpsert, RulesTypeOK, Upserts
<1>. QED
  BY <1>1, FS_EmptySet, InsertingFinite, RulesAssumption
  DEF RulesInv, MemoryKeepsQuota, QuotaBudget

(* Every operation of the rule store keeps the invariant. *)
LEMMA RulesStepKeepsInv ==
  ASSUME RulesInv, [RulesNext /\ UNCHANGED durable]_ruleStoreVars
  PROVE  RulesInv'
<1>1. ASSUME NEW id \in RuleIds, UpsertInMemory(id), UNCHANGED durable PROVE RulesInv'
  BY <1>1, UpsertInMemoryKeeps
<1>2. ASSUME NEW id \in RuleIds, DeleteRule(id), UNCHANGED durable PROVE RulesInv'
  BY <1>2, DeleteRuleKeeps
<1>3. ASSUME NEW a \in Authors, NEW id \in RuleIds, BeginUpsert(a, id), UNCHANGED durable
      PROVE  RulesInv'
  BY <1>3, BeginUpsertKeeps
<1>4. ASSUME NEW a \in Authors, CommitUpsert(a), UNCHANGED durable PROVE RulesInv'
  BY <1>4, CommitUpsertKeeps
<1>5. CASE UNCHANGED ruleStoreVars
  BY <1>5 DEF ruleStoreVars, ruleVars, RulesInv, RulesTypeOK, MemoryKeepsQuota,
              QuotaBudget, Inserting
<1>. QED
  BY <1>1, <1>2, <1>3, <1>4, <1>5 DEF RulesNext

(* A tenant's rules never exceed _MAX_RULES_PER_TENANT in the process-local
   store, and over Postgres by at most one rule for each other replica whose
   transaction overlaps (engines/detection/store.py, upsert). *)
THEOREM QuotaHolds == RulesSpec => []QuotaNearlyHolds
<1>1. RulesInit => RulesInv
  BY RulesInitInv
<1>2. RulesInv /\ [RulesNext /\ UNCHANGED durable]_<<durable, ruleVars>> => RulesInv'
  BY RulesStepKeepsInv DEF ruleStoreVars
<1>3. ASSUME RulesInv PROVE QuotaNearlyHolds
  <2>1. Cardinality(rules) \in Nat
    BY <1>3, FS_CardinalityType DEF RulesInv, RulesTypeOK
  <2>2. CASE durable
    <3>1. Cardinality(rules) + Cardinality(Inserting)
            <= MaxRules - 1 + Cardinality(Authors)
      BY <1>3, <2>2 DEF RulesInv, QuotaBudget
    <3>2. Cardinality(rules) <= MaxRules + (Cardinality(Authors) - 1)
      BY <2>1, <3>1, InsertingFinite, RulesAssumption
    <3>. QED
      BY <2>2, <3>2 DEF QuotaNearlyHolds
  <2>3. CASE ~ durable
    BY <1>3, <2>3, RulesAssumption, <2>1 DEF RulesInv, MemoryKeepsQuota, QuotaNearlyHolds
  <2>. QED
    BY <2>2, <2>3
<1>. QED
  BY <1>1, <1>2, <1>3, PTL DEF RulesSpec

(* The rule store is one component of the stores: no step of a finalization or
   a dossier touches a rule, and no rule step what they keep. *)
LEMMA StoresKeepRules == Spec => RulesSpec
<1>1. Init => RulesInit
  BY DEF Init
<1>2. [Next]_vars => [RulesNext /\ UNCHANGED durable]_<<durable, ruleVars>>
  BY DEF Next, vars
<1>. QED
  BY <1>1, <1>2, PTL DEF Spec, RulesSpec

(* The number of detection rules stays within the quota and the writers in
   flight (rule store), whatever finalizations and dossier requests do beside
   them. *)
THEOREM StoresKeepQuota == Spec => []QuotaNearlyHolds
  BY StoresKeepRules, QuotaHolds, PTL

-----------------------------------------------------------------------------
(* The level of the verdict that a peak is given. *)
LevelAt(n) == Level[PeakVerdict(n)]

(* Verdicts are ordered, and a greater score has no milder verdict. *)
LEMMA LevelsAre ==
  /\ \A v \in Verdicts : Level[v] \in Int /\ Level[v] >= Level["unknown"]
  /\ \A x \in Int : LevelAt(x) \in Int
  /\ \A x, y \in Int : x <= y => LevelAt(x) <= LevelAt(y)
<1>1. \A v \in Verdicts : Level[v] \in Int /\ Level[v] >= Level["unknown"]
  BY DEF Verdicts, Level
<1>2. ASSUME NEW x \in Int PROVE LevelAt(x) \in Int
  BY DEF LevelAt, PeakVerdict, Level
<1>3. ASSUME NEW x \in Int, NEW y \in Int, x <= y
      PROVE  LevelAt(x) <= LevelAt(y)
  BY <1>3 DEF LevelAt, PeakVerdict, Level
<1>. QED
  BY <1>1, <1>2, <1>3

(* Judgements that the fusion can weigh. *)
Weighable(f) == \A c \in DOMAIN f : f[c].verdict \in Verdicts /\ f[c].score \in 0..1000

(* The scores among which the fusion looks for the greatest. *)
ScoresIn(f) == {f[c].score : c \in Rated(f)}

(* It finds it. *)
LEMMA PeakIs ==
  ASSUME NEW f, Weighable(f), Rated(f) # {}
  PROVE  Greatest(PeakOf(f), ScoresIn(f)) /\ PeakOf(f) \in 0..1000
<1>1. ScoresIn(f) \in SUBSET (0..1000) /\ ScoresIn(f) # {}
  BY DEF Weighable, ScoresIn, Rated
<1>2. Greatest(Max(ScoresIn(f)), ScoresIn(f))
  BY <1>1, GreatestOfMany
<1>3. PeakOf(f) = Max(ScoresIn(f))
  BY DEF PeakOf, ScoresIn
<1>. QED
  BY <1>1, <1>2, <1>3 DEF Greatest

(* The fusion is monotone: further judgements never make it milder. *)
LEMMA FusionGrows ==
  ASSUME NEW f, NEW g, Weighable(f), Weighable(g), DOMAIN f \subseteq DOMAIN g,
         \A c \in DOMAIN f : g[c] = f[c]
  PROVE  Level[Fused(g).verdict] >= Level[Fused(f).verdict]
<1>1. Rated(f) \subseteq Rated(g) /\ ScoresIn(f) \subseteq ScoresIn(g)
  BY DEF Rated, ScoresIn
<1>2. ASSUME NEW h PROVE Fused(h).verdict = IF Rated(h) = {} THEN "unknown" ELSE PeakVerdict(PeakOf(h))
  BY DEF Fused
<1>3. \A n \in Int : PeakVerdict(n) \in Verdicts
  BY DEF PeakVerdict, Verdicts
<1>4. CASE Rated(f) = {}
  <2>1. Fused(f).verdict = "unknown"
    BY <1>2, <1>4
  <2>2. Fused(g).verdict \in Verdicts
    BY <1>2, PeakIs, <1>3 DEF Verdicts
  <2>. QED
    BY <2>1, <2>2, LevelsAre
<1>5. CASE Rated(f) # {}
  <2>1. Rated(g) # {}
    BY <1>1, <1>5
  <2>2. /\ PeakOf(f) \in ScoresIn(f) /\ PeakOf(f) \in 0..1000
        /\ PeakOf(g) \in 0..1000 /\ \A x \in ScoresIn(g) : x <= PeakOf(g)
    BY <1>5, <2>1, PeakIs DEF Greatest
  <2>3. PeakOf(f) <= PeakOf(g)
    BY <1>1, <2>2
  <2>4. PeakOf(f) \in Int /\ PeakOf(g) \in Int
    <3>1. 0..1000 \subseteq Int
      OBVIOUS
    <3>. QED
      BY <2>2, <3>1, ZenonT(60)
  <2>5. /\ LevelAt(PeakOf(f)) \in Int /\ LevelAt(PeakOf(g)) \in Int
        /\ LevelAt(PeakOf(f)) <= LevelAt(PeakOf(g))
    BY <2>3, <2>4, LevelsAre
  <2>6. /\ Level[Fused(f).verdict] = LevelAt(PeakOf(f))
        /\ Level[Fused(g).verdict] = LevelAt(PeakOf(g))
    BY <1>2, <1>5, <2>1 DEF LevelAt
  <2>. QED
    BY <2>5, <2>6
<1>. QED
  BY <1>4, <1>5

(* Joined judgements: those of the first function count. *)
LEMMA JoinedIs ==
  ASSUME NEW f, NEW g, Weighable(f), Weighable(g)
  PROVE  /\ Weighable(Joined(f, g)) /\ DOMAIN f \subseteq DOMAIN Joined(f, g)
         /\ \A c \in DOMAIN f : Joined(f, g)[c] = f[c]
<1>. DEFINE h == Joined(f, g)
<1>1. /\ DOMAIN h = DOMAIN f \cup DOMAIN g
      /\ \A c \in DOMAIN f \cup DOMAIN g : h[c] = IF c \in DOMAIN f THEN f[c] ELSE g[c]
  BY DEF Joined
<1>. HIDE DEF h
<1>2. Weighable(h)
  BY <1>1 DEF Weighable
<1>. QED
  BY <1>1, <1>2 DEF h

(* So the verdict of a dossier, which is fused from the aggregator's
   judgements, ThreatFox's and its own feeds', is no milder than that of the
   aggregator alone. *)
LEMMA DossierIsNoMilder ==
  ASSUME NEW f, NEW fox, NEW extra, Weighable(f), Weighable(fox), Weighable(extra)
  PROVE  Level[DossierVerdict(f, fox, extra).verdict] >= Level[Fused(f).verdict]
<1>. DEFINE g == Joined(Joined(f, fox), extra)
<1>1. Weighable(Joined(f, fox))
  BY JoinedIs
<1>2. Weighable(g)
  BY <1>1, JoinedIs
<1>3. DOMAIN f \subseteq DOMAIN g /\ \A c \in DOMAIN f : g[c] = f[c]
  BY DEF Joined
<1>4. DossierVerdict(f, fox, extra) = Fused(g)
  BY DEF DossierVerdict
<1>. HIDE DEF g
<1>. QED
  BY <1>2, <1>3, <1>4, FusionGrows

(* What the aggregator gathers, ThreatFox makes of a record, and the feeds of
   the dossier give. *)
LEMMA GatheredWeighable ==
  ASSUME NEW type, NEW f \in Gathered(Wiring, type)
  PROVE  Weighable(f)
<1>1. PICK mock \in BOOLEAN, public \in BOOLEAN, keyed \in SUBSET DOMAIN Supported :
        Wiring = Wired(mock, public, keyed)
  BY StoresAssumption
<1>2. Wiring \subseteq DOMAIN Supported
  BY <1>1 DEF Wired, Supported
<1>3. /\ DOMAIN f \subseteq Wiring
      /\ \A c \in DOMAIN f : f[c] \in [d \in DOMAIN Replies |-> Replies[d] \cup {Unrated}][c]
  BY DEF Gathered
<1>4. DOMAIN Replies = DOMAIN Supported
  BY DEF Replies, Supported
<1>5. ASSUME NEW c \in DOMAIN f PROVE Plausible(c, f[c])
  <2>1. c \in DOMAIN Replies /\ f[c] \in Replies[c] \cup {Unrated}
    BY <1>2, <1>3, <1>4
  <2>. QED
    BY <2>1, RepliesPlausible
<1>. QED
  BY <1>5 DEF Weighable, Plausible

(* A ThreatFox record is graded by its level, which is a percentage. *)
LEMMA FoxWeighable ==
  ASSUME NEW type, NEW record, record.listed => record.level \in 0..100
  PROVE  Weighable(FoxVerdict(type, record))
<1>1. CASE type \notin Supported["threatfox"]
  <2>1. FoxVerdict(type, record) = <<>> /\ DOMAIN <<>> = {}
    BY <1>1 DEF FoxVerdict
  <2>. QED
    BY <2>1 DEF Weighable
<1>2. CASE type \in Supported["threatfox"]
  <2>. DEFINE j == IF record.listed THEN ThreatFox(record.level) ELSE Unrated
  <2>1. FoxVerdict(type, record) = [feed \in {"threatfox"} |-> j]
    BY <1>2 DEF FoxVerdict
  <2>2. j.verdict \in Verdicts /\ j.score \in 0..1000
    <3>1. CASE record.listed
      <4>1. Plausible("threatfox", ThreatFox(record.level))
        BY <3>1, TieredPlausible DEF ThreatFox
      <4>. QED
        BY <3>1, <4>1 DEF Plausible
    <3>2. CASE ~ record.listed
      BY <3>2 DEF Unrated, Judged, Verdicts
    <3>. QED
      BY <3>1, <3>2
  <2>. HIDE DEF j
  <2>. QED
    BY <2>1, <2>2 DEF Weighable
<1>. QED
  BY <1>1, <1>2

(* The dossier's own feeds have fixed opinions. *)
LEMMA ExtraWeighable ==
  ASSUME NEW type, NEW f \in ExtraOpinions(type)
  PROVE  Weighable(f)
<1>1. \A c \in DOMAIN f : c \in DOMAIN Opinions(type) /\ f[c] \in Opinions(type)[c]
  BY DEF ExtraOpinions
<1>2. \A c \in DOMAIN Opinions(type) : \A j \in Opinions(type)[c] :
        j.verdict \in Verdicts /\ j.score \in 0..1000
  BY DEF Opinions, URLHaus, MalwareBazaar, Spamhaus, Talos, Judged, Verdicts
<1>. QED
  BY <1>1, <1>2 DEF Weighable

-----------------------------------------------------------------------------
(* A triple between two nodes, in either direction. *)
Joins(e, a, b) == (e.src = a /\ e.dst = b) \/ (e.src = b /\ e.dst = a)

(* An indicator whose dossier is written, its relations and the graph. *)
Related(d, ioc, g) == \A n \in d.relations \ {ioc} : \E e \in g : Joins(e, ioc, n)

(* A record whose level can be weighed and whose relations can be written. *)
Usable(record) == record.listed => record.level \in 0..100 /\ IsFiniteSet(record.related)

(* What a dossier request holds at each step: judgements that can be weighed
   until it is done, then a verdict that no feed has talked down, and
   relations that the graph has. *)
DossierSound(d, ioc, g) ==
  /\ d.step \in {"asked", "enriched", "looked_up"} => Weighable(d.sources)
  /\ d.step \in {"enriched", "looked_up"} => Usable(d.record)
  /\ d.step = "looked_up" => Weighable(d.foxVerdict)
  /\ d.step = "done" => Level[d.says.verdict] >= Level[Fused(d.sources).verdict]
  /\ d.step = "done" => Related(d, ioc, g)

(* The records in the ThreatFox cache. *)
CacheSound(cache) == \A v \in DOMAIN cache : Usable(cache[v])

(* The inductive invariant of the dossiers and of the graph that they and the
   investigations write. *)
DossiersInv ==
  /\ DOMAIN dossiers = Requests /\ IsFiniteSet(graph)
  /\ CacheSound(foxCache)
  /\ \A r \in Requests : DossierSound(dossiers[r], IndicatorOf[r], graph)

(* What is adjacent to a frontier of one node is adjacent to it, ... *)
LEMMA AdjacentToOne ==
  ASSUME NEW g, NEW node
  PROVE  AdjacentToAny(g, {node}) = Adjacent(g, node)
<1>1. \A x : x \in AdjacentToAny(g, {node}) <=> x \in Adjacent(g, node)
  BY DEF AdjacentToAny
<1>. QED
  BY <1>1

(* ... a round adds what is adjacent to the frontier, ... *)
LEMMA WideningAdds ==
  ASSUME NEW g, NEW s
  PROVE  Widened(g, s).seen = s.seen \cup (AdjacentToAny(g, s.frontier) \ s.seen)
  BY DEF Widened

(* ... so that neighbors of depth 1 are the node and what is adjacent to it. *)
LEMMA WithinOneHop ==
  ASSUME NEW g, NEW node \in NodesOf(g)
  PROVE  Within(g, node, 1) = {node} \cup Adjacent(g, node)
<1>1. ClampDepth(1) = 1
  <2>1. Min({1, MaxDepth}) = 1
    BY AtmostIs DEF Atmost, MaxDepth
  <2>2. Max({1, 1}) = 1
    BY GreatestOfMany DEF Greatest
  <2>. QED
    BY <2>1, <2>2 DEF ClampDepth
<1>. DEFINE start == [seen |-> {node}, frontier |-> {node}]
            Is(s) == s = [i \in 0..1 |-> IF i = 0 THEN start ELSE Widened(g, s[i - 1])]
            s0 == CHOOSE s : Is(s)
<1>2. Within(g, node, 1) = s0[1].seen
  BY <1>1 DEF Within
<1>. HIDE DEF start
<1>3. Is([i \in 0..1 |-> IF i = 0 THEN start ELSE Widened(g, start)])
  OBVIOUS
<1>4. Is(s0)
  BY <1>3
<1>. HIDE DEF s0
<1>5. s0[1] = Widened(g, start)
  <2>1. s0[0] = start
    BY <1>4
  <2>2. s0[1] = Widened(g, s0[0])
    BY <1>4
  <2>. QED
    BY <2>1, <2>2
<1>6. Widened(g, start).seen = {node} \cup Adjacent(g, node)
  <2>1. start.frontier = {node} /\ start.seen = {node}
    BY DEF start
  <2>2. Widened(g, start).seen = {node} \cup (AdjacentToAny(g, {node}) \ {node})
    BY <2>1, WideningAdds
  <2>. QED
    BY <2>2, AdjacentToOne
<1>. QED
  BY <1>2, <1>5, <1>6

(* A node is a neighbour of another one exactly if a triple joins them. *)
LEMMA NeighboursAre ==
  ASSUME NEW g, NEW a, NEW b, a # b
  PROVE  b \in Within(g, a, 1) <=> \E e \in g : Joins(e, a, b)
<1>1. b \in Adjacent(g, a) <=> \E e \in g : Joins(e, a, b)
  BY DEF Adjacent, Touching, OtherEnd, Joins
<1>2. CASE a \in NodesOf(g)
  BY <1>1, <1>2, WithinOneHop
<1>3. CASE a \notin NodesOf(g)
  <2>1. Within(g, a, 1) = {}
    BY <1>3 DEF Within
  <2>2. ~ \E e \in g : Joins(e, a, b)
    BY <1>3 DEF NodesOf, Joins
  <2>. QED
    BY <2>1, <2>2
<1>. QED
  BY <1>2, <1>3

(* No step takes a triple out of the graph: investigations and dossiers only
   write. *)
LEMMA GraphGrows == ASSUME Next PROVE graph \subseteq graph'
<1>1. ASSUME RulesNext, UNCHANGED <<graph, caseVars, dossierVars>> PROVE graph \subseteq graph'
  BY <1>1
<1>2. ASSUME CasesNext PROVE graph \subseteq graph'
  BY <1>2 DEF CasesNext, FingerprintInMemory, Match, SelectRow, CommitRow, SavePackage
<1>3. ASSUME DossiersNext PROVE graph \subseteq graph'
  BY <1>3 DEF DossiersNext, Ask, EnrichFromFox, LookUpInFox, Conclude
<1>. QED
  BY <1>1, <1>2, <1>3 DEF Next

(* An image of a finite set is finite. *)
LEMMA ImageFinite ==
  ASSUME NEW S, IsFiniteSet(S), NEW f, f = [x \in S |-> f[x]], NEW T, T = {f[x] : x \in S}
  PROVE  IsFiniteSet(T)
<1>1. f \in Surjection(S, T)
  BY DEF Surjection
<1>. QED
  BY <1>1, FS_Surjection

(* A package has finitely many triples, ... *)
LEMMA CaseTriplesFinite ==
  ASSUME NEW i \in DOMAIN Profile PROVE IsFiniteSet(CaseTriples(i))
<1>. DEFINE p == Profile[i]  alert == AlertNode(i)
            contains == [n \in p.iocs |-> Triple(alert, "contains", n)]
            affects == [h \in p.hosts |->
                          Triple([type |-> "host", value |-> h.name], "affected_by", alert)]
            receives == [u \in p.users |-> Triple([type |-> "user", value |-> u], "received", alert)]
            A == {contains[n] : n \in p.iocs}
            B == {affects[h] : h \in p.hosts}
            C == {receives[u] : u \in p.users}
<1>1. IsFiniteSet(p.iocs) /\ IsFiniteSet(p.hosts) /\ IsFiniteSet(p.users)
  BY StoresAssumption
<1>2. CaseTriples(i) = A \cup B \cup C
  BY DEF CaseTriples
<1>3. /\ contains = [n \in p.iocs |-> contains[n]]
      /\ affects = [h \in p.hosts |-> affects[h]]
      /\ receives = [u \in p.users |-> receives[u]]
  OBVIOUS
<1>. HIDE DEF p, contains, affects, receives
<1>4. IsFiniteSet(A)
  BY <1>1, <1>3, ImageFinite
<1>5. IsFiniteSet(B)
  BY <1>1, <1>3, ImageFinite
<1>6. IsFiniteSet(C)
  BY <1>1, <1>3, ImageFinite
<1>. HIDE DEF A, B, C
<1>. QED
  BY <1>2, <1>4, <1>5, <1>6, FS_Union

(* ... and so has the conclusion of a dossier. *)
LEMMA DossierTriplesFinite ==
  ASSUME NEW ioc, NEW record, Usable(record)
  PROVE  IsFiniteSet(DossierTriples(ioc, record))
<1>. DEFINE S == RelatedOf(record)
            K == {TRUE} \cap {record.listed /\ record.family # ""}
            relates == [n \in S |-> Triple(ioc, "related_to", n)]
            names == [known \in K |->
                        Triple(ioc, "attributed_to", [type |-> "malware", value |-> record.family])]
            A == {relates[n] : n \in S}
            B == {names[known] : known \in K}
<1>1. IsFiniteSet(S)
  BY FS_EmptySet DEF RelatedOf, Usable
<1>2. IsFiniteSet(K)
  <2>1. IsFiniteSet({TRUE}) /\ K \subseteq {TRUE}
    BY FS_Singleton
  <2>. QED
    BY <2>1, FS_Subset
<1>3. DossierTriples(ioc, record) = A \cup B
  BY DEF DossierTriples
<1>4. relates = [n \in S |-> relates[n]] /\ names = [known \in K |-> names[known]]
  OBVIOUS
<1>. HIDE DEF S, K, relates, names
<1>5. IsFiniteSet(A) /\ IsFiniteSet(B)
  BY <1>1, <1>2, <1>4, ImageFinite
<1>. HIDE DEF A, B
<1>. QED
  BY <1>3, <1>5, FS_Union

(* So finalizations keep the graph finite. *)
LEMMA CasesKeepFinite == ASSUME IsFiniteSet(graph), CasesNext PROVE IsFiniteSet(graph')
<1>1. PICK a \in Attempts : graph' = graph \/ graph' = graph \cup CaseTriples(IncidentOf[a])
  BY DEF CasesNext, FingerprintInMemory, Match, SelectRow, CommitRow, SavePackage
<1>2. IncidentOf[a] \in DOMAIN Profile
  BY StoresAssumption
<1>. QED
  BY <1>1, <1>2, CaseTriplesFinite, FS_Union

(* What a dossier says remains true in a larger graph. *)
LEMMA SoundInLarger ==
  ASSUME NEW d, NEW ioc, NEW g, NEW h, g \subseteq h, DossierSound(d, ioc, g)
  PROVE  DossierSound(d, ioc, h)
<1>1. d.step = "done" => Related(d, ioc, h)
  BY DEF DossierSound, Related
<1>. QED
  BY <1>1 DEF DossierSound

(* A lookup, of the cache or the service, gives a sound record and keeps the
   cache sound. *)
LEMMA FoundSound ==
  ASSUME CacheSound(foxCache), NEW value, NEW record \in Found(value)
  PROVE  Usable(record) /\ CacheSound(Remembered(value, record))
<1>1. Usable(record)
  BY StoresAssumption DEF Found, CacheSound, NoRecord, Usable
<1>2. CacheSound(Remembered(value, record))
  <2>1. CASE ~ record.listed
    BY <2>1 DEF Remembered
  <2>2. CASE record.listed
    <3>. DEFINE one == [v \in {value} |-> record]
    <3>1. DOMAIN one = {value} /\ one[value] = record
      OBVIOUS
    <3>2. Remembered(value, record) = Joined(foxCache, one)
      BY <2>2 DEF Remembered
    <3>. HIDE DEF one
    <3>3. \A v \in DOMAIN foxCache \cup {value} :
            Joined(foxCache, one)[v] = IF v \in DOMAIN foxCache THEN foxCache[v] ELSE one[v]
      BY <3>1 DEF Joined
    <3>4. DOMAIN Joined(foxCache, one) = DOMAIN foxCache \cup {value}
      BY <3>1 DEF Joined
    <3>. QED
      BY <1>1, <3>1, <3>2, <3>3, <3>4 DEF CacheSound
  <2>. QED
    BY <2>1, <2>2
<1>. QED
  BY <1>1, <1>2

(* A step that gives one request the record d leaves the others as they are. *)
LEMMA OneDossierMoves ==
  ASSUME DossiersInv, NEW r \in Requests, NEW d, graph \subseteq graph',
         IsFiniteSet(graph'), dossiers' = [dossiers EXCEPT ![r] = d], CacheSound(foxCache'),
         DossierSound(d, IndicatorOf[r], graph')
  PROVE  DossiersInv'
<1>1. ASSUME NEW q \in Requests PROVE DossierSound(dossiers'[q], IndicatorOf[q], graph')
  <2>1. CASE q = r
    BY <2>1 DEF DossiersInv
  <2>2. CASE q # r
    <3>1. dossiers'[q] = dossiers[q] /\ DossierSound(dossiers[q], IndicatorOf[q], graph)
      BY <2>2 DEF DossiersInv
    <3>. QED
      BY <3>1, SoundInLarger
  <2>. QED
    BY <2>1, <2>2
<1>2. DOMAIN dossiers' = Requests
  BY DEF DossiersInv
<1>. QED
  BY <1>1, <1>2 DEF DossiersInv

(* Each step of a request keeps the invariant: the aggregator's answers, ... *)
LEMMA AskKeeps == ASSUME DossiersInv, NEW r \in Requests, Ask(r) PROVE DossiersInv'
<1>1. PICK answers \in Gathered(Wiring, Type(r)) :
        dossiers' = [dossiers EXCEPT ![r] = [step |-> "asked", sources |-> answers]]
  BY DEF Ask
<1>2. DossierSound([step |-> "asked", sources |-> answers], IndicatorOf[r], graph')
  BY GatheredWeighable DEF DossierSound
<1>3. UNCHANGED <<foxCache, graph>>
  BY DEF Ask
<1>4. CacheSound(foxCache') /\ IsFiniteSet(graph')
  BY <1>3 DEF DossiersInv
<1>. QED
  BY <1>1, <1>2, <1>3, <1>4, OneDossierMoves

(* ... the ThreatFox record, ... *)
LEMMA EnrichFromFoxKeeps ==
  ASSUME DossiersInv, NEW r \in Requests, EnrichFromFox(r) PROVE DossiersInv'
<1>1. PICK record \in Found(Value(r)) :
        /\ dossiers' = [dossiers EXCEPT ![r] = [step |-> "enriched", record |-> record,
                                                sources |-> dossiers[r].sources]]
        /\ foxCache' = Remembered(Value(r), record)
  BY DEF EnrichFromFox
<1>. DEFINE d == [step |-> "enriched", record |-> record, sources |-> dossiers[r].sources]
<1>2. Usable(record) /\ CacheSound(foxCache')
  BY <1>1, FoundSound DEF DossiersInv
<1>3. Weighable(dossiers[r].sources) /\ graph' = graph /\ IsFiniteSet(graph')
  BY DEF DossiersInv, DossierSound, EnrichFromFox
<1>4. DossierSound(d, IndicatorOf[r], graph')
  BY <1>2, <1>3 DEF DossierSound
<1>. HIDE DEF d
<1>5. dossiers' = [dossiers EXCEPT ![r] = d]
  BY <1>1 DEF d
<1>. QED
  BY <1>2, <1>3, <1>4, <1>5, OneDossierMoves

(* ... the second lookup, which may find another record by then, ... *)
LEMMA LookUpInFoxKeeps ==
  ASSUME DossiersInv, NEW r \in Requests, LookUpInFox(r) PROVE DossiersInv'
<1>1. PICK record \in Found(Value(r)) :
        /\ dossiers' = [dossiers EXCEPT ![r] =
                          [step |-> "looked_up", record |-> dossiers[r].record,
                           sources |-> dossiers[r].sources,
                           foxVerdict |-> FoxVerdict(Type(r), record)]]
        /\ foxCache' = Remembered(Value(r), record)
  BY DEF LookUpInFox
<1>. DEFINE d == [step |-> "looked_up", record |-> dossiers[r].record,
                  sources |-> dossiers[r].sources,
                  foxVerdict |-> FoxVerdict(Type(r), record)]
<1>2. Usable(record) /\ CacheSound(foxCache')
  BY <1>1, FoundSound DEF DossiersInv
<1>3. /\ Weighable(dossiers[r].sources) /\ graph' = graph /\ IsFiniteSet(graph')
      /\ Usable(dossiers[r].record)
  BY DEF DossiersInv, DossierSound, LookUpInFox
<1>4. Weighable(FoxVerdict(Type(r), record))
  BY <1>2, FoxWeighable DEF Usable
<1>5. DossierSound(d, IndicatorOf[r], graph')
  BY <1>3, <1>4 DEF DossierSound
<1>. HIDE DEF d
<1>6. dossiers' = [dossiers EXCEPT ![r] = d]
  BY <1>1 DEF d
<1>. QED
  BY <1>2, <1>3, <1>5, <1>6, OneDossierMoves

(* ... and the conclusion, which writes the triples it has reported. *)
LEMMA ConcludeKeeps ==
  ASSUME DossiersInv, NEW r \in Requests, Conclude(r) PROVE DossiersInv'
<1>. DEFINE o == dossiers[r]  ioc == IndicatorOf[r]
            found == CampaignMatches(Value(r), AllForTenant)
            relations == RelatedOf(o.record) \cup Pivots(ioc)
            D(extra) == [step |-> "done", sources |-> o.sources,
                         says |-> Concluded(Type(r), o.sources, o.record, o.foxVerdict, extra),
                         campaigns |-> found, relations |-> relations]
<1>1. PICK extra \in ExtraOpinions(Type(r)) : dossiers' = [dossiers EXCEPT ![r] = D(extra)]
  BY DEF Conclude
<1>2. /\ graph' = graph \cup DossierTriples(ioc, o.record)
      /\ foxCache' = foxCache /\ o.step = "looked_up"
  BY DEF Conclude
<1>3. Weighable(o.sources) /\ Weighable(o.foxVerdict) /\ Weighable(extra)
  BY <1>2, ExtraWeighable DEF DossiersInv, DossierSound
<1>. DEFINE d == D(extra)
<1>4. Level[d.says.verdict] >= Level[Fused(d.sources).verdict]
  <2>1. d.says.verdict = DossierVerdict(o.sources, o.foxVerdict, extra).verdict
    BY DEF Concluded
  <2>2. d.sources = o.sources
    OBVIOUS
  <2>. HIDE DEF d
  <2>. QED
    BY <1>3, <2>1, <2>2, DossierIsNoMilder
<1>5. Related(d, ioc, graph')
  <2>. SUFFICES ASSUME NEW n \in relations, n # ioc PROVE \E e \in graph' : Joins(e, ioc, n)
    BY DEF Related
  <2>1. CASE n \in RelatedOf(o.record)
    <3>1. Triple(ioc, "related_to", n) \in graph'
      BY <1>2, <2>1 DEF DossierTriples
    <3>2. Joins(Triple(ioc, "related_to", n), ioc, n)
      BY DEF Triple, Joins
    <3>. QED
      BY <3>1, <3>2
  <2>2. CASE n \in Pivots(ioc)
    <3>1. n \in Within(graph, ioc, 1)
      BY <2>2 DEF Pivots
    <3>2. \E e \in graph : Joins(e, ioc, n)
      BY <3>1, NeighboursAre
    <3>. QED
      BY <1>2, <3>2
  <2>. QED
    BY <2>1, <2>2
<1>6. d.step = "done"
  OBVIOUS
<1>. HIDE DEF d
<1>7. DossierSound(d, ioc, graph')
  BY <1>4, <1>5, <1>6 DEF DossierSound
<1>8. dossiers' = [dossiers EXCEPT ![r] = d]
  BY <1>1 DEF d
<1>9. CacheSound(foxCache') /\ graph \subseteq graph'
  BY <1>2 DEF DossiersInv
<1>10. IsFiniteSet(graph')
  <2>1. Usable(o.record)
    BY <1>2 DEF DossiersInv, DossierSound
  <2>. QED
    BY <1>2, <2>1, DossierTriplesFinite, FS_Union DEF DossiersInv
<1>. QED
  BY <1>7, <1>8, <1>9, <1>10, OneDossierMoves

(* Requests start with nothing and the cache with the bundled records. *)
LEMMA DossiersStart == Init => DossiersInv
<1>1. Init => CacheSound(foxCache)
  BY StoresAssumption DEF Init, CacheSound, Range, Usable
<1>2. Init => IsFiniteSet(graph)
  BY FS_EmptySet DEF Init
<1>. QED
  BY <1>1, <1>2 DEF Init, DossiersInv, DossierSound

(* Every step of the stores keeps the invariant. *)
LEMMA DossiersStep == DossiersInv /\ [Next]_vars => DossiersInv'
<1>. SUFFICES ASSUME DossiersInv, [Next]_vars PROVE DossiersInv'
  OBVIOUS
<1>1. ASSUME DossiersNext PROVE DossiersInv'
  BY <1>1, AskKeeps, EnrichFromFoxKeeps, LookUpInFoxKeeps, ConcludeKeeps DEF DossiersNext
<1>2. ASSUME UNCHANGED dossierVars, graph \subseteq graph', IsFiniteSet(graph')
      PROVE  DossiersInv'
  <2>1. dossiers' = dossiers /\ foxCache' = foxCache
    BY <1>2 DEF dossierVars
  <2>2. \A r \in Requests : DossierSound(dossiers[r], IndicatorOf[r], graph')
    BY <1>2, SoundInLarger DEF DossiersInv
  <2>. QED
    BY <1>2, <2>1, <2>2 DEF DossiersInv
<1>3. CASE Next
  <2>1. ASSUME CasesNext PROVE IsFiniteSet(graph')
    BY <2>1, CasesKeepFinite DEF DossiersInv
  <2>2. ASSUME UNCHANGED graph PROVE IsFiniteSet(graph')
    BY <2>2 DEF DossiersInv
  <2>3. CASE RulesNext /\ UNCHANGED <<graph, caseVars, dossierVars>>
    BY <1>2, <2>2, <2>3
  <2>4. CASE CasesNext /\ UNCHANGED <<ruleVars, dossierVars>>
    BY <1>2, <1>3, <2>1, <2>4, GraphGrows
  <2>5. CASE DossiersNext
    BY <1>1, <2>5
  <2>. QED
    BY <1>3, <2>3, <2>4, <2>5 DEF Next
<1>4. CASE UNCHANGED vars
  BY <1>2, <1>4 DEF vars, DossiersInv, dossierVars
<1>. QED
  BY <1>3, <1>4

(* The invariant of the dossiers holds. *)
THEOREM DossiersInvHolds == Spec => []DossiersInv
  BY DossiersStart, DossiersStep, PTL DEF Spec

(* Asking more feeds never talks an indicator down: the verdict of every
   finished dossier (dossier.py) is no milder than the judgement of the
   aggregator that investigations act on, whatever ThreatFox and the other
   feeds answer and however often the cache changed under the request. *)
THEOREM DossiersHoldFirm == Spec => []DossiersNeverExonerate
<1>1. DossiersInv => DossiersNeverExonerate
  BY DEF DossiersInv, DossierSound, DossiersNeverExonerate, Done
<1>. QED
  BY <1>1, DossiersInvHolds, PTL

(* Relations are found from both ends: an indicator whose dossier is
   concluded after another dossier has named it names that indicator in turn,
   since the graph keeps the triple and neighbors follows it in both
   directions. *)
THEOREM PivotsAreMutual == Spec => PivotsBothWays
<1>. DEFINE Found1(q, r) ==
       (/\ Done(q) /\ IndicatorOf[r] \in dossiers[q].relations \ {IndicatorOf[q]}
        /\ Type(q) \in Addresses \cup {"domain"}
        /\ ~ Done(r) /\ Done(r)')
       => IndicatorOf[q] \in dossiers'[r].relations
<1>1. DossiersInv /\ [Next]_vars => [\A q, r \in Requests : Found1(q, r)]_vars
  <2>. SUFFICES ASSUME DossiersInv, Next, NEW q \in Requests, NEW r \in Requests,
                       Done(q), IndicatorOf[r] \in dossiers[q].relations \ {IndicatorOf[q]},
                       Type(q) \in Addresses \cup {"domain"}, ~ Done(r), Done(r)'
                PROVE  IndicatorOf[q] \in dossiers'[r].relations
    OBVIOUS
  <2>1. Conclude(r)
    <3>1. dossiers' # dossiers
      BY DEF Done
    <3>2. DossiersNext
      BY <3>1 DEF Next, dossierVars
    <3>3. ASSUME NEW s \in Requests, Ask(s) \/ EnrichFromFox(s) \/ LookUpInFox(s) PROVE FALSE
      <4>1. DOMAIN dossiers = Requests
        BY DEF DossiersInv
      <4>2. \E d : dossiers' = [dossiers EXCEPT ![s] = d] /\ d.step # "done"
        BY <3>3 DEF Ask, EnrichFromFox, LookUpInFox
      <4>. QED
        BY <4>1, <4>2 DEF Done
    <3>4. PICK s \in Requests : Conclude(s)
      BY <3>2, <3>3 DEF DossiersNext
    <3>5. s = r
      <4>1. DOMAIN dossiers = Requests
        BY DEF DossiersInv
      <4>2. \E d : dossiers' = [dossiers EXCEPT ![s] = d]
        BY <3>4 DEF Conclude
      <4>. QED
        BY <4>1, <4>2 DEF Done
    <3>. QED
      BY <3>4, <3>5
  <2>2. IndicatorOf[q] \in Pivots(IndicatorOf[r])
    <3>1. \E e \in graph : Joins(e, IndicatorOf[q], IndicatorOf[r])
      BY DEF DossiersInv, DossierSound, Related, Done
    <3>2. \E e \in graph : Joins(e, IndicatorOf[r], IndicatorOf[q])
      BY <3>1 DEF Joins
    <3>3. IndicatorOf[q] # IndicatorOf[r]
      OBVIOUS
    <3>4. IndicatorOf[q] \in Within(graph, IndicatorOf[r], 1)
      BY <3>2, <3>3, NeighboursAre
    <3>. QED
      BY <3>3, <3>4 DEF Pivots, Type
  <2>3. Pivots(IndicatorOf[r]) \subseteq dossiers'[r].relations
    <3>1. DOMAIN dossiers = Requests
      BY DEF DossiersInv
    <3>. QED
      BY <2>1, <3>1 DEF Conclude
  <2>. QED
    BY <2>2, <2>3
<1>. QED
  BY <1>1, DossiersInvHolds, PTL DEF Spec, PivotsBothWays

-----------------------------------------------------------------------------
(* A list of a finite set has each member once. *)
LEMMA SetToSeqIs ==
  ASSUME NEW S, IsFiniteSet(S), NEW q, q = SetToSeq(S)
  PROVE  /\ q \in Seq(S) /\ \A i \in DOMAIN q : q[i] \in S
         /\ \A i, j \in DOMAIN q : q[i] = q[j] => i = j
         /\ \A x \in S : \E i \in DOMAIN q : q[i] = x
<1>. DEFINE n == Cardinality(S)
<1>1. n \in Nat /\ \E f \in [1..n -> S] : IsInjective(f)
  BY FS_CardinalityType DEF ExistsBijection, Bijection, Injection
<1>2. q \in [1..n -> S] /\ IsInjective(q)
  BY <1>1 DEF SetToSeq
<1>3. IsFiniteSet(1..n) /\ Cardinality(1..n) = n
  BY <1>1, FS_Interval
<1>4. q \in Injection(1..n, S)
  BY <1>2 DEF Injection, IsInjective
<1>5. q \in Surjection(1..n, S)
  BY <1>3, <1>4, FS_Injection
<1>. QED
  BY <1>1, <1>2, <1>5 DEF IsInjective, Surjection

(* The rounds of neighbors, N of them: what was seen, and the frontier. *)
Waves(g, a, N, w) ==
  w = [i \in 0..N |-> IF i = 0 THEN [seen |-> {a}, frontier |-> {a}] ELSE Widened(g, w[i - 1])]

(* The recursion has a solution, ... *)
LEMMA WavesExist ==
  ASSUME NEW g, NEW a, NEW N \in Nat
  PROVE  \E w : Waves(g, a, N, w)
<1>. DEFINE Defined(n) == \E w : Waves(g, a, n, w)
            Bad == {n \in 0..N : ~ Defined(n)}
<1>1. SUFFICES ASSUME N \in Bad PROVE FALSE
  OBVIOUS
<1>2. Bad \in SUBSET Nat /\ Bad # {}
  <2>. HIDE DEF Defined
  <2>. QED
    BY <1>1
<1>3. PICK n \in Bad : \A m \in Bad : n <= m
  <2>. HIDE DEF Bad
  <2>. QED
    BY <1>2, HasLeast
<1>4. n # 0
  <2>1. Waves(g, a, 0, [i \in 0..0 |-> [seen |-> {a}, frontier |-> {a}]])
    BY DEF Waves
  <2>. QED
    BY <1>3, <2>1
<1>5. PICK w : Waves(g, a, n - 1, w)
  <2>1. n - 1 \in 0..N /\ ~ (n <= n - 1)
    BY <1>3, <1>4
  <2>2. n - 1 \notin Bad
    BY <1>3, <2>1
  <2>. QED
    BY <2>1, <2>2
<1>. DEFINE v == [i \in 0..n |-> IF i = n THEN Widened(g, w[n - 1]) ELSE w[i]]
<1>6. ASSUME NEW i \in 0..n
      PROVE  v[i] = IF i = 0 THEN [seen |-> {a}, frontier |-> {a}] ELSE Widened(g, v[i - 1])
  <2>1. CASE i = n
    <3>1. v[i] = Widened(g, w[n - 1]) /\ v[n - 1] = w[n - 1]
      BY <1>3, <1>4, <2>1
    <3>. QED
      BY <1>4, <2>1, <3>1
  <2>2. CASE i # n
    <3>1. i \in 0..n - 1
      BY <1>3, <2>2
    <3>2. v[i] = w[i] /\ (i # 0 => v[i - 1] = w[i - 1])
      BY <1>3, <2>2
    <3>3. w[i] = IF i = 0 THEN [seen |-> {a}, frontier |-> {a}] ELSE Widened(g, w[i - 1])
      BY <1>5, <3>1 DEF Waves
    <3>. QED
      BY <3>2, <3>3
  <2>. QED
    BY <2>1, <2>2
<1>7. Waves(g, a, n, v)
  BY <1>6 DEF Waves
<1>. QED
  BY <1>3, <1>7

(* ... and no other: fewer rounds are the first of many. *)
LEMMA WavesUnique ==
  ASSUME NEW g, NEW a, NEW N \in Nat, NEW M \in 0..N, NEW w, NEW v,
         Waves(g, a, N, w), Waves(g, a, M, v)
  PROVE  \A i \in 0..M : v[i] = w[i]
<1>. DEFINE Bad == {i \in 0..M : v[i] # w[i]}
<1>1. SUFFICES ASSUME Bad # {} PROVE FALSE
  OBVIOUS
<1>2. PICK n \in Bad : \A m \in Bad : n <= m
  <2>1. Bad \in SUBSET Nat
    OBVIOUS
  <2>. HIDE DEF Bad
  <2>. QED
    BY <1>1, <2>1, HasLeast
<1>3. n \in 0..M /\ n \in 0..N /\ v[n] # w[n]
  BY <1>2
<1>4. n # 0
  BY <1>3 DEF Waves
<1>5. v[n - 1] = w[n - 1]
  BY <1>2, <1>3, <1>4
<1>6. v[n] = Widened(g, v[n - 1]) /\ w[n] = Widened(g, w[n - 1])
  BY <1>3, <1>4 DEF Waves
<1>. QED
  BY <1>3, <1>5, <1>6

(* A round of neighbors reaches what is adjacent to its frontier and was not
   seen. *)
LEMMA Widens ==
  ASSUME NEW g, NEW s, NEW t, t = Widened(g, s)
  PROVE  \A y : /\ y \in t.frontier <=> /\ y \notin s.seen
                                        /\ \E x \in s.frontier : y \in Adjacent(g, x)
                /\ y \in t.seen <=> y \in s.seen \/ y \in t.frontier
<1>. DEFINE next == AdjacentToAny(g, s.frontier) \ s.seen
<1>1. t = [seen |-> s.seen \cup next, frontier |-> next]
  BY DEF Widened
<1>2. \A y : y \in next <=> y \notin s.seen /\ \E x \in s.frontier : y \in Adjacent(g, x)
  BY DEF AdjacentToAny
<1>. HIDE DEF next
<1>3. t.frontier = next /\ t.seen = s.seen \cup next
  BY <1>1
<1>. QED
  BY <1>2, <1>3

(* Each round does. *)
LEMMA WavesStep ==
  ASSUME NEW g, NEW a, NEW N \in Nat, NEW w, Waves(g, a, N, w)
  PROVE  /\ w[0].seen = {a} /\ w[0].frontier = {a}
         /\ \A i \in 1..N : \A y :
              /\ y \in w[i].frontier <=> /\ y \notin w[i - 1].seen
                                         /\ \E x \in w[i - 1].frontier : y \in Adjacent(g, x)
              /\ y \in w[i].seen <=> y \in w[i - 1].seen \/ y \in w[i].frontier
<1>1. w[0] = [seen |-> {a}, frontier |-> {a}]
  BY DEF Waves
<1>2. ASSUME NEW i \in 1..N PROVE w[i] = Widened(g, w[i - 1])
  <2>1. i \in 0..N /\ i # 0
    OBVIOUS
  <2>. QED
    BY <2>1 DEF Waves
<1>. QED
  BY <1>1, <1>2, Widens

(* The frontiers are the layers of the graph around a. *)
Layered(g, a, N, w) ==
  /\ w[0].seen = {a} /\ w[0].frontier = {a}
  /\ \A i \in 0..N : \A x : x \in w[i].seen <=> \E k \in 0..i : x \in w[k].frontier
  /\ \A k, m \in 0..N : \A x : x \in w[k].frontier /\ x \in w[m].frontier => k = m
  /\ \A i \in 1..N : \A x \in w[i - 1].seen : Adjacent(g, x) \subseteq w[i].seen
  /\ \A i \in 1..N : \A y \in w[i].frontier : \E x \in w[i - 1].frontier : y \in Adjacent(g, x)

(* What has been seen is what was in a frontier by then. *)
LEMMA SeenIs ==
  ASSUME NEW g, NEW a, NEW N \in Nat, NEW w, Waves(g, a, N, w), NEW i \in 0..N
  PROVE  \A x : x \in w[i].seen <=> \E k \in 0..i : x \in w[k].frontier
<1>. DEFINE Is(n) == \A x : x \in w[n].seen <=> \E k \in 0..n : x \in w[k].frontier
            Bad == {n \in 0..N : ~ Is(n)}
<1>1. SUFFICES ASSUME i \in Bad PROVE FALSE
  OBVIOUS
<1>2. PICK n \in Bad : \A m \in Bad : n <= m
  <2>1. Bad \in SUBSET Nat /\ Bad # {}
    <3>. HIDE DEF Is
    <3>. QED
      BY <1>1
  <2>. HIDE DEF Bad
  <2>. QED
    BY <2>1, HasLeast
<1>3. n # 0
  <2>0. w[0].seen = {a} /\ w[0].frontier = {a}
    BY WavesStep, Zenon
  <2>1. w[0].seen = {a} /\ w[0].frontier = {a} /\ \A k : k \in 0..0 <=> k = 0
    BY <2>0
  <2>2. Is(0)
    BY <2>1
  <2>. QED
    BY <1>2, <2>2
<1>4. Is(n - 1) /\ \A x : x \in w[n].seen <=> x \in w[n - 1].seen \/ x \in w[n].frontier
  <2>1. n - 1 \in 0..N /\ n \in 1..N /\ ~ (n <= n - 1)
    BY <1>2, <1>3
  <2>2. n - 1 \notin Bad
    BY <1>2, <2>1
  <2>. QED
    BY <2>1, <2>2, WavesStep
<1>5. Is(n)
  <2>1. \A k : k \in 0..n <=> k = n \/ k \in 0..n - 1
    BY <1>2, <1>3
  <2>. QED
    BY <1>4, <2>1
<1>. QED
  BY <1>2, <1>5

(* The rounds of neighbors are the layers. *)
LEMMA WavesLayer ==
  ASSUME NEW g, NEW a, NEW N \in Nat, NEW w, Waves(g, a, N, w)
  PROVE  Layered(g, a, N, w)
<1>. DEFINE Reached(i, y) == /\ y \notin w[i - 1].seen
                             /\ \E x \in w[i - 1].frontier : y \in Adjacent(g, x)
<1>0. /\ w[0].seen = {a} /\ w[0].frontier = {a}
      /\ \A i \in 1..N : \A y : /\ y \in w[i].frontier <=> Reached(i, y)
                                /\ y \in w[i].seen <=> y \in w[i - 1].seen \/ y \in w[i].frontier
  BY WavesStep
<1>1. \A i \in 0..N : \A x : x \in w[i].seen <=> \E k \in 0..i : x \in w[k].frontier
  BY SeenIs
<1>2. ASSUME NEW k \in 0..N, NEW m \in 0..N, NEW x, k < m,
             x \in w[k].frontier, x \in w[m].frontier
      PROVE  FALSE
  <2>1. m \in 1..N /\ m - 1 \in 0..N /\ k \in 0..m - 1
    BY <1>2
  <2>2. x \in w[m - 1].seen
    BY <1>1, <1>2, <2>1
  <2>. QED
    BY <1>2, <2>1, <2>2, <1>0
<1>3. ASSUME NEW i \in 1..N, NEW x \in w[i - 1].seen, NEW y \in Adjacent(g, x)
      PROVE  y \in w[i].seen
  <2>1. i - 1 \in 0..N
    OBVIOUS
  <2>2. PICK k \in 0..i - 1 : x \in w[k].frontier
    BY <1>1, <1>3, <2>1
  <2>3. k + 1 \in 1..N /\ (k + 1) - 1 = k /\ k + 1 \in 0..N
    OBVIOUS
  <2>4. y \in Adjacent(g, x) /\ x \in w[(k + 1) - 1].frontier
    BY <1>3, <2>2, <2>3
  <2>5. y \in w[k + 1].seen
    BY <2>3, <2>4, <1>0
  <2>6. PICK j \in 0..k + 1 : y \in w[j].frontier
    BY <1>1, <2>3, <2>5
  <2>7. j \in 0..i /\ i \in 0..N
    OBVIOUS
  <2>. QED
    BY <1>1, <2>6, <2>7
<1>4. ASSUME NEW i \in 1..N, NEW y \in w[i].frontier
      PROVE  \E x \in w[i - 1].frontier : y \in Adjacent(g, x)
  <2>1. Reached(i, y)
    <3>. HIDE DEF Reached
    <3>. QED
      BY <1>0, <1>4
  <2>. QED
    BY <1>4, <2>1
<1>5. ASSUME NEW k \in 0..N, NEW m \in 0..N, NEW x, x \in w[k].frontier, x \in w[m].frontier
      PROVE  k = m
  BY <1>2, <1>5
<1>. QED
  BY <1>1, <1>3, <1>4, <1>5, <1>0 DEF Layered

-----------------------------------------------------------------------------
(* A triple leads from either end to the other. *)
LEMMA EdgesLeadBack ==
  ASSUME NEW g, NEW e \in g, NEW x, e \in Touching(g, x)
  PROVE  /\ OtherEnd(e, OtherEnd(e, x)) = x
         /\ e \in Touching(g, OtherEnd(e, x))
         /\ OtherEnd(e, x) \in Adjacent(g, x)
<1>1. OtherEnd(e, x) \in Adjacent(g, x)
  BY DEF Adjacent
<1>2. CASE e.src = x
  BY <1>1, <1>2 DEF OtherEnd, Touching
<1>3. CASE e.src # x
  BY <1>1, <1>3 DEF OtherEnd, Touching
<1>. QED
  BY <1>2, <1>3

(* A graph has finitely many nodes, and what is adjacent to anything is one. *)
LEMMA NodesAreFinite ==
  ASSUME NEW g, IsFiniteSet(g)
  PROVE  IsFiniteSet(NodesOf(g)) /\ \A x : Adjacent(g, x) \subseteq NodesOf(g)
<1>. DEFINE sources == [e \in g |-> e.src]
            ends == [e \in g |-> e.dst]
<1>1. sources \in Surjection(g, {e.src : e \in g}) /\ ends \in Surjection(g, {e.dst : e \in g})
  BY DEF Surjection
<1>2. IsFiniteSet({e.src : e \in g}) /\ IsFiniteSet({e.dst : e \in g})
  BY <1>1, FS_Surjection
<1>3. IsFiniteSet(NodesOf(g))
  BY <1>2, FS_Union DEF NodesOf
<1>. QED
  BY <1>3 DEF Adjacent, NodesOf, Touching, OtherEnd

(* What the search has found, what waits in its queue, what it has done. *)
FoundBy(s, src) == {src} \cup DOMAIN s.via
Waiting(s) == {s.queue[i].node : i \in 1..Len(s.queue)}
Visited(s, src) == FoundBy(s, src) \ Waiting(s)

(* Each node was found by a triple from the layer before its own. *)
ViaSound(g, src, L, w, s) ==
  /\ DOMAIN s.via \subseteq NodesOf(g) /\ src \notin DOMAIN s.via
  /\ \A n \in DOMAIN s.via :
       /\ s.via[n] \in Touching(g, OtherEnd(s.via[n], n))
       /\ OtherEnd(s.via[n], OtherEnd(s.via[n], n)) = n
       /\ OtherEnd(s.via[n], n) \in FoundBy(s, src)
       /\ \E k \in 1..L : n \in w[k].frontier /\ OtherEnd(s.via[n], n) \in w[k - 1].frontier

(* The queue has each node once, with the number of its layer, of which it
   holds two at most, the nearer one first. *)
QueueSound(g, src, L, w, s) ==
  /\ s.queue \in Seq([node : NodesOf(g), depth : 0..L])
  /\ \A i \in 1..Len(s.queue) : /\ s.queue[i].node \in FoundBy(s, src)
                                /\ s.queue[i].node \in w[s.queue[i].depth].frontier
  /\ \A i, j \in 1..Len(s.queue) : s.queue[i].node = s.queue[j].node => i = j
  /\ \A i, j \in 1..Len(s.queue) : i <= j => s.queue[i].depth <= s.queue[j].depth
  /\ \A j \in 1..Len(s.queue) : s.queue[j].depth <= s.queue[1].depth + 1

(* Nothing adjacent to a node that was visited is missed, nor any layer up to
   that of the next node. *)
Swept(g, src, L, w, s) ==
  /\ \A p \in Visited(s, src) : \A k \in 0..L - 1 :
       p \in w[k].frontier => Adjacent(g, p) \subseteq FoundBy(s, src)
  /\ s.queue # <<>> => w[s.queue[1].depth].seen \subseteq FoundBy(s, src)

(* The invariant of the search. *)
SearchSound(g, src, L, w, s) ==
  ViaSound(g, src, L, w, s) /\ QueueSound(g, src, L, w, s) /\ Swept(g, src, L, w, s)

(* What a queue has at each place. *)
LEMMA PlacesOf ==
  ASSUME NEW S, NEW q \in Seq(S)
  PROVE  /\ Len(q) \in Nat /\ DOMAIN q = 1..Len(q) /\ \A i \in 1..Len(q) : q[i] \in S
         /\ q # <<>> => 1 \in 1..Len(q) /\ Len(q) \in Nat \ {0} /\ Head(q) = q[1]
  OBVIOUS

(* The queue without its first entry, with others behind. *)
LEMMA QueueMoves ==
  ASSUME NEW S, NEW q \in Seq(S), q # <<>>, NEW t \in Seq(S), NEW r, r = Enqueue(Tail(q), t)
  PROVE  /\ r \in Seq(S) /\ Len(r) = Len(q) - 1 + Len(t)
         /\ \A i \in 1..Len(r) : \/ i + 1 \in 1..Len(q) /\ r[i] = q[i + 1]
                                 \/ /\ i - (Len(q) - 1) \in 1..Len(t)
                                    /\ r[i] = t[i - (Len(q) - 1)]
         /\ \A i \in 2..Len(q) : i - 1 \in 1..Len(r) /\ r[i - 1] = q[i]
         /\ \A i \in 1..Len(t) : /\ i + (Len(q) - 1) \in 1..Len(r)
                                 /\ r[i + (Len(q) - 1)] = t[i]
<1>1. /\ Tail(q) \in Seq(S) /\ Len(Tail(q)) = Len(q) - 1 /\ Len(q) \in Nat \ {0}
      /\ \A i \in 1..Len(q) - 1 : Tail(q)[i] = q[i + 1]
  OBVIOUS
<1>2. r = Tail(q) \o t
  BY DEF Enqueue
<1>. DEFINE p == Tail(q)
<1>3. /\ r \in Seq(S) /\ Len(r) = Len(p) + Len(t)
      /\ \A i \in 1..Len(p) + Len(t) : r[i] = IF i <= Len(p) THEN p[i] ELSE t[i - Len(p)]
  <2>1. p \in Seq(S)
    BY <1>1
  <2>2. r = p \o t
    BY <1>2
  <2>. HIDE DEF p
  <2>. QED
    BY <2>1, <2>2, ConcatProperties, ZenonT(60)
<1>4. Len(t) \in Nat /\ Len(p) \in Nat
  BY <1>1
<1>5. ASSUME NEW i \in 1..Len(r)
      PROVE  \/ i + 1 \in 1..Len(q) /\ r[i] = q[i + 1]
             \/ /\ i - (Len(q) - 1) \in 1..Len(t)
                /\ r[i] = t[i - (Len(q) - 1)]
  BY <1>1, <1>3, <1>4
<1>6. ASSUME NEW i \in 2..Len(q) PROVE i - 1 \in 1..Len(r) /\ r[i - 1] = q[i]
  BY <1>1, <1>3, <1>4
<1>7. ASSUME NEW i \in 1..Len(t)
      PROVE  i + (Len(q) - 1) \in 1..Len(r) /\ r[i + (Len(q) - 1)] = t[i]
  BY <1>1, <1>3, <1>4
<1>. QED
  BY <1>1, <1>3, <1>5, <1>6, <1>7

(* One visit: the next node of the queue goes, and what is adjacent to it and
   new is found and queued, one layer on. *)
LEMMA VisitKeeps ==
  ASSUME NEW g, IsFiniteSet(g), NEW src \in NodesOf(g), NEW L \in Nat,
         NEW w, Layered(g, src, L, w),
         NEW s, SearchSound(g, src, L, w, s), s.queue # <<>>,
         NEW t, t = Visit(g, s, src, L)
  PROVE  /\ SearchSound(g, src, L, w, t)
         /\ s.queue[1].node \notin Visited(s, src)
         /\ Visited(t, src) = Visited(s, src) \cup {s.queue[1].node}
<1>. DEFINE q == s.queue
            c == q[1].node
            d == q[1].depth
            new == IF d >= L THEN {} ELSE Adjacent(g, c) \ FoundBy(s, src)
            E == {[node |-> n, depth |-> d + 1] : n \in new}
            f == SetToSeq(E)
            r == Enqueue(Tail(q), f)
            edge(n) == CHOOSE e \in Touching(g, c) : OtherEnd(e, c) = n
<1>1. /\ q \in Seq([node : NodesOf(g), depth : 0..L]) /\ Len(q) \in Nat \ {0} /\ 1 \in 1..Len(q)
      /\ c \in NodesOf(g) /\ d \in 0..L /\ c \in w[d].frontier /\ c \in FoundBy(s, src)
      /\ w[d].seen \subseteq FoundBy(s, src) /\ c = q[1].node /\ d = q[1].depth
  <2>1. q \in Seq([node : NodesOf(g), depth : 0..L]) /\ q # <<>>
    BY DEF SearchSound, QueueSound
  <2>2. Len(q) \in Nat \ {0} /\ 1 \in 1..Len(q) /\ q[1] \in [node : NodesOf(g), depth : 0..L]
    <3>. HIDE DEF q
    <3>. QED
      BY <2>1, PlacesOf
  <2>. QED
    BY <2>1, <2>2 DEF SearchSound, QueueSound, Swept
<1>0. ASSUME NEW i \in 1..Len(q)
      PROVE  /\ q[i].node \in FoundBy(s, src) /\ q[i].node \in w[q[i].depth].frontier
             /\ q[i].depth \in 0..L /\ d <= q[i].depth /\ q[i].depth <= d + 1
  <2>1. q[i] \in [node : NodesOf(g), depth : 0..L]
    BY <1>1, PlacesOf
  <2>2. 1 <= i /\ 1 \in 1..Len(q)
    BY <1>1
  <2>. QED
    BY <2>1, <2>2 DEF SearchSound, QueueSound
<1>2. t.queue = r /\ t.via = [n \in DOMAIN s.via \cup new |->
                               IF n \in new THEN edge(n) ELSE s.via[n]]
  <2>1. Head(q) = q[1]
    BY <1>1
  <2>. QED
    BY <2>1 DEF Visit, FoundBy
<1>. HIDE DEF c, d
<1>30. d \in Nat /\ d \in 0..L /\ Len(q) \in Nat \ {0}
  BY <1>1
<1>3. new \subseteq NodesOf(g) /\ IsFiniteSet(new) /\ new \cap FoundBy(s, src) = {}
  <2>1. new \subseteq NodesOf(g)
    BY NodesAreFinite
  <2>. QED
    BY <2>1, NodesAreFinite, FS_Subset
<1>4. ASSUME NEW n \in new PROVE d + 1 \in 1..L /\ d < L /\ n \in w[d + 1].frontier
  <2>1. d < L /\ n \in Adjacent(g, c) /\ n \notin FoundBy(s, src)
    BY <1>1, <1>4
  <2>2. d + 1 \in 1..L /\ d + 1 \in 0..L /\ (d + 1) - 1 = d
    BY <1>1, <2>1
  <2>3. c \in w[d].seen
    <3>1. d \in 0..d
      BY <1>1
    <3>. QED
      BY <1>1, <3>1 DEF Layered
  <2>4. n \in w[d + 1].seen
    BY <2>1, <2>2, <2>3 DEF Layered
  <2>5. PICK k \in 0..d + 1 : n \in w[k].frontier
    BY <2>2, <2>4 DEF Layered
  <2>6. k = d + 1
    <3>1. SUFFICES ASSUME k \in 0..d PROVE FALSE
      BY <1>1, <2>5
    <3>2. n \in w[d].seen
      BY <1>1, <2>5, <3>1 DEF Layered
    <3>. QED
      BY <1>1, <2>1, <3>2
  <2>. QED
    BY <2>1, <2>2, <2>5, <2>6
<1>5. ASSUME NEW n \in new
      PROVE  /\ edge(n) \in Touching(g, c) /\ OtherEnd(edge(n), n) = c
             /\ OtherEnd(edge(n), c) = n
  <2>1. \E e \in Touching(g, c) : OtherEnd(e, c) = n
    BY <1>5 DEF Adjacent
  <2>2. edge(n) \in Touching(g, c) /\ OtherEnd(edge(n), c) = n
    BY <2>1
  <2>3. edge(n) \in g
    BY <2>2 DEF Touching
  <2>. QED
    BY <2>2, <2>3, EdgesLeadBack
<1>6. /\ f \in Seq([node : NodesOf(g), depth : 0..L])
      /\ \A i \in 1..Len(f) : f[i].depth = d + 1 /\ f[i].node \in new
      /\ \A i, j \in 1..Len(f) : f[i].node = f[j].node => i = j
      /\ \A n \in new : \E i \in 1..Len(f) : f[i].node = n
  <2>. DEFINE rec == [n \in new |-> [node |-> n, depth |-> d + 1]]
  <2>1. rec \in Surjection(new, E)
    BY DEF Surjection
  <2>2. IsFiniteSet(E)
    BY <1>3, <2>1, FS_Surjection
  <2>3. E \subseteq [node : NodesOf(g), depth : 0..L]
    BY <1>3, <1>4
  <2>4. \A x \in E : x.depth = d + 1 /\ x.node \in new
    OBVIOUS
  <2>5. \A x, y \in E : x.node = y.node => x = y
    OBVIOUS
  <2>6. \A n \in new : \E x \in E : x.node = n
    <3>. TAKE n \in new
    <3>. WITNESS [node |-> n, depth |-> d + 1] \in E
    <3>. QED
      OBVIOUS
  <2>9. f = SetToSeq(E)
    OBVIOUS
  <2>. HIDE DEF E, new, f
  <2>7. /\ f \in Seq(E) /\ \A i \in 1..Len(f) : f[i] \in E
        /\ \A i, j \in 1..Len(f) : f[i] = f[j] => i = j
        /\ \A x \in E : \E i \in 1..Len(f) : f[i] = x
    BY <2>2, <2>9, SetToSeqIs, PlacesOf
  <2>8. f \in Seq([node : NodesOf(g), depth : 0..L])
    BY <2>3, <2>7, SeqMonotonic
  <2>10. ASSUME NEW i \in 1..Len(f), NEW j \in 1..Len(f), f[i].node = f[j].node PROVE i = j
    BY <2>5, <2>7, <2>10
  <2>11. ASSUME NEW n \in new PROVE \E i \in 1..Len(f) : f[i].node = n
    BY <2>6, <2>7, <2>11
  <2>. QED
    BY <2>4, <2>7, <2>8, <2>10, <2>11
<1>. HIDE DEF f, E
<1>7. /\ r \in Seq([node : NodesOf(g), depth : 0..L]) /\ Len(r) = Len(q) - 1 + Len(f)
      /\ \A i \in 1..Len(r) : \/ i + 1 \in 1..Len(q) /\ r[i] = q[i + 1]
                              \/ /\ i - (Len(q) - 1) \in 1..Len(f)
                                 /\ r[i] = f[i - (Len(q) - 1)]
      /\ \A i \in 2..Len(q) : i - 1 \in 1..Len(r) /\ r[i - 1] = q[i]
      /\ \A i \in 1..Len(f) : /\ i + (Len(q) - 1) \in 1..Len(r)
                              /\ r[i + (Len(q) - 1)] = f[i]
  <2>1. q # <<>> /\ r = Enqueue(Tail(q), f)
    OBVIOUS
  <2>. DEFINE T == [node : NodesOf(g), depth : 0..L]
  <2>2. q \in Seq(T) /\ f \in Seq(T)
    BY <1>1, <1>6
  <2>. HIDE DEF q, r, T
  <2>3. /\ r \in Seq(T) /\ Len(r) = Len(q) - 1 + Len(f)
        /\ \A i \in 1..Len(r) : \/ i + 1 \in 1..Len(q) /\ r[i] = q[i + 1]
                                \/ /\ i - (Len(q) - 1) \in 1..Len(f)
                                   /\ r[i] = f[i - (Len(q) - 1)]
        /\ \A i \in 2..Len(q) : i - 1 \in 1..Len(r) /\ r[i - 1] = q[i]
        /\ \A i \in 1..Len(f) : /\ i + (Len(q) - 1) \in 1..Len(r)
                                /\ r[i + (Len(q) - 1)] = f[i]
    BY <2>1, <2>2, QueueMoves
  <2>. QED
    BY <2>3 DEF T
<1>. HIDE DEF r, new, edge
<1>8. FoundBy(t, src) = FoundBy(s, src) \cup new
  BY <1>2 DEF FoundBy
<1>. DEFINE Old(i) == i + 1 \in 1..Len(q) /\ r[i] = q[i + 1]
            Fresh(i) == i - (Len(q) - 1) \in 1..Len(f) /\ r[i] = f[i - (Len(q) - 1)]
<1>9. \A i \in 1..Len(r) : Old(i) \/ Fresh(i)
  BY <1>7
<1>10. \A i, j \in 1..Len(q) : q[i].node = q[j].node => i = j
  BY DEF SearchSound, QueueSound
<1>11. Waiting(t) = (Waiting(s) \ {c}) \cup new
  <2>1. ASSUME NEW x \in Waiting(t) PROVE x \in (Waiting(s) \ {c}) \cup new
    <3>1. PICK i \in 1..Len(r) : x = r[i].node
      BY <1>2, <2>1 DEF Waiting
    <3>2. CASE Old(i)
      <4>1. x = q[i + 1].node /\ i + 1 \in 1..Len(q) /\ i + 1 # 1
        BY <3>1, <3>2
      <4>2. x # c
        BY <1>1, <1>10, <4>1
      <4>. QED
        BY <4>1, <4>2 DEF Waiting
    <3>3. CASE Fresh(i)
      BY <1>6, <3>1, <3>3
    <3>. QED
      BY <1>9, <3>2, <3>3
  <2>2. ASSUME NEW x \in Waiting(s), x # c PROVE x \in Waiting(t)
    <3>1. PICK i \in 1..Len(q) : x = q[i].node
      BY <2>2 DEF Waiting
    <3>2. i \in 2..Len(q)
      <4>1. i # 1
        BY <1>1, <2>2, <3>1
      <4>. QED
        BY <1>30, <4>1
    <3>3. i - 1 \in 1..Len(r) /\ r[i - 1].node = x
      BY <1>7, <3>1, <3>2
    <3>. QED
      BY <1>2, <3>3 DEF Waiting
  <2>3. ASSUME NEW x \in new PROVE x \in Waiting(t)
    <3>1. PICK i \in 1..Len(f) : f[i].node = x
      BY <1>6, <2>3
    <3>2. i + (Len(q) - 1) \in 1..Len(r) /\ r[i + (Len(q) - 1)].node = x
      BY <1>7, <3>1
    <3>. QED
      BY <1>2, <3>2 DEF Waiting
  <2>. QED
    BY <2>1, <2>2, <2>3
<1>12. c \in Waiting(s) /\ c \notin new
  BY <1>1, <1>3 DEF Waiting
<1>13. Visited(t, src) = Visited(s, src) \cup {c} /\ c \notin Visited(s, src)
  BY <1>1, <1>3, <1>8, <1>11, <1>12 DEF Visited
<1>14. ViaSound(g, src, L, w, t)
  <2>1. DOMAIN t.via = DOMAIN s.via \cup new
    BY <1>2
  <2>2. DOMAIN t.via \subseteq NodesOf(g) /\ src \notin DOMAIN t.via
    BY <1>3, <2>1 DEF SearchSound, ViaSound, FoundBy
  <2>3. ASSUME NEW n \in new
        PROVE  /\ t.via[n] \in Touching(g, OtherEnd(t.via[n], n))
               /\ OtherEnd(t.via[n], OtherEnd(t.via[n], n)) = n
               /\ OtherEnd(t.via[n], n) \in FoundBy(t, src)
               /\ \E k \in 1..L : n \in w[k].frontier /\ OtherEnd(t.via[n], n) \in w[k - 1].frontier
    <3>1. t.via[n] = edge(n)
      BY <1>2
    <3>2. /\ t.via[n] \in Touching(g, c) /\ OtherEnd(t.via[n], n) = c
          /\ OtherEnd(t.via[n], c) = n
      BY <1>5, <3>1
    <3>3. d + 1 \in 1..L /\ n \in w[d + 1].frontier /\ c \in w[(d + 1) - 1].frontier
      <4>1. (d + 1) - 1 = d
        BY <1>1
      <4>. QED
        BY <1>1, <1>4, <4>1
    <3>. QED
      BY <1>1, <1>8, <3>2, <3>3
  <2>4. ASSUME NEW n \in DOMAIN s.via, n \notin new
        PROVE  /\ t.via[n] \in Touching(g, OtherEnd(t.via[n], n))
               /\ OtherEnd(t.via[n], OtherEnd(t.via[n], n)) = n
               /\ OtherEnd(t.via[n], n) \in FoundBy(t, src)
               /\ \E k \in 1..L : n \in w[k].frontier /\ OtherEnd(t.via[n], n) \in w[k - 1].frontier
    <3>1. t.via[n] = s.via[n]
      BY <1>2, <2>4
    <3>. QED
      BY <1>8, <3>1 DEF SearchSound, ViaSound
  <2>. QED
    BY <2>1, <2>2, <2>3, <2>4 DEF ViaSound
<1>15. ASSUME NEW i \in 1..Len(r)
       PROVE  /\ r[i].node \in FoundBy(t, src) /\ r[i].node \in w[r[i].depth].frontier
              /\ r[i].depth \in {d, d + 1}
  <2>1. CASE Old(i)
    <3>1. /\ q[i + 1].node \in FoundBy(s, src) /\ q[i + 1].node \in w[q[i + 1].depth].frontier
          /\ q[i + 1].depth \in 0..L /\ d <= q[i + 1].depth /\ q[i + 1].depth <= d + 1
      BY <1>0, <2>1
    <3>2. q[i + 1].depth \in {d, d + 1}
      BY <1>30, <3>1
    <3>. QED
      BY <1>8, <2>1, <3>1, <3>2
  <2>2. CASE Fresh(i)
    <3>1. r[i].depth = d + 1 /\ r[i].node \in new
      BY <1>6, <2>2
    <3>. QED
      BY <1>4, <1>8, <3>1
  <2>. QED
    BY <1>9, <2>1, <2>2
<1>16. ASSUME NEW i \in 1..Len(r), NEW j \in 1..Len(r), r[i].node = r[j].node PROVE i = j
  <2>1. CASE Old(i) /\ Old(j)
    <3>1. i + 1 = j + 1
      BY <1>10, <1>16, <2>1
    <3>. QED
      BY <3>1
  <2>2. CASE Fresh(i) /\ Fresh(j)
    <3>. DEFINE x == i - (Len(q) - 1)
                y == j - (Len(q) - 1)
    <3>1. x \in 1..Len(f) /\ y \in 1..Len(f) /\ f[x].node = f[y].node
      BY <1>16, <2>2
    <3>2. x = y
      <4>. HIDE DEF x, y
      <4>. QED
        BY <1>6, <3>1
    <3>. QED
      BY <1>30, <3>2
  <2>3. \A x, y \in 1..Len(r) : Old(x) /\ Fresh(y) => r[x].node # r[y].node
    <3>. SUFFICES ASSUME NEW x \in 1..Len(r), NEW y \in 1..Len(r), Old(x), Fresh(y)
                  PROVE  r[x].node # r[y].node
      OBVIOUS
    <3>1. r[x].node \in FoundBy(s, src)
      BY DEF SearchSound, QueueSound
    <3>2. r[y].node \in new
      BY <1>6
    <3>. QED
      BY <1>3, <3>1, <3>2
  <2>. QED
    BY <1>9, <1>16, <2>1, <2>2, <2>3
<1>17. ASSUME NEW i \in 1..Len(r), NEW j \in 1..Len(r), i <= j PROVE r[i].depth <= r[j].depth
  <2>1. CASE Old(i) /\ Old(j)
    <3>1. i + 1 <= j + 1
      BY <1>17
    <3>. QED
      BY <2>1, <3>1 DEF SearchSound, QueueSound
  <2>2. CASE Fresh(j)
    <3>1. r[j].depth = d + 1
      BY <1>6, <2>2
    <3>2. r[i].depth = d \/ r[i].depth = d + 1
      BY <1>15
    <3>. QED
      BY <1>30, <3>1, <3>2
  <2>3. CASE Fresh(i) /\ Old(j)
    <3>1. i - (Len(q) - 1) >= 1 /\ j + 1 <= Len(q)
      BY <1>1, <1>6, <2>3
    <3>. QED
      BY <1>1, <1>17, <3>1
  <2>. QED
    BY <1>9, <2>1, <2>2, <2>3
<1>18. QueueSound(g, src, L, w, t)
  <2>1. ASSUME NEW j \in 1..Len(r) PROVE r[j].depth <= r[1].depth + 1
    <3>1. 1 \in 1..Len(r)
      BY <1>7
    <3>2. /\ r[1].depth = d \/ r[1].depth = d + 1
          /\ r[j].depth = d \/ r[j].depth = d + 1
      BY <1>15, <3>1
    <3>. QED
      BY <1>30, <3>2
  <2>. QED
    BY <1>2, <1>7, <1>15, <1>16, <1>17, <2>1 DEF QueueSound
<1>19. ASSUME NEW p \in Visited(t, src), NEW k \in 0..L - 1, p \in w[k].frontier
       PROVE  Adjacent(g, p) \subseteq FoundBy(t, src)
  <2>1. CASE p \in Visited(s, src)
    BY <1>8, <1>19, <2>1 DEF SearchSound, Swept
  <2>2. CASE p = c
    <3>1. k = d
      <4>1. k \in 0..L /\ d \in 0..L
        BY <1>1
      <4>. QED
        BY <1>1, <1>19, <2>2, <4>1 DEF Layered
    <3>2. new = Adjacent(g, c) \ FoundBy(s, src)
      BY <1>1, <3>1 DEF new
    <3>. QED
      BY <1>8, <2>2, <3>2
  <2>. QED
    BY <1>13, <2>1, <2>2
<1>20. ASSUME r # <<>> PROVE w[r[1].depth].seen \subseteq FoundBy(t, src)
  <2>1. 1 \in 1..Len(r) /\ r[1].depth \in 0..L
    <3>1. r \in Seq([node : NodesOf(g), depth : 0..L]) /\ r # <<>>
      BY <1>7, <1>20
    <3>2. 1 \in 1..Len(r) /\ r[1] \in [node : NodesOf(g), depth : 0..L]
      BY <3>1, PlacesOf
    <3>. QED
      BY <3>2
  <2>2. CASE r[1].depth = d
    BY <1>1, <1>8, <2>2
  <2>3. CASE r[1].depth = d + 1
    <3>. SUFFICES ASSUME NEW x \in w[d + 1].seen PROVE x \in FoundBy(t, src)
      BY <2>3
    <3>1. d + 1 \in 0..L /\ d + 1 \in 1..L /\ d \in 0..L - 1 /\ (d + 1) - 1 = d
      <4>1. d + 1 \in 0..L
        BY <2>1, <2>3
      <4>. QED
        BY <1>30, <4>1
    <3>2. PICK k \in 0..d + 1 : x \in w[k].frontier
      BY <3>1 DEF Layered
    <3>3. CASE k \in 0..d
      <4>1. x \in w[d].seen
        BY <1>1, <3>2, <3>3 DEF Layered
      <4>. QED
        BY <1>1, <1>8, <4>1
    <3>4. CASE k = d + 1
      <4>1. PICK p \in w[d].frontier : x \in Adjacent(g, p)
        BY <3>1, <3>2, <3>4 DEF Layered
      <4>2. p \in FoundBy(t, src)
        <5>1. d \in 0..d
          BY <1>1
        <5>2. p \in w[d].seen
          BY <1>1, <4>1, <5>1 DEF Layered
        <5>. QED
          BY <1>1, <1>8, <5>2
      <4>3. p \notin Waiting(t)
        <5>. SUFFICES ASSUME p \in Waiting(t) PROVE FALSE
          OBVIOUS
        <5>1. PICK i \in 1..Len(r) : p = r[i].node
          BY <1>2 DEF Waiting
        <5>2. 1 <= i
          OBVIOUS
        <5>3. r[1].depth <= r[i].depth /\ r[i].depth \in {d, d + 1} /\ p \in w[r[i].depth].frontier
          BY <1>15, <1>17, <2>1, <5>1, <5>2
        <5>4. r[i].depth = d + 1
          BY <1>1, <2>3, <5>3
        <5>5. d \in 0..L /\ d + 1 \in 0..L /\ d # d + 1
          BY <1>1, <3>1, SMTT(30)
        <5>. QED
          BY <4>1, <5>3, <5>4, <5>5 DEF Layered
      <4>. QED
        BY <1>19, <3>1, <4>1, <4>2, <4>3 DEF Visited
    <3>. QED
      BY <1>1, <3>2, <3>3, <3>4
  <2>. QED
    BY <1>15, <2>1, <2>2, <2>3
<1>21. Swept(g, src, L, w, t)
  BY <1>2, <1>19, <1>20 DEF Swept
<1>22. SearchSound(g, src, L, w, t)
  BY <1>14, <1>18, <1>21 DEF SearchSound
<1>. QED
  BY <1>1, <1>13, <1>22

-----------------------------------------------------------------------------
(* Where the search starts, when it stops, and its first N steps. *)
Start(src) == [queue |-> <<[node |-> src, depth |-> 0]>>, via |-> <<>>]
Stopped(s, src, dst) == s.queue = <<>> \/ dst \in {src} \cup DOMAIN s.via
Advanced(g, src, dst, L, s) == IF Stopped(s, src, dst) THEN s ELSE Visit(g, s, src, L)
Steps(g, src, dst, L, N, h) ==
  h = [i \in 0..N |-> IF i = 0 THEN Start(src) ELSE Advanced(g, src, dst, L, h[i - 1])]

(* The steps of the search are a function. *)
LEMMA StepsExist ==
  ASSUME NEW g, NEW src, NEW dst, NEW L, NEW N \in Nat
  PROVE  \E h : Steps(g, src, dst, L, N, h)
<1>. DEFINE Defined(n) == \E h : Steps(g, src, dst, L, n, h)
            Bad == {n \in 0..N : ~ Defined(n)}
<1>1. SUFFICES ASSUME N \in Bad PROVE FALSE
  OBVIOUS
<1>2. Bad \in SUBSET Nat /\ Bad # {}
  <2>. HIDE DEF Defined
  <2>. QED
    BY <1>1
<1>3. PICK n \in Bad : \A m \in Bad : n <= m
  <2>. HIDE DEF Bad
  <2>. QED
    BY <1>2, HasLeast
<1>4. n # 0
  <2>1. Steps(g, src, dst, L, 0, [i \in 0..0 |-> Start(src)])
    BY DEF Steps
  <2>. QED
    BY <1>3, <2>1
<1>5. PICK h : Steps(g, src, dst, L, n - 1, h)
  <2>1. n - 1 \in 0..N /\ ~ (n <= n - 1)
    BY <1>3, <1>4
  <2>2. n - 1 \notin Bad
    BY <1>3, <2>1
  <2>. QED
    BY <2>1, <2>2
<1>. DEFINE v == [i \in 0..n |-> IF i = n THEN Advanced(g, src, dst, L, h[n - 1]) ELSE h[i]]
<1>6. ASSUME NEW i \in 0..n
      PROVE  v[i] = IF i = 0 THEN Start(src) ELSE Advanced(g, src, dst, L, v[i - 1])
  <2>1. CASE i = n
    <3>1. v[i] = Advanced(g, src, dst, L, h[n - 1]) /\ v[n - 1] = h[n - 1]
      BY <1>3, <1>4, <2>1
    <3>. QED
      BY <1>4, <2>1, <3>1
  <2>2. CASE i # n
    <3>1. i \in 0..n - 1
      BY <1>3, <2>2
    <3>2. v[i] = h[i] /\ (i # 0 => v[i - 1] = h[i - 1])
      BY <1>3, <2>2
    <3>3. h[i] = IF i = 0 THEN Start(src) ELSE Advanced(g, src, dst, L, h[i - 1])
      BY <1>5, <3>1 DEF Steps
    <3>. QED
      BY <3>2, <3>3
  <2>. QED
    BY <2>1, <2>2
<1>7. Steps(g, src, dst, L, n, v)
  BY <1>6 DEF Steps
<1>. QED
  BY <1>3, <1>7

(* The search starts with nothing visited. *)
LEMMA StartSound ==
  ASSUME NEW g, NEW src \in NodesOf(g), NEW L \in Nat, NEW w, Layered(g, src, L, w)
  PROVE  SearchSound(g, src, L, w, Start(src)) /\ Visited(Start(src), src) = {}
<1>. DEFINE s == Start(src)
            first == [node |-> src, depth |-> 0]
            T == [node : NodesOf(g), depth : 0..L]
<1>1. s.queue = <<first>> /\ s.via = <<>> /\ first.node = src /\ first.depth = 0 /\ first \in T
  BY DEF Start
<1>2. DOMAIN s.via = {}
  BY <1>1
<1>. HIDE DEF s, first, T
<1>3. s.queue \in Seq(T) /\ Len(s.queue) = 1 /\ s.queue[1] = first /\ s.queue # <<>>
  BY <1>1
<1>4. FoundBy(s, src) = {src}
  BY <1>2 DEF FoundBy
<1>5. \A i : i \in 1..Len(s.queue) <=> i = 1
  BY <1>3
<1>6. src \in w[0].frontier /\ w[0].seen = {src}
  BY DEF Layered
<1>7. ViaSound(g, src, L, w, s)
  BY <1>2 DEF ViaSound
<1>8. QueueSound(g, src, L, w, s)
  BY <1>1, <1>3, <1>4, <1>5, <1>6 DEF QueueSound, T
<1>9. Waiting(s) = {src}
  <2>1. 1 \in 1..Len(s.queue) /\ s.queue[1].node = src
    BY <1>1, <1>3, <1>5
  <2>2. \A i \in 1..Len(s.queue) : s.queue[i].node = src
    BY <1>1, <1>3, <1>5
  <2>. QED
    BY <2>1, <2>2 DEF Waiting
<1>10. Visited(s, src) = {}
  BY <1>4, <1>9 DEF Visited
<1>11. Swept(g, src, L, w, s)
  BY <1>1, <1>3, <1>4, <1>6, <1>10 DEF Swept
<1>12. SearchSound(g, src, L, w, s) /\ Visited(s, src) = {}
  BY <1>7, <1>8, <1>10, <1>11 DEF SearchSound
<1>. QED
  BY <1>12 DEF s

(* After so many steps so many nodes were visited, or the search has stopped. *)
LEMMA SearchCounts ==
  ASSUME NEW g, IsFiniteSet(g), NEW src \in NodesOf(g), NEW dst, NEW L \in Nat,
         NEW w, Layered(g, src, L, w), NEW N \in Nat, NEW h, Steps(g, src, dst, L, N, h)
  PROVE  /\ SearchSound(g, src, L, w, h[N])
         /\ Stopped(h[N], src, dst) \/ Cardinality(Visited(h[N], src)) = N
<1>. DEFINE Good(n) == /\ SearchSound(g, src, L, w, h[n])
                       /\ Stopped(h[n], src, dst) \/ Cardinality(Visited(h[n], src)) = n
            Bad == {n \in 0..N : ~ Good(n)}
<1>1. SUFFICES ASSUME N \in Bad PROVE FALSE
  OBVIOUS
<1>2. PICK n \in Bad : \A m \in Bad : n <= m
  <2>1. Bad \in SUBSET Nat /\ Bad # {}
    <3>. HIDE DEF Good
    <3>. QED
      BY <1>1
  <2>. HIDE DEF Bad
  <2>. QED
    BY <2>1, HasLeast
<1>3. n # 0
  <2>1. h[0] = Start(src)
    BY DEF Steps
  <2>2. Good(0)
    BY <2>1, StartSound, FS_EmptySet
  <2>. HIDE DEF Good
  <2>. QED
    BY <1>2, <2>2
<1>4. Good(n - 1) /\ n \in 1..N
  <2>. HIDE DEF Good
  <2>1. n - 1 \in 0..N /\ n \in 1..N /\ ~ (n <= n - 1)
    BY <1>2, <1>3
  <2>2. n - 1 \notin Bad
    BY <1>2, <2>1
  <2>. QED
    BY <2>1, <2>2
<1>. DEFINE s == h[n - 1]
<1>5. h[n] = Advanced(g, src, dst, L, s)
  BY <1>3, <1>4 DEF Steps
<1>6. CASE Stopped(s, src, dst)
  <2>1. h[n] = s
    BY <1>5, <1>6 DEF Advanced
  <2>2. Good(n)
    BY <1>4, <1>6, <2>1
  <2>. QED
    BY <1>2, <2>2
<1>7. CASE ~ Stopped(s, src, dst)
  <2>1. h[n] = Visit(g, s, src, L) /\ s.queue # <<>>
    BY <1>5, <1>7 DEF Advanced, Stopped
  <2>2. /\ SearchSound(g, src, L, w, h[n]) /\ s.queue[1].node \notin Visited(s, src)
        /\ Visited(h[n], src) = Visited(s, src) \cup {s.queue[1].node}
    BY <1>4, <2>1, VisitKeeps
  <2>3. Visited(s, src) \subseteq NodesOf(g)
    BY <1>4 DEF SearchSound, ViaSound, Visited, FoundBy
  <2>4. IsFiniteSet(Visited(s, src))
    BY <2>3, NodesAreFinite, FS_Subset
  <2>5. Cardinality(Visited(h[n], src)) = Cardinality(Visited(s, src)) + 1
    BY <2>2, <2>4, FS_AddElement
  <2>6. Cardinality(Visited(h[n], src)) = n
    BY <1>4, <1>7, <2>5
  <2>7. Good(n)
    BY <2>2, <2>6
  <2>. QED
    BY <1>2, <2>7
<1>. QED
  BY <1>6, <1>7

(* So it stops before it runs out of nodes. *)
LEMMA SearchStops ==
  ASSUME NEW g, IsFiniteSet(g), NEW src \in NodesOf(g), NEW dst, NEW L \in Nat,
         NEW w, Layered(g, src, L, w), NEW h,
         Steps(g, src, dst, L, Cardinality(NodesOf(g)), h)
  PROVE  /\ SearchSound(g, src, L, w, h[Cardinality(NodesOf(g))])
         /\ Stopped(h[Cardinality(NodesOf(g))], src, dst)
<1>. DEFINE N == Cardinality(NodesOf(g))
            s == h[N]
<1>1. IsFiniteSet(NodesOf(g)) /\ N \in Nat
  BY NodesAreFinite, FS_CardinalityType
<1>2. SearchSound(g, src, L, w, s) /\ (Stopped(s, src, dst) \/ Cardinality(Visited(s, src)) = N)
  BY <1>1, SearchCounts
<1>3. ASSUME ~ Stopped(s, src, dst) PROVE FALSE
  <2>1. Visited(s, src) \subseteq NodesOf(g) /\ FoundBy(s, src) \subseteq NodesOf(g)
    BY <1>2 DEF SearchSound, ViaSound, Visited, FoundBy
  <2>2. Visited(s, src) = NodesOf(g)
    BY <1>1, <1>2, <1>3, <2>1, FS_Subset
  <2>3. s.queue \in Seq([node : NodesOf(g), depth : 0..L]) /\ s.queue # <<>>
    BY <1>2, <1>3 DEF SearchSound, QueueSound, Stopped
  <2>4. 1 \in 1..Len(s.queue)
    BY <2>3, PlacesOf
  <2>5. s.queue[1].node \in Waiting(s) /\ s.queue[1].node \in FoundBy(s, src)
    BY <1>2, <2>4 DEF Waiting, SearchSound, QueueSound
  <2>. QED
    BY <2>1, <2>2, <2>5 DEF Visited
<1>. QED
  BY <1>2, <1>3

(* A search that stopped has found its destination, if a layer has it. *)
LEMMA StoppedHasFound ==
  ASSUME NEW g, NEW src, NEW L \in Nat, NEW w, Layered(g, src, L, w),
         NEW s, SearchSound(g, src, L, w, s), NEW dst, Stopped(s, src, dst),
         dst \in w[L].seen
  PROVE  dst \in FoundBy(s, src)
<1>. SUFFICES ASSUME dst \notin FoundBy(s, src) PROVE FALSE
  OBVIOUS
<1>1. s.queue = <<>>
  BY DEF Stopped, FoundBy
<1>2. Visited(s, src) = FoundBy(s, src)
  <2>1. \A i : i \notin 1..Len(s.queue)
    BY <1>1
  <2>. QED
    BY <2>1 DEF Visited, Waiting
<1>. DEFINE Bad == {k \in 0..L : \E x \in w[k].frontier : x \notin FoundBy(s, src)}
<1>3. PICK k \in Bad : \A m \in Bad : k <= m
  <2>1. L \in 0..L
    OBVIOUS
  <2>2. \E k \in 0..L : dst \in w[k].frontier
    BY <2>1 DEF Layered
  <2>3. Bad \in SUBSET Nat /\ Bad # {}
    BY <2>2
  <2>. HIDE DEF Bad
  <2>. QED
    BY <2>3, HasLeast
<1>4. PICK x \in w[k].frontier : x \notin FoundBy(s, src)
  BY <1>3
<1>5. k # 0
  BY <1>4 DEF Layered, FoundBy
<1>6. k \in 1..L /\ k - 1 \in 0..L - 1 /\ k - 1 \in 0..L /\ ~ (k <= k - 1)
  BY <1>3, <1>5
<1>7. PICK p \in w[k - 1].frontier : x \in Adjacent(g, p)
  BY <1>4, <1>6 DEF Layered
<1>8. p \in Visited(s, src)
  BY <1>2, <1>3, <1>6, <1>7
<1>9. Adjacent(g, p) \subseteq FoundBy(s, src)
  BY <1>6, <1>7, <1>8 DEF SearchSound, Swept
<1>. QED
  BY <1>4, <1>7, <1>9

(* What a search gives: each node by a triple from the layer before its own,
   the destination included if it is near enough. *)
LEMMA SearchIs ==
  ASSUME NEW g, IsFiniteSet(g), NEW src \in NodesOf(g), NEW dst, NEW L \in Nat,
         NEW w, Layered(g, src, L, w)
  PROVE  \E s : /\ s.via = Search(g, src, dst, L)
                /\ ViaSound(g, src, L, w, s)
                /\ dst \in w[L].seen => dst \in FoundBy(s, src)
<1>. DEFINE N == Cardinality(NodesOf(g))
            h == CHOOSE h : Steps(g, src, dst, L, N, h)
<1>1. N \in Nat
  BY NodesAreFinite, FS_CardinalityType
<1>2. Steps(g, src, dst, L, N, h)
  BY <1>1, StepsExist
<1>3. Search(g, src, dst, L) = h[N].via
  BY DEF Search, Steps, Advanced, Stopped, Start
<1>. HIDE DEF h
<1>4. SearchSound(g, src, L, w, h[N]) /\ Stopped(h[N], src, dst)
  BY <1>2, SearchStops
<1>5. dst \in w[L].seen => dst \in FoundBy(h[N], src)
  BY <1>4, StoppedHasFound
<1>. QED
  BY <1>3, <1>4, <1>5 DEF SearchSound

-----------------------------------------------------------------------------
(* The path to a node, back from it by what found it. *)
PathsBack(via, src, S, e) ==
  e = [n \in S |-> IF n = src THEN <<>> ELSE Append(e[OtherEnd(via[n], n)], via[n])]

(* Those who were found so near. *)
Near(s, src, w, k) == FoundBy(s, src) \cap w[k].seen

(* A node that was found is in a layer, and what found it in the one before. *)
LEMMA ParentIsNearer ==
  ASSUME NEW g, NEW src, NEW L \in Nat, NEW w, Layered(g, src, L, w),
         NEW s, ViaSound(g, src, L, w, s), NEW k \in 1..L, NEW n \in Near(s, src, w, k), n # src
  PROVE  /\ n \in DOMAIN s.via
         /\ OtherEnd(s.via[n], n) \in Near(s, src, w, k - 1)
<1>1. n \in DOMAIN s.via /\ n \in w[k].seen
  BY DEF Near, FoundBy
<1>2. PICK j \in 1..L : n \in w[j].frontier /\ OtherEnd(s.via[n], n) \in w[j - 1].frontier
  BY <1>1 DEF ViaSound
<1>3. PICK m \in 0..k : n \in w[m].frontier
  BY <1>1 DEF Layered
<1>4. j = m
  <2>1. j \in 0..L /\ m \in 0..L
    OBVIOUS
  <2>. QED
    BY <1>2, <1>3, <2>1 DEF Layered
<1>5. k - 1 \in 0..L /\ j - 1 \in 0..k - 1
  BY <1>4
<1>6. OtherEnd(s.via[n], n) \in w[k - 1].seen
  BY <1>2, <1>5 DEF Layered
<1>7. OtherEnd(s.via[n], n) \in FoundBy(s, src)
  BY <1>1 DEF ViaSound
<1>. QED
  BY <1>1, <1>6, <1>7 DEF Near

(* The paths back are a function. *)
LEMMA PathsBackExist ==
  ASSUME NEW g, NEW src, NEW L \in Nat, NEW w, Layered(g, src, L, w),
         NEW s, ViaSound(g, src, L, w, s), NEW N \in 0..L
  PROVE  \E e : PathsBack(s.via, src, Near(s, src, w, N), e)
<1>. DEFINE S(n) == Near(s, src, w, n)
            Defined(n) == \E e : PathsBack(s.via, src, S(n), e)
            Bad == {n \in 0..N : ~ Defined(n)}
            back(n) == OtherEnd(s.via[n], n)
<1>1. SUFFICES ASSUME N \in Bad PROVE FALSE
  OBVIOUS
<1>2. Bad \in SUBSET Nat /\ Bad # {}
  <2>. HIDE DEF Defined
  <2>. QED
    BY <1>1
<1>3. PICK k \in Bad : \A m \in Bad : k <= m
  <2>. HIDE DEF Bad
  <2>. QED
    BY <1>2, HasLeast
<1>4. k # 0
  <2>1. S(0) = {src}
    BY DEF Near, FoundBy, Layered
  <2>2. PathsBack(s.via, src, {src}, [n \in {src} |-> <<>>])
    BY DEF PathsBack
  <2>. QED
    BY <1>3, <2>1, <2>2
<1>5. PICK e : PathsBack(s.via, src, S(k - 1), e)
  <2>1. k - 1 \in 0..N /\ ~ (k <= k - 1)
    BY <1>3, <1>4
  <2>2. k - 1 \notin Bad
    BY <1>3, <2>1
  <2>. QED
    BY <2>1, <2>2
<1>6. k \in 1..L /\ k - 1 \in 0..L
  BY <1>3, <1>4
<1>7. \A n \in S(k) : n # src => back(n) \in S(k - 1)
  BY <1>6, ParentIsNearer
<1>8. \A n \in S(k - 1) : n # src => back(n) \in S(k - 1)
  <2>. SUFFICES ASSUME NEW n \in S(k - 1), n # src PROVE back(n) \in S(k - 1)
    OBVIOUS
  <2>1. k - 1 # 0
    BY DEF Near, Layered
  <2>2. k - 1 \in 1..L /\ (k - 1) - 1 \in 0..L
    BY <1>6, <2>1
  <2>3. back(n) \in Near(s, src, w, (k - 1) - 1)
    BY <2>2, ParentIsNearer
  <2>4. PICK j \in 0..(k - 1) - 1 : back(n) \in w[j].frontier
    BY <2>2, <2>3 DEF Near, Layered
  <2>5. j \in 0..k - 1
    BY <1>6
  <2>6. back(n) \in w[k - 1].seen
    BY <1>6, <2>4, <2>5 DEF Layered
  <2>. QED
    BY <2>3, <2>6 DEF Near
<1>9. src \in S(k - 1)
  <2>1. 0 \in 0..k - 1
    BY <1>6
  <2>2. src \in w[k - 1].seen
    BY <1>6, <2>1 DEF Layered
  <2>. QED
    BY <2>2 DEF Near, FoundBy
<1>. DEFINE f == [n \in S(k) |-> IF n \in S(k - 1) THEN e[n]
                                 ELSE Append(e[back(n)], s.via[n])]
<1>. HIDE DEF S, back
<1>10. S(k - 1) \subseteq S(k)
  <2>. SUFFICES ASSUME NEW n \in S(k - 1) PROVE n \in S(k)
    OBVIOUS
  <2>1. PICK j \in 0..k - 1 : n \in w[j].frontier
    BY <1>6 DEF S, Near, Layered
  <2>2. j \in 0..k /\ k \in 0..L
    BY <1>6
  <2>3. n \in w[k].seen
    BY <2>1, <2>2 DEF Layered
  <2>. QED
    BY <2>3 DEF S, Near
<1>11. ASSUME NEW n \in S(k)
       PROVE  f[n] = IF n = src THEN <<>> ELSE Append(f[back(n)], s.via[n])
  <2>1. CASE n = src
    BY <1>5, <1>9, <2>1 DEF PathsBack
  <2>2. CASE n # src /\ n \in S(k - 1)
    <3>1. e[n] = Append(e[back(n)], s.via[n])
      BY <1>5, <2>2 DEF PathsBack, back
    <3>2. f[n] = e[n] /\ f[back(n)] = e[back(n)]
      BY <1>8, <1>10, <2>2
    <3>. QED
      BY <2>2, <3>1, <3>2
  <2>3. CASE n # src /\ n \notin S(k - 1)
    <3>1. f[n] = Append(e[back(n)], s.via[n])
      BY <2>3
    <3>2. f[back(n)] = e[back(n)]
      BY <1>7, <1>10, <2>3
    <3>. QED
      BY <2>3, <3>1, <3>2
  <2>. QED
    BY <2>1, <2>2, <2>3
<1>12. PathsBack(s.via, src, S(k), f)
  BY <1>11 DEF PathsBack, back
<1>. QED
  BY <1>3, <1>12

(* The nodes along a path from a, a triple at a time. *)
Walks(a, path, r) ==
  r = [i \in 0..Len(path) |-> IF i = 0 THEN a ELSE OtherEnd(path[i], r[i - 1])]
(* A path of k stored triples from a to b. *)
Leads(g, path, a, b, k) ==
  /\ path \in Seq(g) /\ Len(path) = k
  /\ \E r : /\ Walks(a, path, r) /\ r[k] = b
            /\ \A i \in 1..k : path[i] \in Touching(g, r[i - 1])

(* A path has one walk along it. *)
LEMMA WalksUnique ==
  ASSUME NEW a, NEW path, Len(path) \in Nat, NEW r, NEW q, Walks(a, path, r), Walks(a, path, q)
  PROVE  \A i \in 0..Len(path) : q[i] = r[i]
<1>. DEFINE Bad == {i \in 0..Len(path) : q[i] # r[i]}
<1>1. SUFFICES ASSUME Bad # {} PROVE FALSE
  OBVIOUS
<1>2. PICK n \in Bad : \A m \in Bad : n <= m
  <2>1. Bad \in SUBSET Nat
    OBVIOUS
  <2>. HIDE DEF Bad
  <2>. QED
    BY <1>1, <2>1, HasLeast
<1>3. n \in 0..Len(path) /\ q[n] # r[n]
  BY <1>2
<1>4. n # 0
  BY <1>3 DEF Walks
<1>5. q[n - 1] = r[n - 1]
  BY <1>2, <1>3, <1>4
<1>6. q[n] = OtherEnd(path[n], q[n - 1]) /\ r[n] = OtherEnd(path[n], r[n - 1])
  BY <1>3, <1>4 DEF Walks
<1>. QED
  BY <1>3, <1>5, <1>6

(* So a path that leads somewhere is a chain of stored triples to there. *)
LEMMA LeadsIsChain ==
  ASSUME NEW g, NEW path, NEW a, NEW b, NEW k \in Nat, Leads(g, path, a, b, k)
  PROVE  IsChain(g, path, a, b)
<1>. DEFINE q == CHOOSE q : Walks(a, path, q)
<1>1. Len(path) = k
  BY DEF Leads
<1>2. PICK r : /\ Walks(a, path, r) /\ r[k] = b
               /\ \A i \in 1..k : path[i] \in Touching(g, r[i - 1])
  BY DEF Leads
<1>3. Walks(a, path, q)
  BY <1>2
<1>4. \A i \in 0..k : q[i] = r[i]
  <2>. HIDE DEF q
  <2>. QED
    BY <1>1, <1>2, <1>3, WalksUnique
<1>5. /\ \A i \in 1..Len(path) : path[i] \in Touching(g, q[i - 1])
      /\ q[Len(path)] = b
  <2>. HIDE DEF q
  <2>1. \A i \in 1..k : q[i - 1] = r[i - 1]
    BY <1>4
  <2>2. q[k] = r[k]
    BY <1>4
  <2>. QED
    BY <1>1, <1>2, <2>1, <2>2
<1>. QED
  BY <1>5 DEF IsChain, Walks

(* Extended by a triple it leads on. *)
LEMMA LeadsOn ==
  ASSUME NEW g, NEW path, NEW a, NEW p, NEW k \in Nat, Leads(g, path, a, p, k),
         NEW e \in Touching(g, p)
  PROVE  Leads(g, Append(path, e), a, OtherEnd(e, p), k + 1)
<1>. DEFINE more == Append(path, e)
<1>1. PICK r : /\ Walks(a, path, r) /\ r[k] = p
               /\ \A i \in 1..k : path[i] \in Touching(g, r[i - 1])
  BY DEF Leads
<1>2. e \in g
  BY DEF Touching
<1>3. /\ more \in Seq(g) /\ Len(more) = k + 1 /\ more[k + 1] = e
      /\ \A i \in 1..k : more[i] = path[i]
  BY <1>2 DEF Leads
<1>. DEFINE q == [i \in 0..k + 1 |-> IF i = k + 1 THEN OtherEnd(e, p) ELSE r[i]]
<1>4. q[k + 1] = OtherEnd(e, p) /\ \A i \in 0..k : q[i] = r[i]
  OBVIOUS
<1>. HIDE DEF more
<1>5. ASSUME NEW i \in 0..k + 1
      PROVE  q[i] = IF i = 0 THEN a ELSE OtherEnd(more[i], q[i - 1])
  <2>1. CASE i = k + 1
    <3>1. q[i - 1] = p /\ more[i] = e /\ i # 0
      BY <1>1, <1>3, <1>4, <2>1
    <3>. QED
      BY <1>4, <2>1, <3>1
  <2>2. CASE i # k + 1
    <3>1. i \in 0..k /\ q[i] = r[i]
      BY <1>4, <2>2
    <3>2. r[i] = IF i = 0 THEN a ELSE OtherEnd(path[i], r[i - 1])
      BY <1>1, <3>1 DEF Walks, Leads
    <3>3. i # 0 => more[i] = path[i] /\ q[i - 1] = r[i - 1]
      BY <1>3, <1>4, <3>1
    <3>. QED
      BY <3>1, <3>2, <3>3
  <2>. QED
    BY <2>1, <2>2
<1>6. Walks(a, more, q)
  BY <1>3, <1>5 DEF Walks
<1>7. ASSUME NEW i \in 1..k + 1 PROVE more[i] \in Touching(g, q[i - 1])
  <2>1. CASE i = k + 1
    <3>1. q[i - 1] = p /\ more[i] = e
      BY <1>1, <1>3, <1>4, <2>1
    <3>. QED
      BY <3>1
  <2>2. CASE i # k + 1
    <3>1. i \in 1..k /\ more[i] = path[i] /\ q[i - 1] = r[i - 1]
      BY <1>3, <1>4, <2>2
    <3>. QED
      BY <1>1, <3>1
  <2>. QED
    BY <2>1, <2>2
<1>8. Leads(g, more, a, OtherEnd(e, p), k + 1)
  BY <1>3, <1>4, <1>6, <1>7 DEF Leads
<1>. QED
  BY <1>8 DEF more

(* The path back to a node of a layer has as many triples as the layer is far. *)
LEMMA PathsBackLead ==
  ASSUME NEW g, NEW src, NEW L \in Nat, NEW w, Layered(g, src, L, w),
         NEW s, ViaSound(g, src, L, w, s), NEW e,
         PathsBack(s.via, src, FoundBy(s, src), e), NEW N \in 0..L
  PROVE  \A n \in FoundBy(s, src) : n \in w[N].frontier => Leads(g, e[n], src, n, N)
<1>. DEFINE Good(k) == \A n \in FoundBy(s, src) :
                         n \in w[k].frontier => Leads(g, e[n], src, n, k)
            Bad == {k \in 0..N : ~ Good(k)}
<1>1. SUFFICES ASSUME N \in Bad PROVE FALSE
  OBVIOUS
<1>2. PICK k \in Bad : \A m \in Bad : k <= m
  <2>1. Bad \in SUBSET Nat /\ Bad # {}
    <3>. HIDE DEF Good
    <3>. QED
      BY <1>1
  <2>. HIDE DEF Bad
  <2>. QED
    BY <2>1, HasLeast
<1>3. PICK n \in FoundBy(s, src) : n \in w[k].frontier /\ ~ Leads(g, e[n], src, n, k)
  BY <1>2
<1>4. k # 0
  <2>. SUFFICES ASSUME k = 0 PROVE FALSE
    OBVIOUS
  <2>1. n = src
    BY <1>3 DEF Layered
  <2>2. e[n] = <<>>
    BY <2>1 DEF PathsBack
  <2>3. Walks(src, <<>>, [i \in 0..0 |-> src])
    BY DEF Walks
  <2>4. <<>> \in Seq(g) /\ Len(<<>>) = 0
    OBVIOUS
  <2>5. Leads(g, <<>>, src, src, 0)
    BY <2>3, <2>4 DEF Leads
  <2>. QED
    BY <1>3, <2>1, <2>2, <2>5
<1>5. n # src /\ n \in DOMAIN s.via /\ k \in 0..L /\ k - 1 \in 0..N /\ ~ (k <= k - 1)
  <2>1. k \in 0..L /\ 0 \in 0..L
    BY <1>2
  <2>2. n # src
    BY <1>3, <1>4, <2>1 DEF Layered
  <2>. QED
    BY <1>2, <1>3, <1>4, <2>1, <2>2 DEF FoundBy
<1>. DEFINE p == OtherEnd(s.via[n], n)
<1>6. /\ s.via[n] \in Touching(g, p) /\ OtherEnd(s.via[n], p) = n /\ p \in FoundBy(s, src)
      /\ \E j \in 1..L : n \in w[j].frontier /\ p \in w[j - 1].frontier
  BY <1>5 DEF ViaSound
<1>. HIDE DEF p
<1>7. p \in w[k - 1].frontier
  <2>1. PICK j \in 1..L : n \in w[j].frontier /\ p \in w[j - 1].frontier
    BY <1>6
  <2>2. j = k
    <3>1. j \in 0..L
      OBVIOUS
    <3>. QED
      BY <1>3, <1>5, <2>1, <3>1 DEF Layered
  <2>. QED
    BY <2>1, <2>2
<1>8. Good(k - 1)
  <2>1. k - 1 \notin Bad
    BY <1>2, <1>5
  <2>. HIDE DEF Good
  <2>. QED
    BY <1>5, <2>1
<1>9. Leads(g, e[p], src, p, k - 1)
  BY <1>6, <1>7, <1>8
<1>10. e[n] = Append(e[p], s.via[n])
  BY <1>5 DEF PathsBack, p
<1>11. k - 1 \in Nat /\ (k - 1) + 1 = k
  BY <1>5
<1>12. Leads(g, e[n], src, n, (k - 1) + 1)
  BY <1>6, <1>9, <1>10, <1>11, LeadsOn
<1>. QED
  BY <1>3, <1>11, <1>12


-----------------------------------------------------------------------------
(* Depths within the bounds are left as they are. *)
LEMMA ClampIs == ASSUME NEW d \in 1..MaxDepth PROVE ClampDepth(d) = d
<1>1. Min({d, MaxDepth}) = d
  <2>1. \A x \in {d, MaxDepth} : d <= x
    BY DEF MaxDepth
  <2>2. \A y \in {d, MaxDepth} : (\A x \in {d, MaxDepth} : y <= x) => y = d
    BY DEF MaxDepth
  <2>. QED
    BY <2>1, <2>2 DEF Min
<1>2. Max({1, d}) = d
  <2>1. \A x \in {1, d} : d >= x
    BY DEF MaxDepth
  <2>2. \A y \in {1, d} : (\A x \in {1, d} : y >= x) => y = d
    BY DEF MaxDepth
  <2>. QED
    BY <2>1, <2>2 DEF Max
<1>. QED
  BY <1>1, <1>2 DEF ClampDepth

(* neighbors sees what so many rounds see. *)
LEMMA WithinIs ==
  ASSUME NEW g, NEW a \in NodesOf(g), NEW N \in 1..MaxDepth, NEW w,
         Waves(g, a, N, w), NEW d \in 1..N
  PROVE  Within(g, a, d) = w[d].seen
<1>. DEFINE v == CHOOSE v : Waves(g, a, d, v)
<1>1. d \in Nat /\ d \in 0..N /\ N \in Nat /\ d \in 1..MaxDepth
  BY DEF MaxDepth
<1>2. Waves(g, a, d, v)
  BY <1>1, WavesExist
<1>3. Within(g, a, d) = v[d].seen
  <2>1. ClampDepth(d) = d
    BY <1>1, ClampIs
  <2>. QED
    BY <2>1 DEF Within, Waves
<1>. HIDE DEF v
<1>4. v[d] = w[d]
  <2>1. \A i \in 0..d : v[i] = w[i]
    BY <1>1, <1>2, WavesUnique
  <2>. QED
    BY <1>1, <2>1
<1>. QED
  BY <1>3, <1>4

(* A path is found exactly to the nodes of the first layers, and has as many
   triples as the layer is far. *)
LEMMA PathIs ==
  ASSUME NEW g, IsFiniteSet(g), NEW a \in NodesOf(g), NEW b, b # a,
         NEW N \in 1..MaxDepth, NEW w, Layered(g, a, N, w)
  PROVE  \/ \E k \in 1..N : /\ b \in w[k].frontier
                                   /\ Leads(g, Path(g, a, b, N), a, b, k)
         \/ b \notin w[N].seen /\ Path(g, a, b, N) = <<>>
<1>1. N \in Nat /\ ClampDepth(N) = N /\ N \in 0..N
  BY ClampIs DEF MaxDepth
<1>2. PICK s : /\ s.via = Search(g, a, b, N)
               /\ ViaSound(g, a, N, w, s)
               /\ b \in w[N].seen => b \in FoundBy(s, a)
  BY <1>1, SearchIs
<1>3. Path(g, a, b, N) = IF b \in DOMAIN s.via THEN Reconstruct(s.via, a, b) ELSE <<>>
  BY <1>1, <1>2 DEF Path
<1>4. CASE b \in DOMAIN s.via
  <2>. DEFINE e == CHOOSE e : PathsBack(s.via, a, FoundBy(s, a), e)
  <2>1. Near(s, a, w, N) = FoundBy(s, a)
    <3>1. a \in w[N].seen
      BY <1>1 DEF Layered
    <3>2. \A n \in DOMAIN s.via : n \in w[N].seen
      BY <1>1, <1>2 DEF Layered, ViaSound
    <3>. QED
      BY <3>1, <3>2 DEF Near, FoundBy
  <2>2. PathsBack(s.via, a, FoundBy(s, a), e)
    <3>1. \E f : PathsBack(s.via, a, FoundBy(s, a), f)
      BY <1>1, <1>2, <2>1, PathsBackExist
    <3>. QED
      BY <3>1
  <2>3. Reconstruct(s.via, a, b) = e[b]
    BY DEF Reconstruct, PathsBack, FoundBy
  <2>. HIDE DEF e
  <2>4. PICK k \in 1..N : b \in w[k].frontier
    BY <1>2, <1>4 DEF ViaSound
  <2>5. k \in 0..N
    BY <1>1
  <2>6. b \in FoundBy(s, a)
    BY <1>4 DEF FoundBy
  <2>7. Leads(g, e[b], a, b, k)
    BY <1>1, <1>2, <2>2, <2>4, <2>5, <2>6, PathsBackLead
  <2>. QED
    BY <1>3, <1>4, <2>3, <2>4, <2>7
<1>5. CASE b \notin DOMAIN s.via
  BY <1>2, <1>3, <1>5 DEF FoundBy
<1>. QED
  BY <1>4, <1>5

(* What is seen are nodes. *)
LEMMA SeenAreNodes ==
  ASSUME NEW g, IsFiniteSet(g), NEW a \in NodesOf(g), NEW N \in Nat, NEW w, Layered(g, a, N, w),
         NEW i \in 0..N
  PROVE  w[i].seen \subseteq NodesOf(g)
<1>. SUFFICES ASSUME NEW x \in w[i].seen PROVE x \in NodesOf(g)
  OBVIOUS
<1>1. PICK k \in 0..i : x \in w[k].frontier
  BY DEF Layered
<1>2. CASE k = 0
  BY <1>1, <1>2 DEF Layered
<1>3. CASE k # 0
  <2>1. k \in 1..N
    BY <1>3
  <2>2. \E y \in w[k - 1].frontier : x \in Adjacent(g, y)
    BY <1>1, <2>1 DEF Layered
  <2>. QED
    BY <2>2, NodesAreFinite
<1>. QED
  BY <1>2, <1>3

(* The three queries agree on every finite graph. *)
LEMMA QueriesDoAgree ==
  ASSUME NEW g, IsFiniteSet(g), NEW a \in NodesOf(g)
  PROVE  QueriesAgree(g, a)
<1>. SUFFICES ASSUME NEW N \in 1..MaxDepth, NEW found,
                     found = {[to |-> b, path |-> Path(g, a, b, N)] : b \in NodesOf(g) \ {a}}
              PROVE  /\ \A f \in found : f.path # <<>> => IsChain(g, f.path, a, f.to)
                     /\ \A d \in 1..N : \A view \in {CampaignOf(g, a, d)} :
                          (view.alerts \cup view.related) \ {a}
                            = {f.to : f \in {h \in found : Len(h.path) \in 1..d}}
  BY DEF QueriesAgree
<1>. DEFINE paths == [b \in NodesOf(g) \ {a} |-> Path(g, a, b, N)]
<1>1. N \in Nat
  BY DEF MaxDepth
<1>2. PICK w : Waves(g, a, N, w)
  BY <1>1, WavesExist
<1>3. Layered(g, a, N, w)
  BY <1>1, <1>2, WavesLayer
<1>4. ASSUME NEW b \in NodesOf(g) \ {a}
      PROVE  \/ \E k \in 1..N : b \in w[k].frontier /\ Leads(g, paths[b], a, b, k)
             \/ b \notin w[N].seen /\ paths[b] = <<>>
  BY <1>3, PathIs
<1>5. /\ DOMAIN paths = NodesOf(g) \ {a}
      /\ found = {[to |-> b, path |-> paths[b]] : b \in NodesOf(g) \ {a}}
  OBVIOUS
<1>. HIDE DEF paths
<1>6. ASSUME NEW b \in DOMAIN paths, paths[b] # <<>> PROVE IsChain(g, paths[b], a, b)
  <2>1. PICK k \in 1..N : Leads(g, paths[b], a, b, k)
    BY <1>4, <1>5, <1>6
  <2>2. k \in Nat
    BY <1>1
  <2>. QED
    BY <2>1, <2>2, LeadsIsChain
<1>7. ASSUME NEW b \in DOMAIN paths, NEW d \in 1..N
      PROVE  Len(paths[b]) \in 1..d <=> b \in w[d].seen
  <2>1. /\ d \in 0..N /\ N \in 0..N
        /\ \A k \in 0..d : k \in 0..N
    BY <1>1
  <2>2. b \in w[d].seen <=> \E k \in 0..d : b \in w[k].frontier
    BY <1>3, <2>1 DEF Layered
  <2>3. CASE \E k \in 1..N : b \in w[k].frontier /\ Leads(g, paths[b], a, b, k)
    <3>1. PICK k \in 1..N : b \in w[k].frontier /\ Leads(g, paths[b], a, b, k)
      BY <2>3
    <3>2. Len(paths[b]) = k
      BY <3>1 DEF Leads
    <3>3. \A m \in 0..N : b \in w[m].frontier <=> m = k
      <4>1. k \in 0..N
        BY <1>1
      <4>. QED
        BY <1>3, <3>1, <4>1 DEF Layered
    <3>4. b \in w[d].seen <=> k \in 0..d
      BY <2>1, <2>2, <3>3
    <3>5. k \in 0..d <=> k \in 1..d
      BY <1>1
    <3>. QED
      BY <3>2, <3>4, <3>5
  <2>4. CASE b \notin w[N].seen /\ paths[b] = <<>>
    <3>1. b \notin w[d].seen
      <4>1. \A k \in 0..N : b \notin w[k].frontier
        BY <1>3, <2>1, <2>4 DEF Layered
      <4>. QED
        BY <2>1, <2>2, <4>1
    <3>2. Len(paths[b]) = 0
      BY <2>4
    <3>. QED
      BY <3>1, <3>2
  <2>. QED
    BY <1>4, <1>5, <2>3, <2>4
<1>8. ASSUME NEW d \in 1..N, NEW view, view = CampaignOf(g, a, d)
      PROVE  (view.alerts \cup view.related) \ {a} = {b \in DOMAIN paths : Len(paths[b]) \in 1..d}
  <2>1. (view.alerts \cup view.related) \ {a} = Within(g, a, d) \ {a}
    BY <1>8 DEF CampaignOf
  <2>2. Within(g, a, d) = w[d].seen
    BY <1>2, WithinIs
  <2>3. w[d].seen \subseteq NodesOf(g)
    <3>1. d \in 0..N
      BY <1>1
    <3>. QED
      BY <1>1, <1>3, <3>1, SeenAreNodes
  <2>4. {b \in DOMAIN paths : Len(paths[b]) \in 1..d} = {b \in DOMAIN paths : b \in w[d].seen}
    BY <1>7
  <2>. QED
    BY <1>5, <2>1, <2>2, <2>3, <2>4
<1>9. \A f \in found : f.path # <<>> => IsChain(g, f.path, a, f.to)
  BY <1>5, <1>6
<1>10. \A d \in 1..N : {f.to : f \in {h \in found : Len(h.path) \in 1..d}}
                         = {b \in DOMAIN paths : Len(paths[b]) \in 1..d}
  <2>. SUFFICES ASSUME NEW d \in 1..N
                PROVE  {f.to : f \in {h \in found : Len(h.path) \in 1..d}}
                         = {b \in DOMAIN paths : Len(paths[b]) \in 1..d}
    OBVIOUS
  <2>1. \A f \in found : f.to \in DOMAIN paths /\ f.path = paths[f.to]
    BY <1>5
  <2>2. \A b \in DOMAIN paths : \E f \in found : f.to = b
    <3>. SUFFICES ASSUME NEW b \in DOMAIN paths PROVE \E f \in found : f.to = b
      OBVIOUS
    <3>1. [to |-> b, path |-> paths[b]] \in found
      BY <1>5
    <3>. QED
      BY <3>1
  <2>. QED
    BY <2>1, <2>2
<1>. QED
  BY <1>8, <1>9, <1>10

(* What analysts see around an entity that has just been written to the graph
   is one picture (GraphClient.path, campaign and neighbors): whatever the
   incidents and dossiers have written by then and whatever the depth of the
   search, each path is a chain of stored triples, and within any depth that is
   no greater the campaign view shows exactly the entities to which a path so
   long or shorter is found. *)
THEOREM PathsStayShortest == Spec => PathsAreShortest
<1>. DEFINE Agree == \A node \in {e.src : e \in graph' \ graph} : QueriesAgree(graph', node)
<1>1. DossiersInv' => Agree
  <2>. SUFFICES ASSUME IsFiniteSet(graph'), NEW node \in {e.src : e \in graph' \ graph}
                PROVE  QueriesAgree(graph', node)
    BY DEF DossiersInv
  <2>1. node \in NodesOf(graph')
    BY DEF NodesOf
  <2>. QED
    BY <2>1, QueriesDoAgree
<1>2. DossiersInv' => [graph' # graph => Agree]_vars
  BY <1>1
<1>. QED
  BY <1>2, DossiersInvHolds, PTL DEF PathsAreShortest

-----------------------------------------------------------------------------
(* The greater of two integers. *)
LEMMA LargerOfTwo ==
  ASSUME NEW a \in Int, NEW b \in Int
  PROVE  Max({a, b}) = IF a >= b THEN a ELSE b
<1>. DEFINE m == IF a >= b THEN a ELSE b
<1>1. m \in {a, b} /\ \A z \in {a, b} : m >= z
  OBVIOUS
<1>2. \A y \in {a, b} : (\A z \in {a, b} : y >= z) => y = m
  OBVIOUS
<1>. QED
  BY <1>1, <1>2 DEF Max

(* The newest entries of a list: all of it if it is short enough, otherwise
   its tail. *)
LEMMA NewestIs ==
  ASSUME NEW S, NEW list \in Seq(S), NEW n \in Nat \ {0}
  PROVE  /\ Newest(list, n) \in Seq(S)
         /\ Len(list) <= n => Newest(list, n) = list
         /\ Len(list) > n => /\ Len(Newest(list, n)) = n
                             /\ \A i \in 1..n : Newest(list, n)[i] = list[Len(list) - n + i]
<1>. DEFINE from == Max({1, Len(list) - n + 1})
<1>1. from = IF 1 >= Len(list) - n + 1 THEN 1 ELSE Len(list) - n + 1
  BY LargerOfTwo
<1>2. Newest(list, n) = SubSeq(list, from, Len(list))
  BY DEF Newest
<1>. HIDE DEF from
<1>3. from \in Nat \ {0} /\ \A i \in from..Len(list) : list[i] \in S
  BY <1>1
<1>4. /\ SubSeq(list, from, Len(list)) \in Seq(S)
      /\ Len(SubSeq(list, from, Len(list)))
           = IF from <= Len(list) THEN Len(list) - from + 1 ELSE 0
      /\ \A i \in 1..Len(list) - from + 1 : SubSeq(list, from, Len(list))[i] = list[from + i - 1]
  <2>1. from \in Int /\ Len(list) \in Int
    BY <1>3
  <2>. QED
    BY <1>3, <2>1, SubSeqProperties
<1>5. CASE Len(list) <= n
  <2>1. from = 1
    BY <1>1, <1>5
  <2>2. SubSeq(list, 1, Len(list)) = list
    BY SubSeqFull
  <2>3. Newest(list, n) = list /\ ~ (Len(list) > n)
    BY <1>2, <1>5, <2>1, <2>2
  <2>. QED
    BY <2>3
<1>6. CASE Len(list) > n
  <2>1. from = Len(list) - n + 1
    BY <1>1, <1>6
  <2>. QED
    BY <1>2, <1>4, <1>6, <2>1
<1>. QED
  BY <1>5, <1>6

(* A list has finitely many entries. *)
LEMMA EntriesFinite ==
  ASSUME NEW S, NEW list \in Seq(S)
  PROVE  IsFiniteSet(ToSet(list))
<1>. DEFINE f == [i \in 1..Len(list) |-> list[i]]
<1>1. f \in Surjection(1..Len(list), ToSet(list))
  BY DEF Surjection, ToSet
<1>2. IsFiniteSet(1..Len(list))
  <2>1. 1 \in Int /\ Len(list) \in Int
    OBVIOUS
  <2>. QED
    BY <2>1, FS_Interval, Zenon
<1>. QED
  BY <1>1, <1>2, FS_Surjection

(* A fingerprint of finitely many features. *)
Features(dna) == \A k \in Kinds : IsFiniteSet(dna[k])

(* Sets without a common element do not overlap. *)
LEMMA OverlapIs ==
  ASSUME NEW common, NEW all, IsFiniteSet(all), common \subseteq all, all # {}
  PROVE  Overlap(common, all) \in Int /\ (common = {} => Overlap(common, all) = 0)
<1>1. Cardinality(all) \in Nat \ {0} /\ Cardinality(common) \in Nat
  <2>1. Cardinality(all) \in Nat /\ Cardinality(all) # 0
    BY FS_CardinalityType, FS_EmptySet
  <2>2. IsFiniteSet(common)
    BY FS_Subset
  <2>. QED
    BY <2>1, <2>2, FS_CardinalityType
<1>. DEFINE n == Cardinality(common)  c == Cardinality(all)
<1>2. common = {} => n = 0
  BY FS_EmptySet
<1>. HIDE DEF n, c
<1>3. n \in Nat /\ c \in Nat \ {0}
  BY <1>1 DEF n, c
<1>4. RoundDiv(1000000 * n, c) \in Int
  BY <1>3, RoundDivBounds
<1>5. RoundDiv(0, c) = 0
  BY <1>3 DEF RoundDiv
<1>6. Overlap(common, all) = RoundDiv(1000000 * n, c)
  BY DEF Overlap, n, c
<1>. QED
  BY <1>2, <1>4, <1>5, <1>6

(* Similarity is an integer, symmetric, and zero for fingerprints that share
   nothing. *)
LEMMA SimilarityIs ==
  ASSUME NEW a, NEW b, Features(a), Features(b)
  PROVE  /\ Similarity(a, b) \in Int
         /\ Similarity(a, b) = Similarity(b, a)
         /\ Shared(a, b) = {} => Similarity(a, b) = 0
<1>. DEFINE common == [k \in Kinds |-> a[k] \cap b[k]]
            all == [k \in Kinds |-> a[k] \cup b[k]]
<1>1. Similarity(a, b) = Resemblance(common, all) /\ Similarity(b, a) = Resemblance(common, all)
  <2>1. [k \in Kinds |-> b[k] \cap a[k]] = common /\ [k \in Kinds |-> b[k] \cup a[k]] = all
    OBVIOUS
  <2>. QED
    BY <2>1 DEF Similarity
<1>2. ASSUME NEW k \in Kinds, all[k] # {}
      PROVE  /\ Overlap(common[k], all[k]) \in Int
             /\ common[k] = {} => Overlap(common[k], all[k]) = 0
  <2>1. IsFiniteSet(a[k] \cup b[k])
    BY FS_Union DEF Features
  <2>. QED
    BY <1>2, <2>1, OverlapIs
<1>3. Shared(a, b) = {} => \A k \in Kinds : common[k] = {}
  BY DEF Shared
<1>. HIDE DEF common, all
<1>. DEFINE compared == {k \in Kinds : all[k] # {}}
            parts == [k \in Kinds |-> IF k \in compared
                        THEN [j \in Kinds |-> KindWeight[j] * Overlap(common[j], all[j])][k] ELSE 0]
            weights == [k \in Kinds |-> IF k \in compared THEN KindWeight[k] ELSE 0]
<1>4. Resemblance(common, all)
        = IF compared = {} THEN 0 ELSE RoundDiv(OverKinds(parts), 100 * OverKinds(weights))
  BY DEF Resemblance
<1>5. \A k \in Kinds : /\ parts[k] \in Int
                       /\ common[k] = {} => parts[k] = 0
  <2>1. \A k \in Kinds : KindWeight[k] \in Nat
    BY DEF Kinds, KindWeight
  <2>. QED
    BY <1>2, <2>1
<1>6. /\ \A k \in Kinds : weights[k] \in Nat
      /\ \A k \in compared : weights[k] \in Nat \ {0}
  BY DEF Kinds, KindWeight
<1>7. compared \subseteq Kinds
  OBVIOUS
<1>. HIDE DEF compared, parts, weights
<1>8. OverKinds(parts) \in Int /\ ((\A k \in Kinds : common[k] = {}) => OverKinds(parts) = 0)
  BY <1>5 DEF OverKinds, Kinds
<1>9. compared # {} => OverKinds(weights) \in Nat \ {0}
  <2>. SUFFICES ASSUME NEW k \in compared PROVE OverKinds(weights) \in Nat \ {0}
    OBVIOUS
  <2>1. k \in {"infrastructure", "malware", "ttp", "identity"} /\ weights[k] \in Nat \ {0}
    BY <1>6, <1>7 DEF Kinds
  <2>2. /\ weights["infrastructure"] \in Nat /\ weights["malware"] \in Nat
        /\ weights["ttp"] \in Nat /\ weights["identity"] \in Nat
    BY <1>6 DEF Kinds
  <2>3. OverKinds(weights) = weights["infrastructure"] + weights["malware"]
                               + weights["ttp"] + weights["identity"]
    BY DEF OverKinds
  <2>4. \/ weights["infrastructure"] # 0 \/ weights["malware"] # 0
        \/ weights["ttp"] # 0 \/ weights["identity"] # 0
    BY <2>1
  <2>5. \A x, y, z, w \in Nat :
          x # 0 \/ y # 0 \/ z # 0 \/ w # 0 => x + y + z + w \in Nat \ {0}
    OBVIOUS
  <2>. QED
    BY <2>2, <2>3, <2>4, <2>5
<1>10. Resemblance(common, all) \in Int
  <2>1. CASE compared = {}
    BY <1>4, <2>1
  <2>2. CASE compared # {}
    <3>. DEFINE x == OverKinds(parts)  y == 100 * OverKinds(weights)
    <3>1. x \in Int /\ y \in Nat \ {0}
      BY <1>8, <1>9, <2>2
    <3>2. Resemblance(common, all) = RoundDiv(x, y)
      BY <1>4, <2>2
    <3>. HIDE DEF x, y
    <3>. QED
      BY <3>1, <3>2, RoundDivBounds
  <2>. QED
    BY <2>1, <2>2
<1>11. ASSUME Shared(a, b) = {} PROVE Resemblance(common, all) = 0
  <2>1. CASE compared = {}
    BY <1>4, <2>1
  <2>2. CASE compared # {}
    <3>. DEFINE y == 100 * OverKinds(weights)
    <3>1. y \in Nat \ {0}
      BY <1>9, <2>2
    <3>2. Resemblance(common, all) = RoundDiv(0, y)
      BY <1>3, <1>4, <1>8, <1>11, <2>2
    <3>. HIDE DEF y
    <3>. QED
      BY <3>1, <3>2 DEF RoundDiv
  <2>. QED
    BY <2>1, <2>2
<1>. QED
  BY <1>1, <1>10, <1>11

(* Linked incidents share a feature and are similar enough to be matched, from
   either side. *)
LEMMA LinkedAreComparable ==
  ASSUME NEW i \in DOMAIN Profile, NEW j \in DOMAIN Profile, Linked(Profile[i], Profile[j])
  PROVE  /\ Similarity(Profile[j].dna, Profile[i].dna) >= MinSimilarity
         /\ Shared(Profile[j].dna, Profile[i].dna) # {}
         /\ Linked(Profile[j], Profile[i])
<1>1. Features(Profile[i].dna) /\ Features(Profile[j].dna)
  BY StoresAssumption DEF Features
<1>. DEFINE s == Similarity(Profile[j].dna, Profile[i].dna)
<1>2. s \in Int /\ s = Similarity(Profile[i].dna, Profile[j].dna)
  BY <1>1, SimilarityIs
<1>3. s >= 3000
  BY <1>2 DEF Linked, LinkThreshold
<1>4. Shared(Profile[j].dna, Profile[i].dna) = {} => s = 0
  BY <1>1, SimilarityIs
<1>. HIDE DEF s
<1>5. s >= 1500 /\ s # 0
  BY <1>2, <1>3
<1>. QED
  BY <1>2, <1>3, <1>4, <1>5 DEF s, MinSimilarity, Linked, LinkThreshold

(* i, whose attempt found m, and j, whose attempt found n. *)
Noticed(i, j, m, n) == i \in n \/ j \in m \/ CrowdedOut(i, j) \/ CrowdedOut(j, i)

-----------------------------------------------------------------------------
(* The incidents that an attempt has fingerprinted, whether the store still has
   them or not, and the packages that those attempts save. *)
Fingerprinted == {IncidentOf[a] : a \in Begun}
Packages == {[incident |-> IncidentOf[a], matches |-> attempts[a].matches] : a \in Begun}
(* Of two linked incidents whose fingerprints a comparison reads, one attempt
   knows the other, or as many others that are no less similar. *)
NeighboursKnown ==
  \A a, b \in Begun :
    /\ IncidentOf[a] # IncidentOf[b]
    /\ Linked(Profile[IncidentOf[a]], Profile[IncidentOf[b]])
    /\ Comparable(IncidentOf[a]) /\ Comparable(IncidentOf[b])
    => Noticed(IncidentOf[a], IncidentOf[b], attempts[a].matches, attempts[b].matches)

(* The inductive invariant of the stores of one process: the fingerprints are
   a list without repetitions of incidents that an attempt has begun, it is
   full once one was evicted, packages say what their attempts found, and
   these know of each other. *)
MemoryInv ==
  /\ DOMAIN attempts = Attempts
  /\ \A a \in Attempts : attempts[a].step \in {"begin", "stored", "over"}
  /\ IsFiniteSet(Begun)
  /\ rows \in Seq(DOMAIN Profile)
  /\ \A i, j \in 1..Len(rows) : rows[i] = rows[j] => i = j
  /\ \A i \in 1..Len(rows) : \E a \in Begun : IncidentOf[a] = rows[i]
  /\ NothingEvicted \/ Len(rows) >= MaxFingerprints
  /\ saved \in Seq(Packages)
  /\ NeighboursKnown

(* It is claimed of the in-memory stores only. *)
InMemory == ~ durable => MemoryInv

(* Only finitely many incidents can crowd another one out. *)
LEMMA CrowdsFinite ==
  ASSUME IsFiniteSet(Begun), NEW i, NEW j
  PROVE  IsFiniteSet(NoLessSimilar(i, j)) /\ Cardinality(NoLessSimilar(i, j)) \in Nat
<1>. DEFINE f == [a \in Begun |-> IncidentOf[a]]
<1>1. Fingerprinted = {f[a] : a \in Begun}
  BY DEF Fingerprinted
<1>2. f = [a \in Begun |-> f[a]]
  OBVIOUS
<1>. HIDE DEF f
<1>3. IsFiniteSet(Fingerprinted)
  BY <1>1, <1>2, ImageFinite
<1>4. NoLessSimilar(i, j) \in SUBSET Fingerprinted
  BY DEF NoLessSimilar, Fingerprinted
<1>5. IsFiniteSet(NoLessSimilar(i, j))
  BY <1>3, <1>4, FS_Subset
<1>. QED
  BY <1>5, FS_CardinalityType

(* Further attempts only crowd out more. *)
LEMMA CrowdingPersists ==
  ASSUME IsFiniteSet(Begun'), Begun \subseteq Begun', NEW i, NEW j, CrowdedOut(i, j)
  PROVE  CrowdedOut(i, j)'
<1>. DEFINE few == NoLessSimilar(i, j)  many == NoLessSimilar(i, j)'
<1>1. few \in SUBSET many
  BY DEF NoLessSimilar
<1>2. IsFiniteSet(many)
  <2>1. IsFiniteSet(Begun') => IsFiniteSet(many)
    <3>. DEFINE f == [a \in Begun' |-> IncidentOf[a]]
                S == {f[a] : a \in Begun'}
    <3>1. f = [a \in Begun' |-> f[a]]
      OBVIOUS
    <3>2. many \in SUBSET S
      BY DEF NoLessSimilar
    <3>. HIDE DEF f, many
    <3>3. IsFiniteSet(Begun') => IsFiniteSet(S)
      BY <3>1, ImageFinite
    <3>. QED
      BY <3>2, <3>3, FS_Subset
  <2>. QED
    BY <2>1
<1>3. CrowdedOut(i, j) <=> Cardinality(few) >= MatchesKept
  BY DEF CrowdedOut
<1>4. CrowdedOut(i, j)' <=> Cardinality(many) >= MatchesKept
  BY DEF CrowdedOut
<1>. HIDE DEF few, many
<1>5. IsFiniteSet(few) /\ Cardinality(few) <= Cardinality(many)
  BY <1>1, <1>2, FS_Subset
<1>6. Cardinality(few) \in Nat /\ Cardinality(many) \in Nat /\ MatchesKept \in Nat
  <2>1. Cardinality(few) \in Nat /\ Cardinality(many) \in Nat
    BY <1>2, <1>5, FS_CardinalityType
  <2>. QED
    BY <2>1, StoresAssumption
<1>. QED
  BY <1>3, <1>4, <1>5, <1>6

(* To be noticed is symmetric. *)
LEMMA NoticedEither ==
  ASSUME NEW i, NEW j, NEW m, NEW n, Noticed(i, j, m, n)
  PROVE  Noticed(j, i, n, m)
  BY DEF Noticed

(* What an attempt finds contains every linked incident whose fingerprint the
   comparison reads, unless as many others are no less similar. *)
LEMMA FoundOrCrowdedOut ==
  ASSUME MemoryInv, ~ durable, NEW i \in DOMAIN Profile,
         NEW j \in ToSet(Newest(rows, CandidateLimit)), i # j, Linked(Profile[i], Profile[j])
  PROVE  j \in MatchesOf(i) \/ CrowdedOut(j, i)
<1>. DEFINE list == Newest(rows, CandidateLimit)
            dna == Profile[i].dna
            matching == Matching(i, dna, Priors)
<1>1. /\ rows \in Seq(DOMAIN Profile) /\ CandidateLimit \in Nat \ {0} /\ MatchesKept \in Nat \ {0}
      /\ \A k \in DOMAIN Profile : Profile[k].incident = k
      /\ IsFiniteSet(Begun)
  BY StoresAssumption DEF MemoryInv
<1>2. /\ list \in Seq(DOMAIN Profile)
      /\ \A x, y \in 1..Len(list) : list[x] = list[y] => x = y
      /\ \A x \in 1..Len(list) : list[x] \in Fingerprinted
  <2>1. /\ \A x, y \in 1..Len(rows) : rows[x] = rows[y] => x = y
        /\ \A x \in 1..Len(rows) : rows[x] \in Fingerprinted
    BY DEF MemoryInv, Fingerprinted
  <2>2. CASE Len(rows) <= CandidateLimit
    <3>1. list = rows
      BY <1>1, <2>2, NewestIs
    <3>. QED
      BY <1>1, <2>1, <3>1
  <2>3. CASE Len(rows) > CandidateLimit
    <3>1. /\ list \in Seq(DOMAIN Profile) /\ Len(list) = CandidateLimit
          /\ \A x \in 1..CandidateLimit : list[x] = rows[Len(rows) - CandidateLimit + x]
      BY <1>1, <2>3, NewestIs
    <3>2. /\ Len(rows) \in Nat
          /\ \A x \in 1..CandidateLimit : Len(rows) - CandidateLimit + x \in 1..Len(rows)
      BY <1>1, <2>3
    <3>. HIDE DEF list
    <3>. DEFINE at == [x \in 1..CandidateLimit |-> Len(rows) - CandidateLimit + x]
    <3>3. \A x \in 1..CandidateLimit : at[x] \in 1..Len(rows) /\ list[x] = rows[at[x]]
      BY <3>1, <3>2
    <3>4. \A x, y \in 1..CandidateLimit : at[x] = at[y] => x = y
      BY <1>1, <3>2
    <3>. HIDE DEF at
    <3>5. \A x \in 1..CandidateLimit : list[x] \in Fingerprinted
      BY <2>1, <3>3
    <3>6. ASSUME NEW x \in 1..CandidateLimit, NEW y \in 1..CandidateLimit, list[x] = list[y]
          PROVE  x = y
      <4>1. at[x] \in 1..Len(rows) /\ at[y] \in 1..Len(rows) /\ rows[at[x]] = rows[at[y]]
        BY <3>3, <3>6
      <4>. QED
        BY <2>1, <3>4, <4>1
    <3>. QED
      BY <3>1, <3>5, <3>6
  <2>4. Len(rows) \in Int /\ CandidateLimit \in Int
    BY <1>1
  <2>. QED
    BY <2>2, <2>3, <2>4
<1>3. /\ DOMAIN Priors = 1..Len(list)
      /\ \A x \in 1..Len(list) : /\ Priors[x] = Profile[list[x]] /\ Priors[x].incident = list[x]
                                 /\ list[x] \in DOMAIN Profile
  BY <1>1, <1>2 DEF Priors
<1>4. PICK y \in 1..Len(list) : list[y] = j
  BY <1>2 DEF ToSet
<1>. DEFINE ahead == {x \in matching : Ahead(dna, Priors, x, y)}
            crowd == NoLessSimilar(j, i)
<1>5. j \in DOMAIN Profile /\ Priors[y] = Profile[j] /\ Priors[y].incident = j
  BY <1>3, <1>4
<1>6. y \in matching
  <2>1. Linked(Profile[j], Profile[i])
    BY <1>5, LinkedAreComparable
  <2>2. /\ Similarity(Profile[i].dna, Profile[j].dna) >= MinSimilarity
        /\ Shared(Profile[i].dna, Profile[j].dna) # {}
    BY <1>5, <2>1, LinkedAreComparable
  <2>. QED
    BY <1>3, <1>5, <2>2 DEF Matching
<1>7. \A x \in ahead : x \in 1..Len(list) /\ list[x] \in crowd
  <2>. SUFFICES ASSUME NEW x \in ahead PROVE x \in 1..Len(list) /\ list[x] \in crowd
    OBVIOUS
  <2>1. /\ x \in 1..Len(list) /\ Priors[x].incident # i /\ Ahead(dna, Priors, x, y)
    BY <1>3 DEF Matching
  <2>2. /\ Priors[x] = Profile[list[x]] /\ Priors[x].incident = list[x]
        /\ list[x] \in DOMAIN Profile /\ list[x] \in Fingerprinted
    BY <1>2, <1>3, <2>1
  <2>. DEFINE s == Similarity(dna, Profile[list[x]].dna)  t == Similarity(dna, Profile[j].dna)
  <2>3. s \in Int /\ t \in Int
    <3>1. \A k \in DOMAIN Profile : Features(Profile[k].dna)
      BY StoresAssumption DEF Features
    <3>. QED
      BY <1>5, <2>2, <3>1, SimilarityIs
  <2>4. s > t \/ (s = t /\ x < y)
    BY <1>5, <2>1, <2>2 DEF Ahead
  <2>5. list[x] # j
    <3>1. x = y => s = t
      BY <1>4
    <3>2. x # y
      BY <2>1, <2>3, <2>4, <3>1
    <3>. QED
      BY <1>2, <1>4, <2>1, <3>2
  <2>6. s >= t
    BY <2>3, <2>4
  <2>. QED
    BY <2>1, <2>2, <2>5, <2>6 DEF NoLessSimilar, Fingerprinted
<1>8. Cardinality(ahead) < MatchesKept => j \in MatchesOf(i)
  <2>1. Cardinality(ahead) < MatchesKept => Priors[y] \in BestMatches(i, dna, Priors, MatchesKept)
    BY <1>6 DEF BestMatches
  <2>2. AllForTenant = Priors
    BY DEF AllForTenant
  <2>. QED
    BY <1>5, <2>1, <2>2 DEF MatchesOf
<1>9. IsFiniteSet(crowd) /\ (CrowdedOut(j, i) <=> Cardinality(crowd) >= MatchesKept)
  BY <1>1, CrowdsFinite DEF CrowdedOut
<1>. DEFINE f == [x \in ahead |-> list[x]]
<1>. HIDE DEF ahead, crowd, list
<1>10. f \in Injection(ahead, crowd)
  BY <1>2, <1>7 DEF Injection, IsInjective
<1>. HIDE DEF f
<1>11. IsFiniteSet(ahead) /\ Cardinality(ahead) <= Cardinality(crowd)
  BY <1>9, <1>10, FS_Injection
<1>12. Cardinality(ahead) \in Nat /\ Cardinality(crowd) \in Nat
  BY <1>9, <1>11, FS_CardinalityType
<1>13. Cardinality(ahead) < MatchesKept \/ Cardinality(crowd) >= MatchesKept
  BY <1>1, <1>11, <1>12
<1>. QED
  BY <1>8, <1>9, <1>13

(* What a comparison reads after the last entries were cut off the front of
   list and i was added: what it read before, and i. *)
LEMMA NewestWithOneMore ==
  ASSUME NEW S, NEW list \in Seq(S), NEW i \in S, NEW m \in Nat \ {0}, NEW n \in Nat \ {0}
  PROVE  ToSet(Newest(Newest(Append(list, i), m), n)) \subseteq ToSet(Newest(list, n)) \cup {i}
<1>. DEFINE all == Append(list, i)
            kept == Newest(all, m)
            cut == Len(all) - Len(kept)
<1>1. /\ all \in Seq(S) /\ Len(all) = Len(list) + 1 /\ Len(list) \in Nat
      /\ \A x \in 1..Len(list) : all[x] = list[x]
      /\ all[Len(list) + 1] = i
  OBVIOUS
<1>. HIDE DEF all
<1>2. /\ kept \in Seq(S) /\ Len(kept) \in Nat /\ cut \in Nat
      /\ \A x \in 1..Len(kept) : kept[x] = all[cut + x]
  <2>1. CASE Len(all) <= m
    <3>1. kept = all
      BY <1>1, <2>1, NewestIs
    <3>2. cut = 0
      BY <1>1, <3>1
    <3>. QED
      BY <1>1, <3>1, <3>2
  <2>2. CASE Len(all) > m
    <3>1. /\ kept \in Seq(S) /\ Len(kept) = m
          /\ \A x \in 1..m : kept[x] = all[Len(all) - m + x]
      BY <1>1, <2>2, NewestIs, ZenonT(60)
    <3>. HIDE DEF kept
    <3>. QED
      BY <1>1, <2>2, <3>1
  <2>3. Len(all) \in Int /\ m \in Int
    BY <1>1
  <2>. QED
    BY <2>1, <2>2, <2>3
<1>. HIDE DEF kept
<1>. DEFINE read == Newest(kept, n)
<1>3. /\ read \in Seq(S)
      /\ \A x \in 1..Len(read) : \E y \in 1..Len(kept) : y > Len(kept) - n /\ read[x] = kept[y]
  <2>1. CASE Len(kept) <= n
    <3>1. read = kept
      BY <1>2, <2>1, NewestIs
    <3>2. \A x \in 1..Len(kept) : x > Len(kept) - n
      BY <1>2, <2>1
    <3>. QED
      BY <1>2, <3>1, <3>2
  <2>2. CASE Len(kept) > n
    <3>1. /\ read \in Seq(S) /\ Len(read) = n
          /\ \A x \in 1..n : read[x] = kept[Len(kept) - n + x]
      BY <1>2, <2>2, NewestIs
    <3>2. \A x \in 1..n : /\ Len(kept) - n + x \in 1..Len(kept)
                          /\ Len(kept) - n + x > Len(kept) - n
      BY <1>2, <2>2
    <3>. HIDE DEF read
    <3>. QED
      BY <3>1, <3>2
  <2>3. Len(kept) \in Int /\ n \in Int
    BY <1>2
  <2>. QED
    BY <2>1, <2>2, <2>3
<1>4. \A z \in 1..Len(list) : z > Len(list) - n => list[z] \in ToSet(Newest(list, n))
  <2>. SUFFICES ASSUME NEW z \in 1..Len(list), z > Len(list) - n
                PROVE  list[z] \in ToSet(Newest(list, n))
    OBVIOUS
  <2>1. CASE Len(list) <= n
    <3>1. Newest(list, n) = list
      BY <2>1, NewestIs
    <3>. QED
      BY <3>1 DEF ToSet
  <2>2. CASE Len(list) > n
    <3>. DEFINE x == z - (Len(list) - n)
    <3>1. /\ Len(Newest(list, n)) = n /\ Newest(list, n) \in Seq(S)
          /\ \A k \in 1..n : Newest(list, n)[k] = list[Len(list) - n + k]
      BY <2>2, NewestIs
    <3>2. x \in 1..n /\ Len(list) - n + x = z
      BY <1>1, <2>2
    <3>3. Newest(list, n)[x] = list[z] /\ x \in DOMAIN Newest(list, n)
      BY <3>1, <3>2
    <3>. QED
      BY <3>3 DEF ToSet
  <2>3. Len(list) \in Int /\ n \in Int
    BY <1>1
  <2>. QED
    BY <2>1, <2>2, <2>3
<1>. HIDE DEF read
<1>5. \A x \in 1..Len(read) : read[x] \in ToSet(Newest(list, n)) \cup {i}
  <2>. SUFFICES ASSUME NEW x \in 1..Len(read), read[x] # i
                PROVE  read[x] \in ToSet(Newest(list, n))
    OBVIOUS
  <2>1. PICK y \in 1..Len(kept) : y > Len(kept) - n /\ read[x] = kept[y]
    BY <1>3
  <2>2. read[x] = all[cut + y]
    BY <1>2, <2>1
  <2>3. /\ cut + y \in 1..Len(list) + 1 /\ cut + y > Len(all) - n
        /\ cut + y # Len(list) + 1
    BY <1>1, <1>2, <2>1, <2>2
  <2>4. cut + y \in 1..Len(list) /\ cut + y > Len(list) - n
    BY <1>1, <2>3
  <2>. QED
    BY <1>1, <1>4, <2>2, <2>4
<1>. QED
  BY <1>3, <1>5 DEF ToSet, read, kept, all

(* A finalization compares its fingerprint and stores it: it knows all that
   the comparison read, and of the others it only shortens what is read; if
   the store drops a fingerprint, an attempt has lost its own. *)
LEMMA StoredInMemory ==
  ASSUME MemoryInv, ~ durable, NEW a \in Attempts, FingerprintInMemory(a)
  PROVE  MemoryInv'
<1>. DEFINE i == IncidentOf[a]
<1>1. /\ i \in DOMAIN Profile /\ IncidentOf \in [Attempts -> DOMAIN Profile]
      /\ MaxFingerprints \in Nat \ {0} /\ CandidateLimit \in Nat \ {0}
  BY StoresAssumption
<1>2. /\ rows \in Seq(DOMAIN Profile) /\ DOMAIN rows = 1..Len(rows) /\ Len(rows) \in Nat
      /\ \A k, l \in 1..Len(rows) : rows[k] = rows[l] => k = l
      /\ \A k \in 1..Len(rows) : \E b \in Begun : IncidentOf[b] = rows[k]
      /\ NothingEvicted \/ Len(rows) >= MaxFingerprints
      /\ IsFiniteSet(Begun)
  BY DEF MemoryInv
<1>3. /\ attempts' = [attempts EXCEPT ![a] = [step |-> "stored", matches |-> MatchesOf(i)]]
      /\ attempts[a].step = "begin" /\ saved' = saved
      /\ DOMAIN attempts = Attempts /\ \A b \in Attempts : attempts[b].step \in {"begin", "stored", "over"}
  BY DEF FingerprintInMemory, At, MemoryInv
<1>4. /\ DOMAIN attempts' = Attempts
      /\ \A b \in Attempts : attempts'[b].step \in {"begin", "stored", "over"}
      /\ \A b \in Attempts \ {a} : attempts'[b] = attempts[b]
      /\ attempts'[a].matches = MatchesOf(i)
  BY <1>3
<1>5. Begun' = Begun \cup {a} /\ a \notin Begun /\ IsFiniteSet(Begun')
  <2>1. Begun' = Begun \cup {a} /\ a \notin Begun
    BY <1>3 DEF Begun, At
  <2>2. IsFiniteSet(Begun \cup {a})
    BY <1>2, FS_AddElement
  <2>. QED
    BY <2>1, <2>2
<1>6. \A b \in Begun : b \in Attempts /\ attempts'[b].matches = attempts[b].matches
  BY <1>4, <1>5 DEF Begun
<1>7. saved' \in Seq(Packages')
  <2>1. Packages \subseteq Packages'
    BY <1>5, <1>6 DEF Packages
  <2>2. saved \in Seq(Packages)
    BY DEF MemoryInv
  <2>. QED
    BY <1>3, <2>1, <2>2, SeqMonotonic
<1>8. NothingEvicted <=> \A b \in Begun : IncidentOf[b] \in ToSet(rows)
  BY <1>2 DEF NothingEvicted, RowsOf, ToSet
<1>9. rows' \in Seq(DOMAIN Profile) =>
        (NothingEvicted' <=> \A b \in Begun' : IncidentOf[b] \in ToSet(rows'))
  BY DEF NothingEvicted, RowsOf, ToSet
<1>. DEFINE Before == Newest(rows, CandidateLimit)
            After == Newest(rows', CandidateLimit)
<1>10. ToSet(After) \subseteq ToSet(Before) \cup {i}
  <2>1. CASE RowsOf(i) # {}
    <3>1. rows' = rows
      BY <2>1 DEF FingerprintInMemory
    <3>. QED
      BY <3>1
  <2>2. CASE RowsOf(i) = {}
    <3>1. rows' = Newest(Append(rows, i), MaxFingerprints)
      BY <2>2 DEF FingerprintInMemory
    <3>. QED
      BY <1>1, <1>2, <3>1, NewestWithOneMore
  <2>. QED
    BY <2>1, <2>2
<1>. HIDE DEF Before, After
(* What is known after the step was known before it, but of the one stored. *)
<1>11. ASSUME NothingEvicted' => NothingEvicted PROVE NeighboursKnown'
  <2>. SUFFICES ASSUME NEW b \in Begun', NEW c \in Begun', IncidentOf[b] # IncidentOf[c],
                       Linked(Profile[IncidentOf[b]], Profile[IncidentOf[c]]),
                       Comparable(IncidentOf[b])', Comparable(IncidentOf[c])'
                PROVE  Noticed(IncidentOf[b], IncidentOf[c],
                               attempts[b].matches, attempts[c].matches)'
    BY DEF NeighboursKnown
  <2>1. \A x, y : CrowdedOut(x, y) => CrowdedOut(x, y)'
    BY <1>5, CrowdingPersists
  <2>2. b \in Attempts /\ c \in Attempts
        /\ IncidentOf[b] \in DOMAIN Profile /\ IncidentOf[c] \in DOMAIN Profile
    BY <1>1 DEF Begun
  <2>3. IncidentOf[b] \in ToSet(After) /\ IncidentOf[c] \in ToSet(After)
    BY DEF Comparable, After
  <2>4. ASSUME NEW j \in DOMAIN Profile, j \in ToSet(After), j # i, Linked(Profile[i], Profile[j])
        PROVE  j \in attempts'[a].matches \/ CrowdedOut(j, i)'
    <3>1. j \in ToSet(Before)
      BY <1>10, <2>4
    <3>2. j \in MatchesOf(i) \/ CrowdedOut(j, i)
      BY <1>1, <2>4, <3>1, FoundOrCrowdedOut DEF Before
    <3>. QED
      BY <1>4, <2>1, <3>2
  <2>5. CASE b = a
    BY <2>2, <2>3, <2>4, <2>5 DEF Noticed
  <2>6. CASE c = a
    <3>1. Linked(Profile[i], Profile[IncidentOf[b]])
      BY <2>2, <2>6, LinkedAreComparable
    <3>. QED
      BY <2>2, <2>3, <2>4, <2>6, <3>1 DEF Noticed
  <2>7. CASE b # a /\ c # a
    <3>1. b \in Begun /\ c \in Begun
      BY <1>5, <2>7
    <3>2. ASSUME NEW d \in Begun, Comparable(IncidentOf[d])' PROVE Comparable(IncidentOf[d])
      <4>1. d # a /\ d \in Begun' /\ a \in Begun'
        BY <1>5
      <4>2. IncidentOf[d] \in ToSet(After) /\ (NothingEvicted' \/ Once(IncidentOf[d])')
        BY <3>2 DEF Comparable, After
      <4>3. CASE NothingEvicted'
        <5>1. NothingEvicted
          BY <1>11, <4>3
        <5>2. IncidentOf[d] = i => After = Before
          BY <5>1 DEF NothingEvicted, FingerprintInMemory, After, Before
        <5>3. IncidentOf[d] \in ToSet(Before)
          BY <1>10, <4>2, <5>2
        <5>. QED
          BY <5>1, <5>3 DEF Comparable, Before
      <4>4. CASE Once(IncidentOf[d])'
        <5>1. Once(IncidentOf[d]) /\ IncidentOf[d] # i
          BY <1>5, <4>1, <4>4 DEF Once
        <5>2. IncidentOf[d] \in ToSet(Before)
          BY <1>10, <4>2, <5>1
        <5>. QED
          BY <5>1, <5>2 DEF Comparable, Before
      <4>. QED
        BY <4>2, <4>3, <4>4
    <3>3. Noticed(IncidentOf[b], IncidentOf[c], attempts[b].matches, attempts[c].matches)
      BY <3>1, <3>2 DEF MemoryInv, NeighboursKnown
    <3>. QED
      BY <1>6, <2>1, <3>1, <3>3 DEF Noticed
  <2>. QED
    BY <2>5, <2>6, <2>7
<1>12. CASE RowsOf(i) # {}
  <2>1. rows' = rows /\ i \in ToSet(rows)
    BY <1>12 DEF FingerprintInMemory, RowsOf, ToSet
  <2>2. \A k \in 1..Len(rows') : \E b \in Begun' : IncidentOf[b] = rows'[k]
    BY <1>2, <1>5, <2>1
  <2>3. NothingEvicted' <=> NothingEvicted
    BY <1>2, <1>5, <1>8, <1>9, <2>1
  <2>. QED
    BY <1>2, <1>4, <1>5, <1>7, <1>11, <2>1, <2>2, <2>3 DEF MemoryInv
<1>13. CASE RowsOf(i) = {} /\ Len(rows) < MaxFingerprints
  <2>1. rows' = Append(rows, i)
    <3>1. Append(rows, i) \in Seq(DOMAIN Profile) /\ Len(Append(rows, i)) <= MaxFingerprints
      BY <1>1, <1>2, <1>13
    <3>2. Newest(Append(rows, i), MaxFingerprints) = Append(rows, i)
      BY <1>1, <3>1, NewestIs
    <3>. QED
      BY <1>13, <3>2 DEF FingerprintInMemory
  <2>2. /\ rows' \in Seq(DOMAIN Profile) /\ Len(rows') = Len(rows) + 1
        /\ \A k \in 1..Len(rows) : rows'[k] = rows[k]
        /\ rows'[Len(rows) + 1] = i /\ DOMAIN rows' = 1..Len(rows) + 1
    BY <1>1, <1>2, <2>1
  <2>3. ToSet(rows') = ToSet(rows) \cup {i}
    BY <1>2, <2>2 DEF ToSet
  <2>4. \A k \in 1..Len(rows) : rows[k] # i
    BY <1>2, <1>13 DEF RowsOf
  <2>5. \A k, l \in 1..Len(rows') : rows'[k] = rows'[l] => k = l
    BY <1>2, <2>2, <2>4
  <2>6. \A k \in 1..Len(rows') : \E b \in Begun' : IncidentOf[b] = rows'[k]
    BY <1>2, <1>5, <2>2
  <2>7. NothingEvicted
    BY <1>1, <1>2, <1>13
  <2>8. NothingEvicted'
    BY <1>5, <1>8, <1>9, <2>2, <2>3, <2>7
  <2>. QED
    BY <1>4, <1>5, <1>7, <1>11, <2>2, <2>5, <2>6, <2>7, <2>8 DEF MemoryInv
<1>14. CASE RowsOf(i) = {} /\ Len(rows) >= MaxFingerprints
  <2>. DEFINE all == Append(rows, i)
  <2>1. /\ all \in Seq(DOMAIN Profile) /\ Len(all) = Len(rows) + 1
        /\ \A k \in 1..Len(rows) : all[k] = rows[k]
        /\ all[Len(rows) + 1] = i
    BY <1>1, <1>2
  <2>2. rows' = Newest(all, MaxFingerprints)
    BY <1>14 DEF FingerprintInMemory
  <2>. HIDE DEF all
  <2>3. Len(all) > MaxFingerprints
    BY <1>1, <1>2, <1>14, <2>1
  <2>4. /\ rows' \in Seq(DOMAIN Profile) /\ Len(rows') = MaxFingerprints
        /\ \A k \in 1..MaxFingerprints : rows'[k] = all[Len(all) - MaxFingerprints + k]
    BY <1>1, <2>1, <2>2, <2>3, NewestIs, ZenonT(60)
  <2>5. \A k \in 1..Len(rows) : rows[k] # i
    BY <1>2, <1>14 DEF RowsOf
  <2>6. \A k, l \in 1..Len(all) : all[k] = all[l] => k = l
    BY <1>2, <2>1, <2>5
  <2>. DEFINE at == [k \in 1..MaxFingerprints |-> Len(all) - MaxFingerprints + k]
  <2>7. /\ \A k \in 1..MaxFingerprints : at[k] \in 2..Len(all) /\ rows'[k] = all[at[k]]
        /\ \A k, l \in 1..MaxFingerprints : at[k] = at[l] => k = l
    BY <1>1, <1>2, <2>1, <2>3, <2>4
  <2>. HIDE DEF at
  <2>8. \A k, l \in 1..Len(rows') : rows'[k] = rows'[l] => k = l
    <3>. SUFFICES ASSUME NEW k \in 1..MaxFingerprints, NEW l \in 1..MaxFingerprints,
                         rows'[k] = rows'[l]
                  PROVE  k = l
      BY <2>4
    <3>1. at[k] \in 1..Len(all) /\ at[l] \in 1..Len(all) /\ all[at[k]] = all[at[l]]
      BY <2>7
    <3>. QED
      BY <2>6, <2>7, <3>1
  <2>9. \A k \in 1..Len(rows') : \E b \in Begun' : IncidentOf[b] = rows'[k]
    <3>. SUFFICES ASSUME NEW k \in 1..MaxFingerprints
                  PROVE  \E b \in Begun' : IncidentOf[b] = rows'[k]
      BY <2>4
    <3>1. rows'[k] = all[at[k]] /\ at[k] \in 1..Len(all)
      BY <2>7
    <3>2. \A l \in 1..Len(all) : \E b \in Begun \cup {a} : IncidentOf[b] = all[l]
      BY <1>2, <2>1
    <3>. QED
      BY <1>5, <3>1, <3>2
  (* The oldest is gone, and it belonged to an attempt that had begun. *)
  <2>10. ~ NothingEvicted'
    <3>1. 1 \in 1..Len(rows) /\ 1 \in 1..Len(all)
      BY <1>1, <1>2, <1>14, <2>1
    <3>2. PICK b \in Begun : IncidentOf[b] = rows[1]
      BY <1>2, <3>1
    <3>3. \A k \in 1..MaxFingerprints : rows'[k] # all[1]
      <4>. SUFFICES ASSUME NEW k \in 1..MaxFingerprints PROVE rows'[k] # all[1]
        OBVIOUS
      <4>1. at[k] \in 1..Len(all) /\ at[k] # 1 /\ rows'[k] = all[at[k]]
        BY <2>7
      <4>. QED
        BY <2>6, <3>1, <4>1
    <3>4. IncidentOf[b] \notin ToSet(rows')
      BY <2>1, <2>4, <3>1, <3>2, <3>3 DEF ToSet
    <3>. QED
      BY <1>5, <1>9, <2>4, <3>4
  <2>11. Len(rows') >= MaxFingerprints
    BY <1>1, <2>4
  <2>. QED
    BY <1>4, <1>5, <1>7, <1>11, <2>4, <2>8, <2>9, <2>10, <2>11 DEF MemoryInv
<1>. QED
  BY <1>1, <1>2, <1>12, <1>13, <1>14

(* A package that is saved says what its attempt found. *)
LEMMA SavedInMemory ==
  ASSUME MemoryInv, ~ durable, NEW a \in Attempts, SavePackage(a)
  PROVE  MemoryInv'
<1>1. /\ attempts' = [attempts EXCEPT ![a].step = "over"]
      /\ attempts[a].step = "stored" /\ rows' = rows
      /\ DOMAIN attempts = Attempts /\ \A b \in Attempts : attempts[b].step \in {"begin", "stored", "over"}
  BY DEF SavePackage, To, At, MemoryInv
<1>2. /\ DOMAIN attempts' = Attempts
      /\ \A b \in Attempts : attempts'[b].step \in {"begin", "stored", "over"}
      /\ \A b \in Attempts : attempts'[b].step = "begin" <=> attempts[b].step = "begin"
      /\ \A b \in Attempts : attempts'[b].matches = attempts[b].matches
  BY <1>1
<1>3. Begun' = Begun
  BY <1>1, <1>2 DEF Begun, At
<1>4. Packages' = Packages /\ (NothingEvicted' <=> NothingEvicted)
  <2>1. Packages' = Packages
    BY <1>2, <1>3 DEF Packages, Begun
  <2>2. NothingEvicted' <=> NothingEvicted
    BY <1>1, <1>3 DEF NothingEvicted, RowsOf
  <2>. QED
    BY <2>1, <2>2
<1>5. NeighboursKnown'
  <2>1. \A i : Comparable(i)' <=> Comparable(i)
    BY <1>1, <1>3, <1>4 DEF Comparable, Once
  <2>2. \A i, j : CrowdedOut(i, j)' <=> CrowdedOut(i, j)
    BY <1>3 DEF CrowdedOut, NoLessSimilar
  <2>. QED
    BY <1>2, <1>3, <2>1, <2>2 DEF NeighboursKnown, MemoryInv, Begun, Noticed
<1>6. saved' \in Seq(Packages)
  <2>. DEFINE mine == [incident |-> IncidentOf[a], matches |-> attempts[a].matches]
              present == {i \in DOMAIN saved : saved[i].incident = IncidentOf[a]}
  <2>1. mine \in Packages /\ saved \in Seq(Packages)
    BY <1>1 DEF Packages, Begun, At, MemoryInv
  <2>2. saved' = IF present = {} THEN Append(saved, mine)
                 ELSE [i \in DOMAIN saved |-> IF i \in present THEN mine ELSE saved[i]]
    BY DEF SavePackage
  <2>. HIDE DEF mine, present
  <2>3. [i \in DOMAIN saved |-> IF i \in present THEN mine ELSE saved[i]] \in Seq(Packages)
    BY <2>1
  <2>. QED
    BY <2>1, <2>2, <2>3
<1>. QED
  BY <1>1, <1>2, <1>3, <1>4, <1>5, <1>6 DEF MemoryInv

(* Nothing has begun. *)
LEMMA MemoryStart == Init => InMemory
<1>. SUFFICES ASSUME Init PROVE MemoryInv
  BY DEF InMemory
<1>1. /\ rows = <<>> /\ saved = <<>> /\ DOMAIN attempts = Attempts
      /\ \A a \in Attempts : attempts[a].step = "begin"
  BY DEF Init
<1>2. Begun = {} /\ NothingEvicted
  BY <1>1 DEF Begun, At, NothingEvicted
<1>3. IsFiniteSet(Begun)
  BY <1>2, FS_EmptySet
<1>. QED
  BY <1>1, <1>2, <1>3 DEF MemoryInv, NeighboursKnown

(* The other steps are those of Postgres, the rules and the dossiers. *)
LEMMA MemoryStep == InMemory /\ [Next]_vars => InMemory'
<1>. SUFFICES ASSUME InMemory, [Next]_vars, ~ durable' PROVE MemoryInv'
  BY DEF InMemory
<1>1. ~ durable /\ MemoryInv
  BY DEF InMemory, Next, vars
<1>2. CASE UNCHANGED caseVars
  <2>1. /\ Begun' = Begun /\ attempts' = attempts /\ rows' = rows /\ saved' = saved
        /\ Packages' = Packages /\ (NothingEvicted <=> NothingEvicted')
        /\ \A i : Comparable(i)' <=> Comparable(i)
        /\ \A i, j : CrowdedOut(i, j)' <=> CrowdedOut(i, j)
    BY <1>2 DEF caseVars, Begun, At, NothingEvicted, RowsOf, Packages, Comparable, Once, CrowdedOut,
                NoLessSimilar
  <2>2. NeighboursKnown'
    BY <1>1, <2>1 DEF MemoryInv, NeighboursKnown, Noticed
  <2>. QED
    BY <1>1, <2>1, <2>2 DEF MemoryInv
<1>3. CASE CasesNext
  <2>1. PICK a \in Attempts : \/ FingerprintInMemory(a) \/ Match(a) \/ SelectRow(a)
                              \/ CommitRow(a) \/ SavePackage(a)
    BY <1>3 DEF CasesNext
  <2>2. ~ Match(a) /\ ~ SelectRow(a) /\ ~ CommitRow(a)
    BY <1>1 DEF Match, SelectRow, CommitRow, At, MemoryInv
  <2>. QED
    BY <1>1, <2>1, <2>2, StoredInMemory, SavedInMemory
<1>. QED
  BY <1>2, <1>3 DEF Next, vars

(* The invariant of the in-memory stores holds. *)
THEOREM InMemoryHolds == Spec => []InMemory
  BY MemoryStart, MemoryStep, PTL DEF Spec

(* Of two incidents of a campaign that are linked directly and whose
   fingerprints a comparison reads, the package of one names the other
   (FingerprintEngine.match), unless as many others as an incident shows are no
   less similar: for any number of attempts, retried ones included, of
   incidents and of features, and any bound of the store, of what a comparison
   reads and of what an incident shows. After an eviction it says nothing of an
   incident with a second attempt, which may have been unknown meanwhile. *)
THEOREM NeighboursAreFound == Spec => []NeighboursAreMatched
<1>1. InMemory => NeighboursAreMatched
  <2>. SUFFICES ASSUME MemoryInv,
                       NEW p \in ToSet(saved), NEW q \in ToSet(saved),
                       p.incident # q.incident,
                       Linked(Profile[p.incident], Profile[q.incident]),
                       Comparable(p.incident), Comparable(q.incident)
                PROVE  \/ p.incident \in q.matches \/ q.incident \in p.matches
                       \/ CrowdedOut(p.incident, q.incident) \/ CrowdedOut(q.incident, p.incident)
    BY DEF InMemory, NeighboursAreMatched
  <2>1. p \in Packages /\ q \in Packages
    BY DEF MemoryInv, ToSet
  <2>2. PICK a \in Begun : p = [incident |-> IncidentOf[a], matches |-> attempts[a].matches]
    BY <2>1 DEF Packages
  <2>3. PICK b \in Begun : q = [incident |-> IncidentOf[b], matches |-> attempts[b].matches]
    BY <2>1 DEF Packages
  <2>4. /\ p.incident = IncidentOf[a] /\ p.matches = attempts[a].matches
        /\ q.incident = IncidentOf[b] /\ q.matches = attempts[b].matches
    BY <2>2, <2>3
  <2>5. Noticed(p.incident, q.incident, p.matches, q.matches)
    BY <2>4 DEF MemoryInv, NeighboursKnown
  <2>. QED
    BY <2>5 DEF Noticed
<1>. QED
  BY <1>1, InMemoryHolds, PTL

-----------------------------------------------------------------------------
(* A union-find over 1..n: every step up stays in the class, whose name is
   root, and lowers the depth; the root of a class is at depth 0. *)
Upward(n, parent, root, depth) ==
  /\ parent \in [1..n -> 1..n] /\ root \in [1..n -> 1..n] /\ depth \in [1..n -> Nat]
  /\ \A x \in 1..n : /\ root[parent[x]] = root[x]
                     /\ parent[x] # x => depth[parent[x]] < depth[x]
                     /\ parent[x] = x => root[x] = x /\ depth[x] = 0
                     /\ depth[root[x]] = 0

(* A step of find halves the path and changes no class. *)
LEMMA WalkUp ==
  ASSUME NEW n \in Nat, NEW root, NEW depth, NEW uf, Upward(n, uf.parent, root, depth),
         uf.at \in 1..n, NEW w, w = Walk(uf)
  PROVE  /\ Upward(n, w.parent, root, depth) /\ w.at \in 1..n
         /\ root[w.at] = root[uf.at]
         /\ depth[w.at] < depth[uf.at] \/ depth[w.at] = 0
<1>. DEFINE p == uf.parent  x == uf.at  up == p[p[x]]
<1>1. CASE p[x] = x
  <2>1. w = uf
    BY <1>1 DEF Walk
  <2>. QED
    BY <1>1, <2>1 DEF Upward
<1>2. CASE p[x] # x
  <2>1. w.parent = [p EXCEPT ![x] = up] /\ w.at = up
    BY <1>2 DEF Walk
  <2>2. p \in [1..n -> 1..n] /\ x \in 1..n /\ p[x] \in 1..n /\ up \in 1..n
    BY DEF Upward
  <2>3. depth[x] \in Nat /\ depth[p[x]] \in Nat /\ depth[up] \in Nat
    BY <2>2 DEF Upward
  <2>4. depth[p[x]] < depth[x] /\ (up # p[x] => depth[up] < depth[p[x]])
    BY <1>2, <2>2 DEF Upward
  <2>5. depth[up] < depth[x] /\ up # x
    BY <2>3, <2>4
  <2>6. root[up] = root[x]
    BY <2>2 DEF Upward
  <2>. DEFINE q == w.parent
  <2>7. q \in [1..n -> 1..n] /\ q[x] = up /\ \A y \in 1..n : y # x => q[y] = p[y]
    BY <2>1, <2>2
  <2>. HIDE DEF q
  <2>8. ASSUME NEW y \in 1..n
        PROVE  /\ root[q[y]] = root[y]
               /\ q[y] # y => depth[q[y]] < depth[y]
               /\ q[y] = y => root[y] = y /\ depth[y] = 0
               /\ depth[root[y]] = 0
    <3>1. CASE y = x
      <4>1. depth[root[y]] = 0
        BY DEF Upward
      <4>. QED
        BY <2>5, <2>6, <2>7, <3>1, <4>1
    <3>2. CASE y # x
      BY <2>7, <3>2 DEF Upward
    <3>. QED
      BY <3>1, <3>2
  <2>9. Upward(n, q, root, depth)
    BY <2>7, <2>8 DEF Upward
  <2>. QED
    BY <2>1, <2>2, <2>5, <2>6, <2>9 DEF q
<1>. QED
  BY <1>1, <1>2

(* The steps of find, N of them. *)
Walked(parent, x, N, s) ==
  s = [i \in 0..N |-> IF i = 0 THEN [parent |-> parent, at |-> x] ELSE Walk(s[i - 1])]

(* They are a function. *)
LEMMA WalkedExists ==
  ASSUME NEW parent, NEW x, NEW N \in Nat
  PROVE  \E s : Walked(parent, x, N, s)
<1>. DEFINE Defined(n) == \E s : Walked(parent, x, n, s)
            Bad == {n \in 0..N : ~ Defined(n)}
<1>1. SUFFICES ASSUME N \in Bad PROVE FALSE
  OBVIOUS
<1>2. Bad \in SUBSET Nat /\ Bad # {}
  <2>. HIDE DEF Defined
  <2>. QED
    BY <1>1
<1>3. PICK n \in Bad : \A m \in Bad : n <= m
  <2>. HIDE DEF Bad
  <2>. QED
    BY <1>2, HasLeast
<1>4. n # 0
  <2>1. Walked(parent, x, 0, [i \in 0..0 |-> [parent |-> parent, at |-> x]])
    BY DEF Walked
  <2>. QED
    BY <1>3, <2>1
<1>5. PICK s : Walked(parent, x, n - 1, s)
  <2>1. n - 1 \in 0..N /\ ~ (n <= n - 1)
    BY <1>3, <1>4
  <2>2. n - 1 \notin Bad
    BY <1>3, <2>1
  <2>. QED
    BY <2>1, <2>2
<1>. DEFINE v == [i \in 0..n |-> IF i = n THEN Walk(s[n - 1]) ELSE s[i]]
<1>6. n \in Nat /\ n - 1 \in 0..n /\ n - 1 # n
  BY <1>3, <1>4
<1>7. ASSUME NEW i \in 0..n
      PROVE  v[i] = IF i = 0 THEN [parent |-> parent, at |-> x] ELSE Walk(v[i - 1])
  <2>1. CASE i = n
    BY <1>4, <1>6, <2>1
  <2>2. CASE i # n
    <3>1. i \in 0..n - 1 /\ (i # 0 => i - 1 \in 0..n /\ i - 1 # n)
      BY <1>6, <2>2
    <3>. QED
      BY <1>5, <2>2, <3>1 DEF Walked
  <2>. QED
    BY <2>1, <2>2
<1>8. Walked(parent, x, n, v)
  <2>1. v = [i \in 0..n |-> v[i]]
    OBVIOUS
  <2>. HIDE DEF v
  <2>. QED
    BY <1>7, <2>1 DEF Walked
<1>. QED
  BY <1>3, <1>8

(* find gives the root of the class, and changes no class; no path is longer
   than there are nodes. *)
LEMMA FindIs ==
  ASSUME NEW n \in Nat, NEW parent, NEW root, NEW depth, Upward(n, parent, root, depth),
         \A y \in 1..n : depth[y] < n, NEW x \in 1..n, NEW f, f = Find(parent, x)
  PROVE  f.at = root[x] /\ Upward(n, f.parent, root, depth)
<1>. DEFINE s == CHOOSE s : Walked(parent, x, n, s)
<1>1. Walked(parent, x, n, s)
  BY WalkedExists
<1>2. f = s[n]
  <2>1. Len(parent) = n
    BY DEF Upward
  <2>. QED
    BY <2>1 DEF Find, Walked
<1>. HIDE DEF s
<1>. DEFINE Good(i) == /\ Upward(n, s[i].parent, root, depth) /\ s[i].at \in 1..n
                       /\ root[s[i].at] = root[x]
                       /\ depth[s[i].at] + i < n \/ depth[s[i].at] = 0
            Bad == {i \in 0..n : ~ Good(i)}
<1>3. Good(0)
  <2>1. s[0] = [parent |-> parent, at |-> x]
    BY <1>1 DEF Walked
  <2>2. depth[x] \in Nat /\ depth[x] < n
    BY DEF Upward
  <2>. QED
    BY <2>1, <2>2
<1>4. ASSUME NEW i \in 1..n, Good(i - 1) PROVE Good(i)
  <2>1. s[i] = Walk(s[i - 1])
    BY <1>1 DEF Walked
  <2>2. /\ Upward(n, s[i].parent, root, depth) /\ s[i].at \in 1..n
        /\ root[s[i].at] = root[s[i - 1].at]
        /\ depth[s[i].at] < depth[s[i - 1].at] \/ depth[s[i].at] = 0
    BY <1>4, <2>1, WalkUp
  <2>3. depth[s[i].at] \in Nat /\ depth[s[i - 1].at] \in Nat
    BY <1>4, <2>2 DEF Upward
  <2>. DEFINE a == depth[s[i].at]  b == depth[s[i - 1].at]
  <2>4. a \in Nat /\ b \in Nat /\ (a < b \/ a = 0) /\ (b + (i - 1) < n \/ b = 0)
    BY <1>4, <2>2, <2>3
  <2>. HIDE DEF a, b
  <2>5. a + i < n \/ a = 0
    BY <2>4
  <2>. QED
    BY <1>4, <2>2, <2>5 DEF a
<1>. HIDE DEF Good
<1>5. Good(n)
  <2>. SUFFICES ASSUME ~ Good(n) PROVE FALSE
    OBVIOUS
  <2>1. Bad \in SUBSET Nat /\ Bad # {}
    OBVIOUS
  <2>2. PICK m \in Bad : \A k \in Bad : m <= k
    <3>. HIDE DEF Bad
    <3>. QED
      BY <2>1, HasLeast
  <2>3. m \in 1..n
    BY <1>3, <2>2
  <2>4. m - 1 \in 0..n /\ ~ (m <= m - 1)
    BY <2>3
  <2>5. Good(m - 1)
    BY <2>2, <2>4
  <2>. QED
    BY <1>4, <2>2, <2>3, <2>5
<1>6. depth[s[n].at] = 0 /\ s[n].at \in 1..n
  <2>1. depth[s[n].at] \in Nat
    BY <1>5 DEF Good, Upward
  <2>. QED
    BY <1>5, <2>1 DEF Good
<1>7. root[s[n].at] = s[n].at
  <2>. DEFINE p == s[n].parent  y == s[n].at
  <2>1. Upward(n, p, root, depth)
    BY <1>5 DEF Good
  <2>2. y \in 1..n /\ depth[y] = 0
    BY <1>6
  <2>. HIDE DEF p, y
  <2>3. p[y] \in 1..n /\ depth[p[y]] \in Nat
    BY <2>1, <2>2 DEF Upward
  <2>4. p[y] # y => depth[p[y]] < 0
    BY <2>1, <2>2 DEF Upward
  <2>5. p[y] = y
    BY <2>3, <2>4
  <2>6. root[y] = y
    BY <2>1, <2>2, <2>5 DEF Upward
  <2>. QED
    BY <2>6 DEF y
<1>. QED
  BY <1>2, <1>5, <1>7 DEF Good

(* Roots are at rest. *)
LEMMA RootsRest ==
  ASSUME NEW n, NEW parent, NEW root, NEW depth, Upward(n, parent, root, depth), NEW x \in 1..n
  PROVE  /\ root[x] \in 1..n /\ parent[root[x]] = root[x]
         /\ root[root[x]] = root[x] /\ depth[root[x]] = 0
<1>. DEFINE r == root[x]
<1>1. r \in 1..n /\ depth[r] = 0
  BY DEF Upward
<1>. HIDE DEF r
<1>2. parent[r] \in 1..n /\ depth[parent[r]] \in Nat
  BY <1>1 DEF Upward
<1>3. parent[r] # r => depth[parent[r]] < 0
  BY <1>1 DEF Upward
<1>4. parent[r] = r
  BY <1>2, <1>3
<1>5. root[r] = r
  BY <1>1, <1>4 DEF Upward
<1>. QED
  BY <1>1, <1>4, <1>5 DEF r

(* The classes of a union-find: none is deeper than it has members. *)
ClassOf(n, root, x) == {y \in 1..n : root[y] = root[x]}
Classes(n, parent, root) ==
  \E depth : /\ Upward(n, parent, root, depth)
             /\ \A x \in 1..n : depth[x] < Cardinality(ClassOf(n, root, x))

(* A class has no more members than there are. *)
LEMMA ClassesFinite ==
  ASSUME NEW n \in Nat, NEW root, NEW x
  PROVE  /\ IsFiniteSet(ClassOf(n, root, x)) /\ Cardinality(ClassOf(n, root, x)) \in Nat
         /\ Cardinality(ClassOf(n, root, x)) <= n
<1>1. ClassOf(n, root, x) \subseteq 1..n
  BY DEF ClassOf
<1>2. IsFiniteSet(1..n) /\ Cardinality(1..n) = n
  BY FS_Interval
<1>3. IsFiniteSet(ClassOf(n, root, x)) /\ Cardinality(ClassOf(n, root, x)) <= Cardinality(1..n)
  BY <1>1, <1>2, FS_Subset
<1>. QED
  BY <1>2, <1>3, FS_CardinalityType

(* The classes once those of a and b are one. *)
Merged(n, root, a, b) ==
  [x \in 1..n |-> IF root[x] = root[a] THEN root[b] ELSE root[x]]

(* union joins two classes and no others. *)
LEMMA UnionIs ==
  ASSUME NEW n \in Nat, NEW parent, NEW root, Classes(n, parent, root),
         NEW a \in 1..n, NEW b \in 1..n
  PROVE  Classes(n, Union(parent, a, b), Merged(n, root, a, b))
<1>1. PICK depth : /\ Upward(n, parent, root, depth)
                   /\ \A x \in 1..n : depth[x] < Cardinality(ClassOf(n, root, x))
  BY DEF Classes
<1>2. \A x \in 1..n : depth[x] \in Nat /\ depth[x] < n
  <2>. SUFFICES ASSUME NEW x \in 1..n PROVE depth[x] \in Nat /\ depth[x] < n
    OBVIOUS
  <2>1. depth[x] \in Nat
    BY <1>1 DEF Upward
  <2>. QED
    BY <1>1, <2>1, ClassesFinite
<1>. DEFINE f == Find(parent, b)  h == Find(f.parent, a)
<1>3. f.at = root[b] /\ Upward(n, f.parent, root, depth)
  BY <1>1, <1>2, FindIs
<1>4. h.at = root[a] /\ Upward(n, h.parent, root, depth)
  BY <1>2, <1>3, FindIs
<1>5. Union(parent, a, b) = [h.parent EXCEPT ![h.at] = f.at]
  BY DEF Union
<1>. HIDE DEF f, h
<1>. DEFINE p == h.parent  ta == root[a]  tb == root[b]
            q == [p EXCEPT ![ta] = tb]  m == Merged(n, root, a, b)
<1>6. Union(parent, a, b) = q
  BY <1>3, <1>4, <1>5
<1>7. Upward(n, p, root, depth)
  BY <1>4
<1>. HIDE DEF p
<1>8. /\ ta \in 1..n /\ tb \in 1..n /\ root[ta] = ta /\ root[tb] = tb
      /\ p[ta] = ta /\ p[tb] = tb /\ depth[ta] = 0 /\ depth[tb] = 0
  BY <1>7, RootsRest
<1>9. p \in [1..n -> 1..n] /\ root \in [1..n -> 1..n] /\ depth \in [1..n -> Nat]
  BY <1>7 DEF Upward
<1>10. CASE ta = tb
  <2>1. q = p
    BY <1>8, <1>9, <1>10
  <2>2. m = root
    BY <1>9, <1>10 DEF Merged
  <2>. QED
    BY <1>1, <1>6, <1>7, <2>1, <2>2 DEF Classes
<1>11. CASE ta # tb
  <2>. DEFINE deep == [x \in 1..n |-> IF root[x] = ta THEN depth[x] + 1 ELSE depth[x]]
  <2>1. /\ q \in [1..n -> 1..n] /\ m \in [1..n -> 1..n] /\ deep \in [1..n -> Nat]
        /\ q[ta] = tb /\ \A x \in 1..n : x # ta => q[x] = p[x]
        /\ \A x \in 1..n : m[x] = IF root[x] = ta THEN tb ELSE root[x]
        /\ \A x \in 1..n : deep[x] = IF root[x] = ta THEN depth[x] + 1 ELSE depth[x]
    <3>1. q \in [1..n -> 1..n] /\ q[ta] = tb /\ \A x \in 1..n : x # ta => q[x] = p[x]
      BY <1>8, <1>9
    <3>2. \A x \in 1..n : m[x] = IF root[x] = ta THEN tb ELSE root[x]
      BY DEF Merged
    <3>3. m \in [1..n -> 1..n]
      BY <1>8, <1>9 DEF Merged
    <3>4. \A x \in 1..n : depth[x] \in Nat /\ depth[x] + 1 \in Nat
      BY <1>2
    <3>. HIDE DEF ta, tb
    <3>5. /\ deep \in [1..n -> Nat]
          /\ \A x \in 1..n : deep[x] = IF root[x] = ta THEN depth[x] + 1 ELSE depth[x]
      BY <3>4
    <3>. HIDE DEF q, m, deep
    <3>. QED
      BY <3>1, <3>2, <3>3, <3>5
  <2>. HIDE DEF q, m, deep, ta, tb
  <2>2. ASSUME NEW x \in 1..n
        PROVE  /\ m[q[x]] = m[x]
               /\ q[x] # x => deep[q[x]] < deep[x]
               /\ q[x] = x => m[x] = x /\ deep[x] = 0
               /\ deep[m[x]] = 0
    <3>1. deep[m[x]] = 0
      <4>1. root[x] \in 1..n /\ root[root[x]] = root[x] /\ depth[root[x]] = 0
        BY <1>7, RootsRest
      <4>2. CASE root[x] = ta
        <5>1. m[x] = tb /\ root[tb] # ta
          BY <1>8, <1>11, <2>1, <4>2
        <5>. QED
          BY <1>8, <2>1, <5>1
      <4>3. CASE root[x] # ta
        <5>1. m[x] = root[x] /\ root[root[x]] # ta
          BY <2>1, <4>1, <4>3
        <5>. QED
          BY <2>1, <4>1, <5>1
      <4>. QED
        BY <4>2, <4>3
    <3>2. CASE x = ta
      <4>1. q[x] = tb /\ m[x] = tb
        BY <1>8, <2>1, <3>2
      <4>2. m[tb] = tb /\ deep[tb] = 0
        BY <1>8, <1>11, <2>1
      <4>3. deep[x] = 0 + 1
        BY <1>8, <2>1, <3>2
      <4>4. deep[q[x]] < deep[x]
        BY <4>1, <4>2, <4>3
      <4>. QED
        BY <1>11, <3>1, <3>2, <4>1, <4>2, <4>4
    <3>3. CASE x # ta
      <4>1. q[x] = p[x] /\ p[x] \in 1..n /\ root[p[x]] = root[x]
        BY <1>7, <1>9, <2>1, <3>3 DEF Upward
      <4>2. m[q[x]] = m[x]
        BY <2>1, <4>1
      <4>3. q[x] # x => deep[q[x]] < deep[x]
        <5>1. p[x] # x => depth[p[x]] < depth[x]
          BY <1>7 DEF Upward
        <5>2. depth[p[x]] \in Nat /\ depth[x] \in Nat
          BY <1>2, <4>1
        <5>3. \/ deep[p[x]] = depth[p[x]] /\ deep[x] = depth[x]
              \/ deep[p[x]] = depth[p[x]] + 1 /\ deep[x] = depth[x] + 1
          BY <2>1, <4>1
        <5>4. depth[p[x]] < depth[x] => deep[p[x]] < deep[x]
          BY <5>2, <5>3
        <5>. QED
          BY <4>1, <5>1, <5>4
      <4>4. q[x] = x => m[x] = x /\ deep[x] = 0
        <5>1. p[x] = x => root[x] = x /\ depth[x] = 0
          BY <1>7 DEF Upward
        <5>. QED
          BY <2>1, <3>3, <4>1, <5>1
      <4>. QED
        BY <3>1, <4>2, <4>3, <4>4
    <3>. QED
      BY <3>2, <3>3
  <2>3. Upward(n, q, m, deep)
    BY <2>1, <2>2 DEF Upward
  <2>4. ASSUME NEW x \in 1..n PROVE deep[x] < Cardinality(ClassOf(n, m, x))
    <3>. DEFINE A == ClassOf(n, root, a)  B == ClassOf(n, root, b)
                C == ClassOf(n, root, x)  D == ClassOf(n, m, x)
    <3>1. /\ IsFiniteSet(A) /\ IsFiniteSet(B) /\ Cardinality(A) \in Nat /\ Cardinality(B) \in Nat
          /\ Cardinality(C) \in Nat /\ Cardinality(D) \in Nat
      BY ClassesFinite
    <3>2. \A y \in 1..n : (y \in A <=> root[y] = ta) /\ (y \in B <=> root[y] = tb)
      BY DEF ClassOf, ta, tb
    <3>3. A \subseteq 1..n /\ B \subseteq 1..n /\ b \in B /\ a \in A
      BY DEF ClassOf
    <3>4. Cardinality(A \cup B) = Cardinality(A) + Cardinality(B)
      <4>1. A \cap B = {}
        BY <1>11, <3>2, <3>3
      <4>2. Cardinality(A \cup B) = Cardinality(A) + Cardinality(B) - Cardinality(A \cap B)
        BY <3>1, FS_Union
      <4>3. Cardinality(A \cap B) = 0
        BY <4>1, FS_EmptySet
      <4>. QED
        BY <3>1, <4>2, <4>3
    <3>5. Cardinality(A) # 0 /\ Cardinality(B) # 0
      BY <3>1, <3>3, FS_EmptySet
    <3>6. depth[x] \in Nat /\ depth[x] < Cardinality(C)
      BY <1>1, <1>2
    <3>7. \A y \in 1..n : y \in D <=> m[y] = m[x]
      BY DEF ClassOf
    <3>8. D \subseteq 1..n /\ C \subseteq 1..n /\ \A y \in 1..n : y \in C <=> root[y] = root[x]
      BY DEF ClassOf
    <3>. HIDE DEF A, B, C, D
    <3>9. ASSUME root[x] \in {ta, tb} PROVE deep[x] < Cardinality(D)
      <4>1. D = A \cup B
        <5>1. m[x] = tb
          BY <2>1, <3>9
        <5>2. \A y \in 1..n : y \in D <=> y \in A \/ y \in B
          BY <2>1, <3>2, <3>7, <5>1
        <5>. QED
          BY <3>3, <3>8, <5>2
      <4>2. C = A \/ C = B
        <5>1. (root[x] = ta => C = A) /\ (root[x] = tb => C = B)
          BY <3>2, <3>3, <3>8
        <5>. QED
          BY <3>9, <5>1
      <4>3. root[x] = ta => C = A
        BY <3>2, <3>3, <3>8
      <4>4. CASE root[x] = ta
        <5>1. deep[x] = depth[x] + 1 /\ C = A
          BY <2>1, <4>3, <4>4
        <5>. QED
          BY <3>1, <3>4, <3>5, <3>6, <4>1, <5>1
      <4>5. CASE root[x] # ta
        <5>1. deep[x] = depth[x]
          BY <2>1, <4>5
        <5>. QED
          BY <3>1, <3>4, <3>5, <3>6, <4>1, <4>2, <5>1
      <4>. QED
        BY <4>4, <4>5
    <3>10. ASSUME root[x] \notin {ta, tb} PROVE deep[x] < Cardinality(D)
      <4>1. deep[x] = depth[x] /\ m[x] = root[x]
        BY <2>1, <3>10
      <4>2. D = C
        <5>1. \A y \in 1..n : y \in D <=> y \in C
          BY <2>1, <3>7, <3>8, <3>10, <4>1
        <5>. QED
          BY <3>8, <5>1
      <4>. QED
        BY <3>6, <4>1, <4>2
    <3>. QED
      BY <3>9, <3>10 DEF D
  <2>. QED
    BY <1>6, <2>3, <2>4 DEF Classes, m
<1>. QED
  BY <1>10, <1>11

(* A set of places that no link leaves. *)
Closed(list, part) ==
  \A i \in part, j \in DOMAIN list \ part : ~ Linked(list[i], list[j]) /\ ~ Linked(list[j], list[i])

(* What the loops have joined so far, of the pairs T: they have one class if
   they are linked, and a class is never cut by a set that no link leaves. *)
Joint(list, T, forest, root) ==
  /\ Classes(Len(list), forest, root)
  /\ \A i, j \in DOMAIN list : <<i, j>> \in T /\ Linked(list[i], list[j]) => root[i] = root[j]
  /\ \A part \in SUBSET DOMAIN list : Closed(list, part) =>
       \A x \in part, y \in DOMAIN list : root[x] = root[y] => y \in part
JoinedUp(list, T, forest) == \E root : Joint(list, T, forest, root)

(* One pair more. *)
LEMMA OnePairMore ==
  ASSUME NEW S, NEW list \in Seq(S), NEW T, NEW forest, JoinedUp(list, T, forest),
         NEW i \in DOMAIN list, NEW j \in DOMAIN list
  PROVE  JoinedUp(list, T \cup {<<i, j>>},
                  IF Linked(list[i], list[j]) THEN Union(forest, i, j) ELSE forest)
<1>. DEFINE n == Len(list)
<1>1. n \in Nat /\ DOMAIN list = 1..n
  BY LenProperties
<1>. HIDE DEF n
<1>2. PICK root : Joint(list, T, forest, root)
  BY DEF JoinedUp
<1>3. Classes(n, forest, root)
  BY <1>2 DEF Joint, n
<1>4. CASE ~ Linked(list[i], list[j])
  <2>1. Joint(list, T \cup {<<i, j>>}, forest, root)
    BY <1>2, <1>4 DEF Joint
  <2>. QED
    BY <1>4, <2>1 DEF JoinedUp
<1>5. CASE Linked(list[i], list[j])
  <2>. DEFINE m == Merged(n, root, i, j)
  <2>1. Classes(n, Union(forest, i, j), m)
    BY <1>1, <1>3, UnionIs
  <2>2. \A x \in 1..n : m[x] = IF root[x] = root[i] THEN root[j] ELSE root[x]
    BY DEF Merged
  <2>. HIDE DEF m
  <2>3. \A x, y \in DOMAIN list :
          <<x, y>> \in T \cup {<<i, j>>} /\ Linked(list[x], list[y]) => m[x] = m[y]
    <3>. SUFFICES ASSUME NEW x \in DOMAIN list, NEW y \in DOMAIN list,
                         <<x, y>> \in T \cup {<<i, j>>}, Linked(list[x], list[y])
                  PROVE  m[x] = m[y]
      OBVIOUS
    <3>1. CASE <<x, y>> \in T
      <4>1. root[x] = root[y]
        BY <1>2, <3>1 DEF Joint
      <4>. QED
        BY <1>1, <2>2, <4>1
    <3>2. CASE x = i /\ y = j
      BY <1>1, <2>2, <3>2
    <3>. QED
      BY <3>1, <3>2
  <2>4. ASSUME NEW part \in SUBSET DOMAIN list, Closed(list, part), NEW x \in part,
               NEW y \in DOMAIN list, m[x] = m[y]
        PROVE  y \in part
    <3>1. i \in part <=> j \in part
      BY <1>5, <2>4 DEF Closed
    <3>2. \A u, v \in DOMAIN list : root[u] = root[v] => (u \in part <=> v \in part)
      BY <1>2, <2>4 DEF Joint
    <3>3. \A u \in 1..n :
            (m[u] = root[u] /\ root[u] # root[i]) \/ (m[u] = root[j] /\ root[u] = root[i])
      BY <2>2, Zenon
    <3>4. x \in DOMAIN list
      OBVIOUS
    <3>5. /\ (m[x] = root[x] /\ root[x] # root[i]) \/ (m[x] = root[j] /\ root[x] = root[i])
          /\ (m[y] = root[y] /\ root[y] # root[i]) \/ (m[y] = root[j] /\ root[y] = root[i])
      BY <1>1, <3>3, <3>4, Zenon
    <3>6. \/ root[x] = root[y]
          \/ root[x] = root[i] /\ root[y] = root[j]
          \/ root[x] = root[j] /\ root[y] = root[i]
      BY <2>4, <3>5
    <3>. QED
      BY <2>4, <3>1, <3>2, <3>4, <3>6, Zenon
  <2>5. Joint(list, T \cup {<<i, j>>}, Union(forest, i, j), m)
    BY <2>1, <2>3, <2>4 DEF Joint, n
  <2>. QED
    BY <1>5, <2>5 DEF JoinedUp
<1>. QED
  BY <1>4, <1>5

(* The rounds of the inner loop, for the i-th package. *)
InnerLoop(list, i, forest, N, s) ==
  s = [j \in i..N |-> IF j = i THEN forest
                      ELSE IF Linked(list[i], list[j]) THEN Union(s[j - 1], i, j) ELSE s[j - 1]]

(* They are a function. *)
LEMMA InnerLoopExists ==
  ASSUME NEW list, NEW i \in Nat, NEW forest, NEW N \in Nat, i <= N
  PROVE  \E s : InnerLoop(list, i, forest, N, s)
<1>. DEFINE Defined(n) == \E s : InnerLoop(list, i, forest, n, s)
            Bad == {n \in i..N : ~ Defined(n)}
            Next1(t, j) == IF Linked(list[i], list[j]) THEN Union(t, i, j) ELSE t
<1>1. SUFFICES ASSUME N \in Bad PROVE FALSE
  OBVIOUS
<1>2. Bad \in SUBSET Nat /\ Bad # {}
  <2>. HIDE DEF Defined
  <2>. QED
    BY <1>1
<1>3. PICK n \in Bad : \A m \in Bad : n <= m
  <2>. HIDE DEF Bad
  <2>. QED
    BY <1>2, HasLeast
<1>4. n # i
  <2>1. InnerLoop(list, i, forest, i, [j \in i..i |-> forest])
    BY DEF InnerLoop
  <2>. QED
    BY <1>3, <2>1
<1>5. PICK s : InnerLoop(list, i, forest, n - 1, s)
  <2>1. n - 1 \in i..N /\ ~ (n <= n - 1)
    BY <1>3, <1>4
  <2>2. n - 1 \notin Bad
    BY <1>3, <2>1
  <2>. QED
    BY <2>1, <2>2
<1>. DEFINE v == [j \in i..n |-> IF j = n THEN Next1(s[n - 1], n) ELSE s[j]]
<1>6. n \in Nat /\ n - 1 \in i..n /\ n - 1 # n
  BY <1>3, <1>4
<1>7. ASSUME NEW j \in i..n
      PROVE  v[j] = IF j = i THEN forest ELSE Next1(v[j - 1], j)
  <2>. HIDE DEF Next1
  <2>1. CASE j = n
    BY <1>4, <1>6, <2>1
  <2>2. CASE j # n
    <3>1. j \in i..n - 1 /\ (j # i => j - 1 \in i..n /\ j - 1 # n)
      BY <1>6, <2>2
    <3>2. s[j] = IF j = i THEN forest ELSE Next1(s[j - 1], j)
      BY <1>5, <3>1 DEF InnerLoop, Next1
    <3>. QED
      BY <2>2, <3>1, <3>2
  <2>. QED
    BY <2>1, <2>2
<1>8. InnerLoop(list, i, forest, n, v)
  <2>1. v = [j \in i..n |-> v[j]]
    OBVIOUS
  <2>. HIDE DEF v
  <2>2. v = [j \in i..n |-> IF j = i THEN forest ELSE Next1(v[j - 1], j)]
    <3>. HIDE DEF Next1
    <3>. QED
      BY <1>7, <2>1
  <2>. QED
    BY <2>2 DEF InnerLoop
<1>. QED
  BY <1>3, <1>8

(* The inner loop joins its package with all that follow it and are linked. *)
LEMMA LinkingIs ==
  ASSUME NEW S, NEW list \in Seq(S), NEW T, NEW forest, JoinedUp(list, T, forest),
         NEW i \in DOMAIN list
  PROVE  JoinedUp(list, T \cup {<<i, k>> : k \in i + 1..Len(list)}, Linking(list, i, forest))
<1>. DEFINE n == Len(list)
<1>1. n \in Nat /\ DOMAIN list = 1..n
  BY LenProperties
<1>. DEFINE s == CHOOSE s : InnerLoop(list, i, forest, n, s)
<1>2. Linking(list, i, forest) = s[n]
  BY DEF Linking, InnerLoop
<1>. HIDE DEF n
<1>3. i \in 1..n /\ i \in Nat /\ i <= n
  BY <1>1
<1>4. InnerLoop(list, i, forest, n, s)
  <2>1. \E t : InnerLoop(list, i, forest, n, t)
    BY <1>1, <1>3, InnerLoopExists
  <2>. QED
    BY <2>1
<1>. HIDE DEF s
<1>. DEFINE Upto(j) == T \cup {<<i, k>> : k \in i + 1..j}
            Bad == {j \in i..n : ~ JoinedUp(list, Upto(j), s[j])}
<1>5. JoinedUp(list, Upto(i), s[i])
  <2>1. s[i] = forest
    BY <1>3, <1>4 DEF InnerLoop
  <2>2. {<<i, k>> : k \in i + 1..i} = {}
    BY <1>3
  <2>3. Upto(i) = T
    BY <2>2
  <2>. HIDE DEF Upto
  <2>. QED
    BY <2>1, <2>3
<1>6. ASSUME NEW j \in i + 1..n, JoinedUp(list, Upto(j - 1), s[j - 1])
      PROVE  JoinedUp(list, Upto(j), s[j])
  <2>1. s[j] = IF Linked(list[i], list[j]) THEN Union(s[j - 1], i, j) ELSE s[j - 1]
    BY <1>1, <1>3, <1>4 DEF InnerLoop
  <2>2. Upto(j) = Upto(j - 1) \cup {<<i, j>>}
    <3>1. i + 1..j = (i + 1..j - 1) \cup {j}
      BY <1>3
    <3>. QED
      BY <3>1
  <2>3. j \in DOMAIN list
    BY <1>1, <1>3
  <2>. HIDE DEF Upto
  <2>4. JoinedUp(list, Upto(j - 1) \cup {<<i, j>>},
                 IF Linked(list[i], list[j]) THEN Union(s[j - 1], i, j) ELSE s[j - 1])
    BY <1>6, <2>3, OnePairMore
  <2>. QED
    BY <2>1, <2>2, <2>4, Zenon
<1>. HIDE DEF Upto
<1>7. JoinedUp(list, Upto(n), s[n])
  <2>. SUFFICES ASSUME ~ JoinedUp(list, Upto(n), s[n]) PROVE FALSE
    OBVIOUS
  <2>1. Bad \in SUBSET Nat /\ Bad # {}
    BY <1>1, <1>3
  <2>2. PICK m \in Bad : \A k \in Bad : m <= k
    <3>. HIDE DEF Bad
    <3>. QED
      BY <2>1, HasLeast
  <2>3. m \in i + 1..n
    BY <1>1, <1>3, <1>5, <2>2
  <2>4. m - 1 \in i..n /\ ~ (m <= m - 1)
    BY <1>1, <1>3, <2>3
  <2>5. JoinedUp(list, Upto(m - 1), s[m - 1])
    BY <2>2, <2>4
  <2>. QED
    BY <1>6, <2>2, <2>3, <2>5
<1>. QED
  BY <1>2, <1>7 DEF Upto, n

(* The rounds of the outer loop. *)
OuterLoop(list, N, s) ==
  s = [i \in 0..N |-> IF i = 0 THEN [k \in DOMAIN list |-> k] ELSE Linking(list, i, s[i - 1])]

(* They are a function. *)
LEMMA OuterLoopExists ==
  ASSUME NEW list, NEW N \in Nat
  PROVE  \E s : OuterLoop(list, N, s)
<1>. DEFINE Defined(n) == \E s : OuterLoop(list, n, s)
            Bad == {n \in 0..N : ~ Defined(n)}
            start == [k \in DOMAIN list |-> k]
<1>1. SUFFICES ASSUME N \in Bad PROVE FALSE
  OBVIOUS
<1>2. Bad \in SUBSET Nat /\ Bad # {}
  <2>. HIDE DEF Defined
  <2>. QED
    BY <1>1
<1>3. PICK n \in Bad : \A m \in Bad : n <= m
  <2>. HIDE DEF Bad
  <2>. QED
    BY <1>2, HasLeast
<1>4. n # 0
  <2>1. OuterLoop(list, 0, [i \in 0..0 |-> start])
    BY DEF OuterLoop
  <2>. QED
    BY <1>3, <2>1
<1>5. PICK s : OuterLoop(list, n - 1, s)
  <2>1. n - 1 \in 0..N /\ ~ (n <= n - 1)
    BY <1>3, <1>4
  <2>2. n - 1 \notin Bad
    BY <1>3, <2>1
  <2>. QED
    BY <2>1, <2>2
<1>. DEFINE v == [i \in 0..n |-> IF i = n THEN Linking(list, n, s[n - 1]) ELSE s[i]]
<1>6. n \in Nat /\ n - 1 \in 0..n /\ n - 1 # n
  BY <1>3, <1>4
<1>7. ASSUME NEW i \in 0..n
      PROVE  v[i] = IF i = 0 THEN start ELSE Linking(list, i, v[i - 1])
  <2>1. CASE i = n
    BY <1>4, <1>6, <2>1
  <2>2. CASE i # n
    <3>1. i \in 0..n - 1 /\ (i # 0 => i - 1 \in 0..n /\ i - 1 # n)
      BY <1>6, <2>2
    <3>2. s[i] = IF i = 0 THEN start ELSE Linking(list, i, s[i - 1])
      BY <1>5, <3>1 DEF OuterLoop
    <3>. HIDE DEF start
    <3>. QED
      BY <2>2, <3>1, <3>2
  <2>. QED
    BY <2>1, <2>2
<1>8. OuterLoop(list, n, v)
  <2>1. v = [i \in 0..n |-> v[i]]
    OBVIOUS
  <2>. HIDE DEF v
  <2>. QED
    BY <1>7, <2>1 DEF OuterLoop
<1>. QED
  BY <1>3, <1>8

(* Every pair of places, the first one before the second. *)
AllPairs(n) == {<<i, j>> : i \in 1..n, j \in 1..n} \cap {e \in Nat \X Nat : e[1] < e[2]}

(* The two loops join what is linked. *)
LEMMA ForestIs ==
  ASSUME NEW S, NEW list \in Seq(S)
  PROVE  JoinedUp(list, AllPairs(Len(list)), Forest(list))
<1>. DEFINE n == Len(list)
<1>1. n \in Nat /\ DOMAIN list = 1..n
  BY LenProperties
<1>. DEFINE s == CHOOSE s : OuterLoop(list, n, s)
<1>2. Forest(list) = s[n]
  BY DEF Forest, OuterLoop
<1>3. OuterLoop(list, n, s)
  BY <1>1, OuterLoopExists
<1>. HIDE DEF s
<1>. DEFINE Upto(i) == {e \in AllPairs(n) : e[1] <= i}
            Bad == {i \in 0..n : ~ JoinedUp(list, Upto(i), s[i])}
<1>4. JoinedUp(list, Upto(0), s[0])
  <2>. DEFINE id == [k \in DOMAIN list |-> k]  zero == [k \in DOMAIN list |-> 0]
  <2>1. s[0] = id
    BY <1>1, <1>3 DEF OuterLoop
  <2>2. Upto(0) = {}
    BY DEF AllPairs
  <2>3. Upward(n, id, id, zero)
    BY <1>1 DEF Upward
  <2>4. ASSUME NEW x \in 1..n PROVE zero[x] < Cardinality(ClassOf(n, id, x))
    <3>1. x \in ClassOf(n, id, x)
      BY DEF ClassOf
    <3>2. Cardinality(ClassOf(n, id, x)) \in Nat /\ IsFiniteSet(ClassOf(n, id, x))
      BY <1>1, ClassesFinite
    <3>3. Cardinality(ClassOf(n, id, x)) # 0
      BY <3>1, <3>2, FS_EmptySet
    <3>4. zero[x] = 0
      BY <1>1
    <3>. HIDE DEF zero
    <3>. QED
      BY <3>2, <3>3, <3>4
  <2>5. Classes(n, id, id)
    BY <2>3, <2>4 DEF Classes
  <2>6. Joint(list, {}, id, id)
    BY <1>1, <2>5 DEF Joint
  <2>. QED
    BY <2>1, <2>2, <2>6 DEF JoinedUp
<1>5. ASSUME NEW i \in 1..n, JoinedUp(list, Upto(i - 1), s[i - 1])
      PROVE  JoinedUp(list, Upto(i), s[i])
  <2>1. s[i] = Linking(list, i, s[i - 1])
    <3>. HIDE DEF n
    <3>1. i \in 0..n /\ i # 0
      BY <1>1
    <3>. QED
      BY <1>3, <3>1 DEF OuterLoop
  <2>2. Upto(i) = Upto(i - 1) \cup {<<i, k>> : k \in i + 1..n}
    <3>1. \A e : e \in Upto(i) <=> e \in Upto(i - 1) \/ \E k \in i + 1..n : e = <<i, k>>
      BY <1>1 DEF AllPairs
    <3>. HIDE DEF Upto
    <3>. QED
      BY <3>1
  <2>3. i \in DOMAIN list
    BY <1>1
  <2>. HIDE DEF Upto
  <2>. QED
    BY <1>5, <2>1, <2>2, <2>3, LinkingIs
<1>6. Upto(n) = AllPairs(n)
  BY <1>1 DEF AllPairs
<1>. HIDE DEF Upto
<1>7. JoinedUp(list, Upto(n), s[n])
  <2>. SUFFICES ASSUME ~ JoinedUp(list, Upto(n), s[n]) PROVE FALSE
    OBVIOUS
  <2>. HIDE DEF n
  <2>1. Bad \in SUBSET Nat /\ Bad # {}
    BY <1>1
  <2>2. PICK m \in Bad : \A k \in Bad : m <= k
    <3>. HIDE DEF Bad
    <3>. QED
      BY <2>1, HasLeast
  <2>3. m \in 1..n
    BY <1>1, <1>4, <2>2
  <2>4. m - 1 \in 0..n /\ ~ (m <= m - 1)
    BY <1>1, <2>3
  <2>5. JoinedUp(list, Upto(m - 1), s[m - 1])
    BY <2>2, <2>4
  <2>. QED
    BY <1>5, <2>2, <2>3, <2>5
<1>. QED
  BY <1>2, <1>6, <1>7

(* The groups are the classes of the union-find: each place is in one, linked
   places are in the same, and a part of a group is linked to the rest of it. *)
LEMMA GroupsAre ==
  ASSUME NEW S, NEW list \in Seq(S),
         \A i, j \in DOMAIN list : Linked(list[i], list[j]) => Linked(list[j], list[i])
  PROVE  /\ IsFiniteSet(Groups(list)) /\ \A g \in Groups(list) : g # {} /\ g \subseteq DOMAIN list
         /\ \A g, h \in Groups(list) : g \cap h # {} => g = h
         /\ \A i, j \in DOMAIN list : Linked(list[i], list[j]) =>
              \E g \in Groups(list) : i \in g /\ j \in g
         /\ \A g \in Groups(list) : \A part \in (SUBSET g) \ {{}, g} :
              \E i \in part, j \in g \ part : Linked(list[i], list[j])
<1>. DEFINE n == Len(list)  forest == Forest(list)
<1>1. n \in Nat /\ DOMAIN list = 1..n
  BY LenProperties
<1>2. PICK root : Joint(list, AllPairs(n), forest, root)
  BY ForestIs DEF JoinedUp
<1>3. PICK depth : /\ Upward(n, forest, root, depth)
                   /\ \A x \in 1..n : depth[x] < Cardinality(ClassOf(n, root, x))
  BY <1>2 DEF Joint, Classes
<1>4. \A x \in 1..n : depth[x] < n
  <2>. SUFFICES ASSUME NEW x \in 1..n PROVE depth[x] < n
    OBVIOUS
  <2>1. depth[x] \in Nat
    BY <1>3 DEF Upward
  <2>. QED
    BY <1>1, <1>3, <2>1, ClassesFinite
<1>5. \A x \in 1..n : Find(forest, x).at = root[x]
  BY <1>1, <1>3, <1>4, FindIs
<1>6. \A x \in 1..n : root[x] \in 1..n
  BY <1>3 DEF Upward
<1>. DEFINE Class(r) == {j \in 1..n : root[j] = r}
<1>7. Groups(list) = {Class(r) : r \in 1..n} \ {{}}
  <2>1. \A r : {j \in DOMAIN list : Find(forest, j).at = r} = Class(r)
    BY <1>1, <1>5
  <2>2. Groups(list) = {{j \in DOMAIN list : Find(forest, j).at = r} : r \in DOMAIN list} \ {{}}
    BY DEF Groups
  <2>. HIDE DEF Class
  <2>. QED
    BY <1>1, <2>1, <2>2
<1>. HIDE DEF n, forest
<1>8. IsFiniteSet(Groups(list))
  <2>. DEFINE D == 1..n  f == [r \in D |-> Class(r)]  T == {f[r] : r \in D}
  <2>1. IsFiniteSet(D)
    BY <1>1, FS_Interval
  <2>2. f = [r \in D |-> f[r]] /\ T = {Class(r) : r \in 1..n}
    OBVIOUS
  <2>. HIDE DEF f, Class, D
  <2>3. IsFiniteSet(T)
    BY <2>1, <2>2, ImageFinite
  <2>. HIDE DEF T
  <2>4. Groups(list) \subseteq T
    BY <1>7, <2>2
  <2>. QED
    BY <2>3, <2>4, FS_Subset
<1>9. \A g \in Groups(list) : g # {} /\ g \subseteq DOMAIN list
  BY <1>1, <1>7
<1>10. \A g, h \in Groups(list) : g \cap h # {} => g = h
  <2>. SUFFICES ASSUME NEW g \in Groups(list), NEW h \in Groups(list), g \cap h # {}
                PROVE  g = h
    OBVIOUS
  <2>1. PICK r \in 1..n, t \in 1..n : g = Class(r) /\ h = Class(t)
    BY <1>7
  <2>2. PICK i : i \in g /\ i \in h
    OBVIOUS
  <2>3. r = t
    BY <2>1, <2>2
  <2>. QED
    BY <2>1, <2>3
<1>11. \A i, j \in DOMAIN list : Linked(list[i], list[j]) => root[i] = root[j]
  <2>. SUFFICES ASSUME NEW i \in DOMAIN list, NEW j \in DOMAIN list, Linked(list[i], list[j])
                PROVE  root[i] = root[j]
    OBVIOUS
  <2>1. CASE i < j
    <3>1. <<i, j>> \in AllPairs(n)
      BY <1>1, <2>1 DEF AllPairs
    <3>. QED
      BY <1>2, <3>1 DEF Joint
  <2>2. CASE j < i
    <3>1. <<j, i>> \in AllPairs(n)
      BY <1>1, <2>2 DEF AllPairs
    <3>. QED
      BY <1>2, <3>1 DEF Joint
  <2>. QED
    BY <1>1, <2>1, <2>2
<1>12. ASSUME NEW i \in DOMAIN list, NEW j \in DOMAIN list, Linked(list[i], list[j])
       PROVE  \E g \in Groups(list) : i \in g /\ j \in g
  <2>1. Class(root[i]) \in Groups(list) /\ i \in Class(root[i]) /\ j \in Class(root[i])
    BY <1>1, <1>6, <1>7, <1>11, <1>12
  <2>. QED
    BY <2>1
<1>13. ASSUME NEW g \in Groups(list), NEW part \in (SUBSET g) \ {{}, g}
       PROVE  \E i \in part, j \in g \ part : Linked(list[i], list[j])
  <2>. SUFFICES ASSUME \A i \in part, j \in g \ part : ~ Linked(list[i], list[j])
                PROVE  FALSE
    OBVIOUS
  <2>1. PICK r \in 1..n : g = Class(r)
    BY <1>7
  <2>2. g \subseteq DOMAIN list /\ \A i \in DOMAIN list : i \in g <=> root[i] = r
    BY <1>1, <2>1
  <2>3. ASSUME NEW i \in part, NEW j \in DOMAIN list \ part
        PROVE  ~ Linked(list[i], list[j]) /\ ~ Linked(list[j], list[i])
    <3>1. i \in DOMAIN list /\ i \in g /\ root[i] = r
      BY <2>2
    <3>2. CASE j \in g
      BY <3>1, <3>2
    <3>3. CASE j \notin g
      BY <1>11, <2>2, <3>1, <3>3
    <3>. QED
      BY <3>2, <3>3
  <2>4. Closed(list, part)
    BY <2>3 DEF Closed
  <2>5. PICK i \in part, j \in g : j \notin part
    <3>1. part \subseteq g /\ part # {} /\ part # g
      OBVIOUS
    <3>. QED
      BY <3>1
  <2>6. root[i] = root[j] /\ j \in DOMAIN list
    BY <2>2
  <2>7. j \in part
    BY <1>2, <2>2, <2>4, <2>6 DEF Joint
  <2>. QED
    BY <2>5, <2>7
<1>. HIDE DEF Class
<1>. QED
  BY <1>8, <1>9, <1>10, <1>12, <1>13

(* What is kept of the first m entries of a list. *)
KeptOf(list, m, kept) ==
  /\ \A i \in DOMAIN kept : /\ Actionable(kept[i].verdict)
                            /\ \E j \in 1..m : kept[i] = list[j]
  /\ \A j \in 1..m : Actionable(list[j].verdict) => \E i \in DOMAIN kept : kept[i] = list[j]
  /\ \A i, j \in DOMAIN kept : kept[i] = kept[j] => i = j

(* The rounds of the comprehension. *)
Keeping(list, N, s) ==
  s = [i \in 0..N |-> IF i = 0 THEN <<>>
                      ELSE IF Actionable(list[i].verdict) THEN Append(s[i - 1], list[i])
                      ELSE s[i - 1]]

(* They are a function. *)
LEMMA KeepingExists ==
  ASSUME NEW list, NEW N \in Nat
  PROVE  \E s : Keeping(list, N, s)
<1>. DEFINE Defined(n) == \E s : Keeping(list, n, s)
            Bad == {n \in 0..N : ~ Defined(n)}
            More(t, i) == IF Actionable(list[i].verdict) THEN Append(t, list[i]) ELSE t
<1>1. SUFFICES ASSUME N \in Bad PROVE FALSE
  OBVIOUS
<1>2. Bad \in SUBSET Nat /\ Bad # {}
  <2>. HIDE DEF Defined
  <2>. QED
    BY <1>1
<1>3. PICK n \in Bad : \A m \in Bad : n <= m
  <2>. HIDE DEF Bad
  <2>. QED
    BY <1>2, HasLeast
<1>4. n # 0
  <2>1. Keeping(list, 0, [i \in 0..0 |-> <<>>])
    BY DEF Keeping
  <2>. QED
    BY <1>3, <2>1
<1>5. PICK s : Keeping(list, n - 1, s)
  <2>1. n - 1 \in 0..N /\ ~ (n <= n - 1)
    BY <1>3, <1>4
  <2>2. n - 1 \notin Bad
    BY <1>3, <2>1
  <2>. QED
    BY <2>1, <2>2
<1>. DEFINE v == [i \in 0..n |-> IF i = n THEN More(s[n - 1], n) ELSE s[i]]
<1>6. n \in Nat /\ n - 1 \in 0..n /\ n - 1 # n
  BY <1>3, <1>4
<1>7. ASSUME NEW i \in 0..n
      PROVE  v[i] = IF i = 0 THEN <<>> ELSE More(v[i - 1], i)
  <2>. HIDE DEF More
  <2>1. CASE i = n
    BY <1>4, <1>6, <2>1
  <2>2. CASE i # n
    <3>1. i \in 0..n - 1 /\ (i # 0 => i - 1 \in 0..n /\ i - 1 # n)
      BY <1>6, <2>2
    <3>2. s[i] = IF i = 0 THEN <<>> ELSE More(s[i - 1], i)
      BY <1>5, <3>1 DEF Keeping, More
    <3>. QED
      BY <2>2, <3>1, <3>2
  <2>. QED
    BY <2>1, <2>2
<1>8. Keeping(list, n, v)
  <2>1. v = [i \in 0..n |-> v[i]]
    OBVIOUS
  <2>. HIDE DEF v
  <2>2. v = [i \in 0..n |-> IF i = 0 THEN <<>> ELSE More(v[i - 1], i)]
    <3>. HIDE DEF More
    <3>. QED
      BY <1>7, <2>1
  <2>. QED
    BY <2>2 DEF Keeping
<1>. QED
  BY <1>3, <1>8

(* The campaigns are looked for among the actionable packages, each once. *)
LEMMA InCampaignsIs ==
  ASSUME NEW S, NEW list \in Seq(S), \A i, j \in DOMAIN list : list[i] = list[j] => i = j
  PROVE  InCampaigns(list) \in Seq(S) /\ KeptOf(list, Len(list), InCampaigns(list))
<1>. DEFINE n == Len(list)
<1>1. n \in Nat /\ DOMAIN list = 1..n /\ \A i \in 1..n : list[i] \in S
  BY LenProperties
<1>. DEFINE s == CHOOSE s : Keeping(list, n, s)
<1>2. InCampaigns(list) = s[n]
  BY DEF InCampaigns, Keeping
<1>. HIDE DEF n
<1>3. Keeping(list, n, s)
  BY <1>1, KeepingExists
<1>. HIDE DEF s
<1>. DEFINE Good(m) == s[m] \in Seq(S) /\ KeptOf(list, m, s[m])
            Bad == {m \in 0..n : ~ Good(m)}
<1>4. Good(0)
  <2>1. s[0] = <<>>
    BY <1>1, <1>3 DEF Keeping
  <2>. QED
    BY <2>1 DEF KeptOf
<1>5. ASSUME NEW m \in 1..n, Good(m - 1) PROVE Good(m)
  <2>. DEFINE k == s[m - 1]
  <2>1. s[m] = IF Actionable(list[m].verdict) THEN Append(k, list[m]) ELSE k
    <3>1. m \in 0..n /\ m # 0
      BY <1>1
    <3>. QED
      BY <1>3, <3>1 DEF Keeping
  <2>2. k \in Seq(S) /\ KeptOf(list, m - 1, k)
    BY <1>5
  <2>3. m \in Nat /\ list[m] \in S /\ \A j \in 1..m : j \in 1..m - 1 \/ j = m
    BY <1>1
  <2>. HIDE DEF k
  <2>4. CASE ~ Actionable(list[m].verdict)
    BY <2>1, <2>2, <2>3, <2>4 DEF KeptOf
  <2>5. CASE Actionable(list[m].verdict)
    <3>. DEFINE a == Append(k, list[m])  l == Len(k)
    <3>1. /\ a \in Seq(S) /\ l \in Nat /\ DOMAIN a = 1..l + 1 /\ DOMAIN k = 1..l
          /\ a[l + 1] = list[m] /\ \A i \in 1..l : a[i] = k[i]
      BY <2>2, <2>3, AppendProperties
    <3>2. s[m] = a
      BY <2>1, <2>5
    <3>. HIDE DEF a, l
    <3>3. \A i \in 1..l + 1 : i \in 1..l \/ i = l + 1
      BY <3>1
    <3>4. \A i \in 1..l : k[i] # list[m]
      <4>1. \A j \in 1..m - 1 : j \in 1..n /\ j # m
        BY <1>1, <2>3
      <4>2. \A j \in 1..m - 1 : list[j] # list[m]
        BY <1>1, <4>1
      <4>3. \A i \in 1..l : \E j \in 1..m - 1 : k[i] = list[j]
        BY <2>2, <3>1 DEF KeptOf
      <4>. QED
        BY <4>2, <4>3
    <3>5. ASSUME NEW i \in DOMAIN a
          PROVE  Actionable(a[i].verdict) /\ \E j \in 1..m : a[i] = list[j]
      <4>1. CASE i \in 1..l
        <5>1. PICK j \in 1..m - 1 : k[i] = list[j]
          BY <2>2, <3>1, <4>1 DEF KeptOf
        <5>2. j \in 1..m
          BY <2>3
        <5>. QED
          BY <2>2, <3>1, <4>1, <5>1, <5>2 DEF KeptOf
      <4>2. CASE i = l + 1
        BY <2>3, <2>5, <3>1, <4>2
      <4>. QED
        BY <3>1, <3>3, <4>1, <4>2
    <3>6. ASSUME NEW j \in 1..m, Actionable(list[j].verdict)
          PROVE  \E i \in DOMAIN a : a[i] = list[j]
      <4>1. CASE j \in 1..m - 1
        <5>1. PICK i \in 1..l : k[i] = list[j]
          BY <2>2, <3>1, <3>6, <4>1 DEF KeptOf
        <5>2. i \in 1..l + 1
          BY <3>1
        <5>. QED
          BY <3>1, <5>1, <5>2
      <4>2. CASE j = m
        <5>1. l + 1 \in 1..l + 1
          BY <3>1
        <5>. QED
          BY <3>1, <4>2, <5>1
      <4>. QED
        BY <2>3, <4>1, <4>2
    <3>7. ASSUME NEW i \in DOMAIN a, NEW j \in DOMAIN a, a[i] = a[j] PROVE i = j
      <4>1. (i \in 1..l \/ i = l + 1) /\ (j \in 1..l \/ j = l + 1)
        BY <3>1, <3>3
      <4>2. CASE i \in 1..l /\ j \in 1..l
        BY <2>2, <3>1, <3>7, <4>2 DEF KeptOf
      <4>. QED
        BY <3>1, <3>4, <3>7, <4>1, <4>2
    <3>8. KeptOf(list, m, a)
      BY <3>5, <3>6, <3>7 DEF KeptOf
    <3>. QED
      BY <3>1, <3>2, <3>8
  <2>. QED
    BY <2>4, <2>5
<1>. HIDE DEF Good
<1>6. Good(n)
  <2>. SUFFICES ASSUME ~ Good(n) PROVE FALSE
    OBVIOUS
  <2>1. Bad \in SUBSET Nat /\ Bad # {}
    BY <1>1
  <2>2. PICK m \in Bad : \A k \in Bad : m <= k
    <3>. HIDE DEF Bad
    <3>. QED
      BY <2>1, HasLeast
  <2>3. m \in 1..n
    BY <1>1, <1>4, <2>2
  <2>4. m - 1 \in 0..n /\ ~ (m <= m - 1)
    BY <1>1, <2>3
  <2>5. Good(m - 1)
    BY <2>2, <2>4
  <2>. QED
    BY <1>5, <2>2, <2>3, <2>5
<1>. QED
  BY <1>2, <1>6 DEF Good, n

(* Disjoint sets of two elements or more: there are twice as many elements as
   sets. *)
LEMMA Pairing ==
  ASSUME NEW U, IsFiniteSet(U), NEW G, IsFiniteSet(G),
         \A g \in G : g \subseteq U /\ Cardinality(g) >= 2,
         \A g, h \in G : g \cap h # {} => g = h
  PROVE  2 * Cardinality(G) <= Cardinality(U)
<1>. DEFINE Over(n, H, V) == /\ H \subseteq G /\ V \subseteq U /\ UNION H \subseteq V
                             /\ Cardinality(H) = n /\ ~ (2 * n <= Cardinality(V))
            Bad == {n \in Nat : \E H, V : Over(n, H, V)}
<1>1. SUFFICES ASSUME Bad # {} PROVE FALSE
  <2>1. Cardinality(G) \in Nat
    BY FS_CardinalityType
  <2>2. UNION G \subseteq U
    OBVIOUS
  <2>3. Cardinality(G) \notin Bad
    BY <1>1
  <2>. QED
    BY <2>1, <2>2, <2>3
<1>2. PICK n \in Bad : \A m \in Bad : n <= m
  <2>1. Bad \in SUBSET Nat
    OBVIOUS
  <2>. HIDE DEF Bad
  <2>. QED
    BY <1>1, <2>1, HasLeast
<1>3. PICK H, V : Over(n, H, V)
  BY <1>2
<1>4. /\ IsFiniteSet(H) /\ IsFiniteSet(V) /\ n \in Nat /\ Cardinality(V) \in Nat
      /\ Cardinality(H) = n
  BY <1>2, <1>3, FS_Subset, FS_CardinalityType
<1>5. PICK g : g \in H
  <2>1. n # 0
    BY <1>3, <1>4
  <2>. QED
    BY <1>4, <2>1, FS_EmptySet
<1>. DEFINE H2 == H \ {g}  V2 == V \ g
<1>6. Cardinality(H2) = n - 1 /\ n - 1 \in Nat
  <2>1. Cardinality(H2) = n - 1 /\ IsFiniteSet(H2)
    BY <1>4, <1>5, FS_RemoveElement
  <2>. QED
    BY <2>1, FS_CardinalityType
<1>7. /\ Cardinality(V) = Cardinality(V2) + Cardinality(g)
      /\ Cardinality(V2) \in Nat /\ Cardinality(g) \in Nat /\ Cardinality(g) >= 2
  <2>1. g \subseteq V /\ Cardinality(g) >= 2
    BY <1>3, <1>5
  <2>2. IsFiniteSet(g) /\ IsFiniteSet(V2) /\ V = V2 \cup g /\ V2 \cap g = {}
    BY <1>4, <2>1, FS_Subset
  <2>3. Cardinality(V2 \cup g) = Cardinality(V2) + Cardinality(g) - Cardinality(V2 \cap g)
    BY <2>2, FS_Union
  <2>4. Cardinality(g) \in Nat /\ Cardinality(V2) \in Nat /\ Cardinality(V2 \cap g) = 0
    BY <2>2, FS_CardinalityType, FS_EmptySet
  <2>. HIDE DEF V2
  <2>. QED
    BY <2>1, <2>2, <2>3, <2>4
<1>8. Over(n - 1, H2, V2)
  <2>1. H2 \subseteq G /\ V2 \subseteq U
    BY <1>3
  <2>2. UNION H2 \subseteq V2
    BY <1>3, <1>5
  <2>3. ~ (2 * n <= Cardinality(V))
    BY <1>3
  <2>. HIDE DEF H2, V2
  <2>4. ~ (2 * (n - 1) <= Cardinality(V2))
    BY <1>4, <1>7, <2>3
  <2>. QED
    BY <1>6, <2>1, <2>2, <2>4
<1>. HIDE DEF Over
<1>. QED
  BY <1>2, <1>4, <1>6, <1>8

(* A finite set with two elements has two of them. *)
LEMMA TwoIn ==
  ASSUME NEW g, IsFiniteSet(g)
  PROVE  Cardinality(g) >= 2 <=> \E i, j \in g : i # j
<1>1. Cardinality(g) \in Nat
  BY FS_CardinalityType
<1>2. ASSUME NEW i \in g, NEW j \in g, i # j PROVE Cardinality(g) >= 2
  <2>1. Cardinality(g) # 0
    BY FS_EmptySet
  <2>2. Cardinality(g) # 1
    BY <1>2, FS_Singleton
  <2>. QED
    BY <1>1, <2>1, <2>2
<1>3. ASSUME Cardinality(g) >= 2 PROVE \E i, j \in g : i # j
  <2>1. Cardinality(g) # 0 /\ Cardinality(g) # 1
    BY <1>1, <1>3
  <2>2. PICK i : i \in g
    BY <2>1, FS_EmptySet
  <2>3. g # {i}
    BY <2>1, FS_Singleton
  <2>. QED
    BY <2>2, <2>3
<1>. QED
  BY <1>2, <1>3

-----------------------------------------------------------------------------
(* The packages that a list may hold, each at most once. *)
Profiles == {Profile[i] : i \in DOMAIN Profile}
OncePerCase(list) ==
  list \in Seq(Profiles) /\ \A i, j \in DOMAIN list : list[i] = list[j] => i = j

(* The campaigns that are looked for, as sets of incidents. *)
MembersOf(list) == {c.members : c \in Clusters(list)}
CasesOf(list) == {p \in ToSet(list) : Actionable(p.verdict)}
Large(groups) == {g \in groups : Cardinality(g) >= 2}

(* A package of a list is its incident's profile. *)
LEMMA ProfilesAre ==
  /\ \A p \in Profiles : p.incident \in DOMAIN Profile /\ p = Profile[p.incident]
  /\ \A p, q \in Profiles : Linked(p, q) => Linked(q, p)
<1>1. \A p \in Profiles : p.incident \in DOMAIN Profile /\ p = Profile[p.incident]
  <2>. SUFFICES ASSUME NEW i \in DOMAIN Profile
                PROVE  Profile[i].incident = i
    BY DEF Profiles
  <2>. QED
    BY StoresAssumption
<1>2. \A p, q \in Profiles : Linked(p, q) => Linked(q, p)
  BY LinkedAreComparable DEF Profiles
<1>. QED
  BY <1>1, <1>2

(* A campaign's members are the incidents of a large group of the actionable
   packages. *)
LEMMA MembersAre ==
  ASSUME NEW list
  PROVE  LET A == InCampaigns(list) IN
         /\ MembersOf(list) = {{A[i].incident : i \in g} : g \in Large(Groups(A))}
         /\ Clusters(list) = {Cluster({A[i] : i \in g}) : g \in Large(Groups(A))}
<1>. DEFINE A == InCampaigns(list)
<1>1. Clusters(list) = {Cluster({A[i] : i \in g}) : g \in Large(Groups(A))}
  BY DEF Clusters, Large
<1>2. ASSUME NEW g PROVE Cluster({A[i] : i \in g}).members = {A[i].incident : i \in g}
  BY DEF Cluster
<1>3. MembersOf(list) = {Cluster({A[i] : i \in g}).members : g \in Large(Groups(A))}
  BY <1>1 DEF MembersOf
<1>. QED
  BY <1>1, <1>2, <1>3

(* The campaigns are the components of the actionable packages. *)
LEMMA ClustersAre ==
  ASSUME NEW list, OncePerCase(list)
  PROVE  /\ \A p, q \in CasesOf(list) : p # q /\ Linked(p, q) =>
              \E m \in MembersOf(list) : p.incident \in m /\ q.incident \in m
         /\ \A m \in MembersOf(list) : \A part \in (SUBSET m) \ {{}, m} :
              \E i \in part, j \in m \ part : Linked(Profile[i], Profile[j])
         /\ \A m, n \in MembersOf(list) : m \cap n # {} => m = n
         /\ \A m \in MembersOf(list) : /\ \E i, j \in m : i # j
                                       /\ \A i \in m : \E p \in CasesOf(list) : p.incident = i
         /\ IsFiniteSet(CasesOf(list)) /\ Cardinality(Clusters(list)) \in Nat
         /\ 2 * Cardinality(Clusters(list)) <= Cardinality(CasesOf(list))
<1>. DEFINE A == InCampaigns(list)  n == Len(A)  M == MembersOf(list)
            G == Groups(A)  B == Large(G)
<1>1. A \in Seq(Profiles) /\ KeptOf(list, Len(list), A)
  BY InCampaignsIs DEF OncePerCase
<1>2. /\ n \in Nat /\ DOMAIN A = 1..n /\ \A i \in 1..n : A[i] \in Profiles
      /\ \A i, j \in 1..n : A[i] = A[j] => i = j
  BY <1>1, LenProperties DEF KeptOf
<1>3. \A p : p \in CasesOf(list) <=> \E i \in 1..n : p = A[i]
  <2>1. list \in Seq(Profiles) /\ DOMAIN list = 1..Len(list)
    BY LenProperties DEF OncePerCase
  <2>2. ToSet(list) = {list[j] : j \in 1..Len(list)}
    BY <2>1 DEF ToSet
  <2>. QED
    BY <1>1, <1>2, <2>2 DEF KeptOf, CasesOf
<1>4. \A i, j \in DOMAIN A : Linked(A[i], A[j]) => Linked(A[j], A[i])
  BY <1>2, ProfilesAre
<1>5. /\ IsFiniteSet(G) /\ \A g \in G : g # {} /\ g \subseteq 1..n
      /\ \A g, h \in G : g \cap h # {} => g = h
      /\ \A i, j \in 1..n : Linked(A[i], A[j]) => \E g \in G : i \in g /\ j \in g
      /\ \A g \in G : \A part \in (SUBSET g) \ {{}, g} :
           \E i \in part, j \in g \ part : Linked(A[i], A[j])
  <2>. HIDE DEF A
  <2>1. /\ IsFiniteSet(Groups(A)) /\ \A g \in Groups(A) : g # {} /\ g \subseteq DOMAIN A
        /\ \A g, h \in Groups(A) : g \cap h # {} => g = h
        /\ \A i, j \in DOMAIN A : Linked(A[i], A[j]) => \E g \in Groups(A) : i \in g /\ j \in g
        /\ \A g \in Groups(A) : \A part \in (SUBSET g) \ {{}, g} :
             \E i \in part, j \in g \ part : Linked(A[i], A[j])
    BY <1>1, <1>4, GroupsAre
  <2>2. DOMAIN A = 1..n
    BY <1>2
  <2>. HIDE DEF n
  <2>. QED
    BY <2>1, <2>2
<1>. DEFINE In(g) == {A[i].incident : i \in g}
<1>6. M = {In(g) : g \in B} /\ Clusters(list) = {Cluster({A[i] : i \in g}) : g \in B}
  BY MembersAre
<1>7. B \subseteq G /\ \A g \in G : IsFiniteSet(g) /\ (g \in B <=> Cardinality(g) >= 2)
  <2>1. \A g \in G : IsFiniteSet(g)
    <3>. HIDE DEF n, G
    <3>1. IsFiniteSet(1..n)
      BY <1>2, FS_Interval
    <3>2. ASSUME NEW g \in G PROVE IsFiniteSet(g)
      <4>1. g \in SUBSET (1..n)
        BY <1>5
      <4>. QED
        BY <3>1, <4>1, FS_Subset
    <3>. QED
      BY <3>2
  <2>. QED
    BY <2>1 DEF Large
<1>8. \A i, j \in 1..n : A[i].incident = A[j].incident => i = j
  BY <1>2, ProfilesAre
<1>9. \A i \in 1..n : A[i] = Profile[A[i].incident]
  BY <1>2, ProfilesAre
<1>. HIDE DEF A, n, M, G, B
<1>10. ASSUME NEW p \in CasesOf(list), NEW q \in CasesOf(list), p # q, Linked(p, q)
       PROVE  \E m \in M : p.incident \in m /\ q.incident \in m
  <2>1. PICK i \in 1..n, j \in 1..n : p = A[i] /\ q = A[j] /\ i # j
    BY <1>3, <1>10
  <2>2. PICK g \in G : i \in g /\ j \in g
    BY <1>5, <1>10, <2>1
  <2>3. g \in B
    BY <1>7, <2>1, <2>2, TwoIn
  <2>4. In(g) \in M /\ p.incident \in In(g) /\ q.incident \in In(g)
    BY <1>6, <2>1, <2>2, <2>3
  <2>. QED
    BY <2>4
<1>11. ASSUME NEW m \in M, NEW part \in (SUBSET m) \ {{}, m}
       PROVE  \E i \in part, j \in m \ part : Linked(Profile[i], Profile[j])
  <2>1. PICK g \in B : m = In(g)
    BY <1>6
  <2>2. g \in G /\ g \subseteq 1..n
    BY <1>5, <1>7
  <2>. DEFINE P == {i \in g : A[i].incident \in part}
  <2>3. part \subseteq m /\ part # {} /\ part # m
    OBVIOUS
  <2>4. P \in (SUBSET g) \ {{}, g}
    <3>1. PICK e \in part : e \in m
      BY <2>3
    <3>2. PICK d \in m : d \notin part
      BY <2>3
    <3>3. P # {}
      BY <2>1, <3>1
    <3>4. P # g
      BY <2>1, <3>2
    <3>. QED
      BY <3>3, <3>4
  <2>5. PICK i \in P, j \in g \ P : Linked(A[i], A[j])
    <3>. HIDE DEF P
    <3>. QED
      BY <1>5, <2>2, <2>4
  <2>6. i \in 1..n /\ j \in 1..n /\ A[i].incident \in part /\ A[j].incident \in m \ part
    BY <2>1, <2>2
  <2>. QED
    BY <1>9, <2>5, <2>6
<1>12. ASSUME NEW l \in M, NEW m \in M, l \cap m # {} PROVE l = m
  <2>1. PICK g \in B, h \in B : l = In(g) /\ m = In(h)
    BY <1>6
  <2>2. g \in G /\ h \in G /\ g \subseteq 1..n /\ h \subseteq 1..n
    BY <1>5, <1>7
  <2>3. PICK e : e \in l /\ e \in m
    BY <1>12
  <2>4. PICK i \in g, j \in h : A[i].incident = e /\ A[j].incident = e
    BY <2>1, <2>3
  <2>5. i \in g \cap h
    BY <1>8, <2>2, <2>4
  <2>6. g = h
    BY <1>5, <2>2, <2>5
  <2>. QED
    BY <2>1, <2>6
<1>13. ASSUME NEW m \in M
       PROVE  /\ \E i, j \in m : i # j
              /\ \A i \in m : \E p \in CasesOf(list) : p.incident = i
  <2>1. PICK g \in B : m = In(g)
    BY <1>6
  <2>2. g \in G /\ g \subseteq 1..n /\ IsFiniteSet(g) /\ Cardinality(g) >= 2
    BY <1>5, <1>7
  <2>3. PICK i \in g, j \in g : i # j
    <3>1. IsFiniteSet(g) /\ Cardinality(g) >= 2
      BY <2>2
    <3>2. Cardinality(g) >= 2 <=> \E i, j \in g : i # j
      BY <3>1, TwoIn
    <3>. QED
      BY <3>1, <3>2
  <2>4. A[i].incident # A[j].incident /\ A[i].incident \in m /\ A[j].incident \in m
    BY <1>8, <2>1, <2>2, <2>3
  <2>5. \A e \in m : \E p \in CasesOf(list) : p.incident = e
    BY <1>3, <2>1, <2>2
  <2>. QED
    BY <2>4, <2>5
<1>14. IsFiniteSet(CasesOf(list)) /\ Cardinality(CasesOf(list)) = n
  <2>. DEFINE f == [i \in 1..n |-> A[i]]
  <2>1. f \in Surjection(1..n, CasesOf(list)) /\ f \in Injection(1..n, CasesOf(list))
    <3>1. f \in [1..n -> CasesOf(list)] /\ \A i \in 1..n : f[i] = A[i]
      BY <1>3
    <3>2. \A p \in CasesOf(list) : \E i \in 1..n : f[i] = p
      BY <1>3, <3>1
    <3>3. \A i, j \in 1..n : f[i] = f[j] => i = j
      BY <1>2, <3>1
    <3>. HIDE DEF f
    <3>. QED
      BY <3>1, <3>2, <3>3 DEF Surjection, Injection, IsInjective
  <2>2. IsFiniteSet(1..n) /\ Cardinality(1..n) = n
    BY <1>2, FS_Interval
  <2>. HIDE DEF f
  <2>. QED
    BY <2>1, <2>2, FS_Surjection
<1>15. IsFiniteSet(B) /\ Cardinality(B) \in Nat /\ 2 * Cardinality(B) <= n
  <2>1. IsFiniteSet(B)
    BY <1>5, <1>7, FS_Subset
  <2>. DEFINE U == 1..n
  <2>2. IsFiniteSet(U) /\ Cardinality(U) = n
    BY <1>2, FS_Interval
  <2>3. /\ \A g \in B : g \subseteq U /\ Cardinality(g) >= 2
        /\ \A g, h \in B : g \cap h # {} => g = h
    BY <1>5, <1>7
  <2>. HIDE DEF U
  <2>4. 2 * Cardinality(B) <= Cardinality(U)
    BY <2>1, <2>2, <2>3, Pairing
  <2>. QED
    BY <2>1, <2>2, <2>4, FS_CardinalityType
<1>16. Cardinality(Clusters(list)) \in Nat /\ Cardinality(Clusters(list)) <= Cardinality(B)
  <2>. DEFINE f == [g \in B |-> Cluster({A[i] : i \in g})]
  <2>1. f \in Surjection(B, Clusters(list))
    <3>1. f \in [B -> Clusters(list)]
      BY <1>6
    <3>2. \A c \in Clusters(list) : \E g \in B : f[g] = c
      BY <1>6
    <3>. QED
      BY <3>1, <3>2 DEF Surjection
  <2>. HIDE DEF f
  <2>. QED
    BY <1>15, <2>1, FS_Surjection, FS_CardinalityType
<1>17. 2 * Cardinality(Clusters(list)) <= Cardinality(CasesOf(list))
  BY <1>2, <1>14, <1>15, <1>16
<1>. HIDE DEF In
<1>. QED
  BY <1>10, <1>11, <1>12, <1>13, <1>14, <1>16, <1>17 DEF M

-----------------------------------------------------------------------------
(* Among fewer packages the campaigns are the same or fall apart: a campaign of
   theirs lies within one of all of them. *)
LEMMA CampaignsSplit ==
  ASSUME NEW few, OncePerCase(few), NEW all, OncePerCase(all), CasesOf(few) \subseteq CasesOf(all),
         NEW m \in MembersOf(few)
  PROVE  \E w \in MembersOf(all) : m \subseteq w
<1>. DEFINE Case(i) == \E p \in CasesOf(few) : p.incident = i
<1>1. \A p \in CasesOf(few) : p \in Profiles
  <2>1. ToSet(few) \subseteq Profiles
    BY LenProperties DEF OncePerCase, ToSet
  <2>. QED
    BY <2>1 DEF CasesOf
<1>2. /\ \E i, j \in m : i # j
      /\ \A i \in m : Case(i)
      /\ \A part \in (SUBSET m) \ {{}, m} :
           \E i \in part, j \in m \ part : Linked(Profile[i], Profile[j])
  BY ClustersAre
<1>3. \A i \in m : Profile[i] \in CasesOf(all) /\ Profile[i].incident = i
  <2>. SUFFICES ASSUME NEW i \in m PROVE Profile[i] \in CasesOf(all) /\ Profile[i].incident = i
    OBVIOUS
  <2>1. PICK p \in CasesOf(few) : p.incident = i
    BY <1>2
  <2>2. p = Profile[p.incident]
    BY <1>1, ProfilesAre
  <2>. QED
    BY <2>1, <2>2
<1>4. \A i, j \in m : i # j /\ Linked(Profile[i], Profile[j]) =>
        \E w \in MembersOf(all) : i \in w /\ j \in w
  <2>. SUFFICES ASSUME NEW i \in m, NEW j \in m, i # j, Linked(Profile[i], Profile[j])
                PROVE  \E w \in MembersOf(all) : i \in w /\ j \in w
    OBVIOUS
  <2>1. Profile[i] # Profile[j]
    BY <1>3
  <2>2. \E w \in MembersOf(all) : Profile[i].incident \in w /\ Profile[j].incident \in w
    BY <1>3, <2>1, ClustersAre
  <2>. QED
    BY <1>3, <2>2
<1>5. \A w, x \in MembersOf(all) : w \cap x # {} => w = x
  BY ClustersAre
<1>. HIDE DEF Case
<1>6. PICK i \in m, j \in m : i # j
  BY <1>2
<1>7. PICK w \in MembersOf(all) : i \in w
  <2>1. {i} \in (SUBSET m) \ {{}, m}
    BY <1>6
  <2>2. PICK k \in m \ {i} : Linked(Profile[i], Profile[k])
    BY <1>2, <2>1
  <2>. QED
    BY <1>4, <2>2
<1>. DEFINE part == m \cap w
<1>8. ASSUME ~ (m \subseteq w) PROVE FALSE
  <2>1. part \in (SUBSET m) \ {{}, m}
    BY <1>7, <1>8
  <2>2. PICK k \in part, l \in m \ part : Linked(Profile[k], Profile[l])
    <3>. HIDE DEF part
    <3>. QED
      BY <1>2, <2>1
  <2>3. PICK x \in MembersOf(all) : k \in x /\ l \in x
    BY <1>4, <2>2
  <2>4. w = x
    BY <1>5, <2>2, <2>3
  <2>. QED
    BY <2>2, <2>3, <2>4
<1>. QED
  BY <1>8

(* The verdict counts of a summary account for its campaigns. *)
LEMMA SummaryCounts ==
  ASSUME NEW list, OncePerCase(list), NEW s, s = Summary(list)
  PROVE  2 * s.campaigns <= s.malicious + s.suspicious
<1>. DEFINE all == ToSet(list)
            M == WithVerdict(all, {"malicious"})  U == WithVerdict(all, {"suspicious"})
<1>1. /\ s.campaigns = Cardinality(Clusters(list))
      /\ s.malicious = Cardinality(M) /\ s.suspicious = Cardinality(U)
  BY DEF Summary
<1>2. CasesOf(list) = M \cup U /\ M \cap U = {}
  BY DEF CasesOf, WithVerdict, Actionable
<1>. HIDE DEF M, U
<1>3. IsFiniteSet(M) /\ IsFiniteSet(U)
  <2>1. IsFiniteSet(CasesOf(list)) /\ M \in SUBSET CasesOf(list) /\ U \in SUBSET CasesOf(list)
    BY <1>2, ClustersAre
  <2>. QED
    BY <2>1, FS_Subset
<1>4. Cardinality(M \cup U) = Cardinality(M) + Cardinality(U) - Cardinality(M \cap U)
  BY <1>3, FS_Union
<1>5. /\ Cardinality(M) \in Nat /\ Cardinality(U) \in Nat
      /\ Cardinality(M \cap U) = 0
  BY <1>2, <1>3, FS_CardinalityType, FS_EmptySet
<1>6. 2 * Cardinality(Clusters(list)) <= Cardinality(M \cup U) /\ Cardinality(Clusters(list)) \in Nat
  BY <1>2, ClustersAre
<1>. QED
  BY <1>1, <1>4, <1>5, <1>6

(* What repository.py keeps of a tenant has one package of each incident. *)
OncePerIncident(packages) ==
  /\ \E S : packages \in Seq(S)
  /\ \A i \in DOMAIN packages : packages[i].incident \in DOMAIN Profile
  /\ \A i, j \in DOMAIN packages : packages[i].incident = packages[j].incident => i = j
SavedOnce == OncePerIncident(saved)

(* What the routes list of it has each profile once. *)
LEMMA ListedIs ==
  ASSUME NEW packages, OncePerIncident(packages)
  PROVE  /\ OncePerCase(Listed(packages))
         /\ ToSet(Listed(packages)) = {Profile[packages[i].incident] : i \in DOMAIN packages}
<1>. DEFINE n == Len(packages)  list == Listed(packages)
<1>1. n \in Nat /\ DOMAIN packages = 1..n
  BY LenProperties DEF OncePerIncident
<1>2. list = [i \in 1..n |-> Profile[packages[(n - i) + 1].incident]]
  <2>1. \A i \in 1..n : Reverse(packages)[i] = packages[(n - i) + 1]
    BY DEF Reverse
  <2>. QED
    BY <1>1, <2>1 DEF Listed
<1>3. \A i \in 1..n : (n - i) + 1 \in 1..n /\ i = (n - ((n - i) + 1)) + 1
  BY <1>1
<1>. HIDE DEF n, list
<1>4. \A i \in 1..n : packages[i].incident \in DOMAIN Profile
  BY <1>1 DEF OncePerIncident
<1>5. DOMAIN list = 1..n /\ \A i \in 1..n : list[i] = Profile[packages[(n - i) + 1].incident]
  BY <1>2
<1>6. list \in Seq(Profiles) /\ Len(list) = n
  <2>1. \A i \in 1..n : list[i] \in Profiles
    BY <1>3, <1>4, <1>5 DEF Profiles
  <2>2. list \in [1..n -> Profiles]
    BY <1>2, <1>5, <2>1
  <2>. QED
    BY <1>1, <2>2
<1>7. ASSUME NEW i \in 1..n, NEW j \in 1..n, list[i] = list[j] PROVE i = j
  <2>. DEFINE a == (n - i) + 1  b == (n - j) + 1
  <2>1. a \in 1..n /\ b \in 1..n /\ (a = b => i = j)
    BY <1>1
  <2>2. list[i] = Profile[packages[a].incident] /\ list[j] = Profile[packages[b].incident]
    BY <1>5
  <2>. HIDE DEF a, b
  <2>3. \A k \in DOMAIN Profile : Profile[k].incident = k
    BY StoresAssumption
  <2>4. packages[a].incident = packages[b].incident
    BY <1>4, <1>7, <2>1, <2>2, <2>3
  <2>. QED
    BY <1>1, <2>1, <2>4 DEF OncePerIncident
<1>8. ToSet(list) = {Profile[packages[i].incident] : i \in 1..n}
  <2>1. ToSet(list) = {list[i] : i \in 1..n}
    BY <1>5 DEF ToSet
  <2>2. \A i \in 1..n : list[i] = Profile[packages[(n - i) + 1].incident] /\ (n - i) + 1 \in 1..n
    BY <1>3, <1>5
  <2>3. \A i \in 1..n : Profile[packages[i].incident] = list[(n - i) + 1]
    BY <1>3, <1>5
  <2>. QED
    BY <1>3, <2>1, <2>2, <2>3
<1>. QED
  BY <1>1, <1>5, <1>6, <1>7, <1>8 DEF OncePerCase, list

(* The newest packages are some of them. *)
LEMMA WindowIs ==
  ASSUME NEW packages, OncePerIncident(packages), NEW window \in Nat \ {0}
  PROVE  /\ OncePerIncident(Newest(packages, window))
         /\ \A i \in DOMAIN Newest(packages, window) :
              \E j \in DOMAIN packages : Newest(packages, window)[i] = packages[j]
<1>. DEFINE w == Newest(packages, window)  n == Len(packages)
<1>1. PICK S : packages \in Seq(S)
  BY DEF OncePerIncident
<1>2. /\ w \in Seq(S) /\ n \in Nat /\ DOMAIN packages = 1..n
      /\ n <= window => w = packages
      /\ n > window => Len(w) = window /\ \A i \in 1..window : w[i] = packages[n - window + i]
  BY <1>1, NewestIs, LenProperties
<1>. HIDE DEF w, n
<1>3. CASE n <= window
  BY <1>2, <1>3 DEF w
<1>4. CASE n > window
  <2>1. DOMAIN w = 1..window /\ \A i \in 1..window : w[i] = packages[n - window + i]
    BY <1>2, <1>4, LenProperties
  <2>2. \A i \in 1..window : n - window + i \in 1..n
    BY <1>2, <1>4
  <2>3. \A i, j \in 1..window : n - window + i = n - window + j => i = j
    BY <1>2
  <2>4. \A i \in DOMAIN w : w[i].incident \in DOMAIN Profile
    BY <1>2, <2>1, <2>2 DEF OncePerIncident
  <2>5. ASSUME NEW i \in DOMAIN w, NEW j \in DOMAIN w, w[i].incident = w[j].incident
        PROVE  i = j
    <3>. DEFINE a == n - window + i  b == n - window + j
    <3>1. w[i] = packages[a] /\ w[j] = packages[b] /\ a \in 1..n /\ b \in 1..n
      BY <2>1, <2>2
    <3>. HIDE DEF a, b
    <3>2. a = b
      BY <1>2, <2>5, <3>1 DEF OncePerIncident
    <3>. QED
      BY <2>1, <2>3, <3>2 DEF a, b
  <2>6. \A i \in DOMAIN w : \E j \in DOMAIN packages : w[i] = packages[j]
    BY <1>2, <2>1, <2>2
  <2>. QED
    BY <1>2, <2>4, <2>5, <2>6 DEF w, OncePerIncident
<1>5. n <= window \/ n > window
  BY <1>2
<1>. QED
  BY <1>3, <1>4, <1>5

(* Nothing is saved at the start. *)
LEMMA SavedStart == Init => SavedOnce
<1>. SUFFICES ASSUME saved = <<>> PROVE SavedOnce
  BY DEF Init
<1>1. saved \in Seq({}) /\ DOMAIN saved = {}
  OBVIOUS
<1>. QED
  BY <1>1 DEF SavedOnce, OncePerIncident

(* A package that is saved is the only one of its incident. *)
LEMMA SavePackageKeepsOnce ==
  ASSUME SavedOnce, NEW a \in Attempts, SavePackage(a)
  PROVE  SavedOnce'
<1>. DEFINE mine == [incident |-> IncidentOf[a], matches |-> attempts[a].matches]
            present == {i \in DOMAIN saved : saved[i].incident = IncidentOf[a]}
<1>1. saved' = IF present = {} THEN Append(saved, mine)
               ELSE IF durable THEN saved
               ELSE [i \in DOMAIN saved |-> IF i \in present THEN mine ELSE saved[i]]
  BY DEF SavePackage
<1>2. mine.incident = IncidentOf[a] /\ IncidentOf[a] \in DOMAIN Profile
  BY StoresAssumption
<1>3. PICK S : saved \in Seq(S)
  BY DEF SavedOnce, OncePerIncident
<1>. DEFINE n == Len(saved)  T == S \cup {mine}
<1>4. n \in Nat /\ DOMAIN saved = 1..n /\ saved \in Seq(T)
  BY <1>3, LenProperties
<1>. HIDE DEF n, T
<1>5. /\ mine \in T
      /\ \A i \in 1..n : i \in present <=> saved[i].incident = IncidentOf[a]
      /\ \A i \in 1..n : saved[i].incident \in DOMAIN Profile
      /\ \A i, j \in 1..n : saved[i].incident = saved[j].incident => i = j
  BY <1>4 DEF SavedOnce, OncePerIncident, T
<1>6. present \subseteq 1..n
  BY <1>4
<1>. HIDE DEF mine, present
<1>7. CASE present = {}
  <2>. DEFINE more == Append(saved, mine)
  <2>1. /\ more \in Seq(T) /\ DOMAIN more = 1..n + 1 /\ more[n + 1] = mine
        /\ \A i \in 1..n : more[i] = saved[i]
    BY <1>4, <1>5, AppendProperties DEF n
  <2>2. saved' = more
    BY <1>1, <1>7
  <2>. HIDE DEF more
  <2>3. \A i \in 1..n + 1 : i \in 1..n \/ i = n + 1
    BY <1>4
  <2>4. \A i \in 1..n : saved[i].incident # IncidentOf[a]
    BY <1>5, <1>7
  <2>5. \A i \in 1..n + 1 : more[i].incident \in DOMAIN Profile
    BY <1>2, <1>5, <2>1, <2>3
  <2>6. ASSUME NEW i \in 1..n + 1, NEW j \in 1..n + 1, more[i].incident = more[j].incident
        PROVE  i = j
    BY <1>2, <1>5, <2>1, <2>3, <2>4, <2>6
  <2>. QED
    BY <2>1, <2>2, <2>5, <2>6 DEF SavedOnce, OncePerIncident
<1>8. CASE present # {} /\ durable
  BY <1>1, <1>8 DEF SavedOnce
<1>9. CASE present # {} /\ ~ durable
  <2>. DEFINE over == [i \in 1..n |-> IF i \in present THEN mine ELSE saved[i]]
  <2>1. saved' = over
    BY <1>1, <1>4, <1>9
  <2>2. over \in Seq(T)
    <3>1. \A i \in 1..n : saved[i] \in T
      BY <1>4
    <3>. QED
      BY <1>4, <1>5, <3>1
  <2>3. \A i \in 1..n : over[i].incident = saved[i].incident
    BY <1>2, <1>5
  <2>4. DOMAIN over = 1..n
    OBVIOUS
  <2>. HIDE DEF over
  <2>5. \A i \in 1..n : over[i].incident \in DOMAIN Profile
    BY <1>5, <2>3
  <2>6. \A i, j \in 1..n : over[i].incident = over[j].incident => i = j
    BY <1>5, <2>3
  <2>. QED
    BY <2>1, <2>2, <2>4, <2>5, <2>6 DEF SavedOnce, OncePerIncident
<1>. QED
  BY <1>7, <1>8, <1>9

(* No other step saves one. *)
LEMMA SavedStep == SavedOnce /\ [Next]_vars => SavedOnce'
<1>. SUFFICES ASSUME SavedOnce, [Next]_vars PROVE SavedOnce'
  OBVIOUS
<1>1. CASE saved' = saved
  BY <1>1 DEF SavedOnce
<1>2. CASE CasesNext
  <2>1. PICK a \in Attempts : \/ FingerprintInMemory(a) \/ Match(a) \/ SelectRow(a)
                              \/ CommitRow(a) \/ SavePackage(a)
    BY <1>2 DEF CasesNext
  <2>2. CASE SavePackage(a)
    BY <2>2, SavePackageKeepsOnce
  <2>3. CASE FingerprintInMemory(a) \/ Match(a) \/ SelectRow(a) \/ CommitRow(a)
    BY <1>1, <2>3 DEF FingerprintInMemory, Match, SelectRow, CommitRow
  <2>. QED
    BY <2>1, <2>2, <2>3
<1>3. saved' = saved \/ CasesNext
  BY DEF Next, vars, caseVars
<1>. QED
  BY <1>1, <1>2, <1>3

(* What the campaign view shows of any list of packages. *)
LEMMA CampaignsAre ==
  ASSUME NEW packages, OncePerIncident(packages)
  PROVE  AreComponents(CampaignsOf(packages), Listed(packages))
<1>. DEFINE list == Listed(packages)  M == MembersOf(list)
<1>1. OncePerCase(list)
  BY ListedIs
<1>2. M = {c.members : c \in CampaignsOf(packages)}
  BY DEF MembersOf, CampaignsOf
<1>3. CasesOf(list) = {p \in ToSet(list) : Actionable(p.verdict)}
  BY DEF CasesOf
<1>. HIDE DEF list
<1>4. /\ \A p, q \in CasesOf(list) : p # q /\ Linked(p, q) =>
           \E m \in M : p.incident \in m /\ q.incident \in m
      /\ \A m \in M : \A part \in (SUBSET m) \ {{}, m} :
           \E i \in part, j \in m \ part : Linked(Profile[i], Profile[j])
      /\ \A m, n \in M : m \cap n # {} => m = n
  BY <1>1, ClustersAre
<1>. HIDE DEF M
<1>5. AreComponents(CampaignsOf(packages), list)
  <2>1. \A p, q \in CasesOf(list) : p # q /\ Linked(p, q) =>
          \E m \in M : {p.incident, q.incident} \subseteq m
    BY <1>4
  <2>2. \A m, n \in M : m = n \/ m \cap n = {}
    BY <1>4
  <2>. QED
    BY <1>2, <1>3, <1>4, <2>1, <2>2 DEF AreComponents
<1>. QED
  BY <1>5 DEF list

(* And of its newest ones. *)
LEMMA WindowsSplit ==
  ASSUME NEW packages, OncePerIncident(packages), NEW window \in Nat \ {0}
  PROVE  OnlySplits(packages, window)
<1>. DEFINE newest == Newest(packages, window)
            few == Listed(newest)  all == Listed(packages)
<1>1. OncePerIncident(newest) /\ \A i \in DOMAIN newest : \E j \in DOMAIN packages : newest[i] = packages[j]
  BY WindowIs
<1>. HIDE DEF newest
<1>2. OncePerCase(few) /\ OncePerCase(all)
  BY <1>1, ListedIs
<1>3. CasesOf(few) \subseteq CasesOf(all)
  <2>1. ToSet(few) \subseteq ToSet(all)
    BY <1>1, ListedIs
  <2>. QED
    BY <2>1 DEF CasesOf
<1>4. ASSUME NEW c \in CampaignsOf(newest)
      PROVE  \E whole \in CampaignsOf(packages) : c.members \subseteq whole.members
  <2>1. c.members \in MembersOf(few)
    BY DEF CampaignsOf, MembersOf
  <2>2. PICK w \in MembersOf(all) : c.members \subseteq w
    BY <1>2, <1>3, <2>1, CampaignsSplit
  <2>3. \E whole \in CampaignsOf(packages) : w = whole.members
    BY DEF CampaignsOf, MembersOf
  <2>. QED
    BY <2>2, <2>3
<1>5. ASSUME NEW s, s = SummaryOf(packages, window)
      PROVE  2 * s.campaigns <= s.malicious + s.suspicious
  <2>1. s = Summary(few)
    BY <1>5 DEF SummaryOf, newest
  <2>. QED
    BY <1>2, <2>1, SummaryCounts
<1>. QED
  BY <1>4, <1>5 DEF OnlySplits, newest

(* The campaigns that the union-find of CampaignEngine.cluster reports are the
   connected components of the actionable incidents, and an executive summary
   of a shorter window only splits them and counts no more of them than its
   verdicts account for (ExecutiveEngine.summarize): for any number of saved
   packages, of features and of windows. *)
THEOREM ClustersStayComponents == Spec => ClustersAreComponents
<1>. DEFINE Right == /\ AreComponents(CampaignsOf(saved'), Listed(saved'))
                     /\ \A window \in 1..Len(saved') : OnlySplits(saved', window)
<1>1. SavedOnce' => Right
  <2>. SUFFICES ASSUME OncePerIncident(saved') PROVE Right
    BY DEF SavedOnce
  <2>1. AreComponents(CampaignsOf(saved'), Listed(saved'))
    BY CampaignsAre
  <2>2. ASSUME NEW window \in 1..Len(saved') PROVE OnlySplits(saved', window)
    <3>1. Len(saved') \in Nat
      BY LenProperties DEF OncePerIncident
    <3>2. window \in Nat \ {0}
      BY <3>1
    <3>. QED
      BY <3>2, WindowsSplit
  <2>. QED
    BY <2>1, <2>2
<1>2. SavedOnce' => [saved' # saved => Right]_vars
  BY <1>1
<1>. QED
  BY <1>2, SavedStart, SavedStep, PTL DEF Spec, ClustersAreComponents
=============================================================================
