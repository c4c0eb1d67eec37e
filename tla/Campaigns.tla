------------------------------ MODULE Campaigns ------------------------------
(***************************************************************************)
(* Campaigns (engines/campaign/engine.py) are the connected components of  *)
(* the incidents whose fingerprints are similar, found with a union-find;  *)
(* the executive summary (engines/executive/engine.py) counts them, and    *)
(* the verdicts, over the packages of a time window. A package is the      *)
(* record of its incident, verdict, dna, mitre, users, hosts, risk and     *)
(* impact; a list of packages has at most one of each incident.            *)
(***************************************************************************)
EXTENDS Response

LinkThreshold == 3000

Linked(p, q) == Similarity(p.dna, q.dna) >= LinkThreshold

-----------------------------------------------------------------------------
(* _UnionFind: walking up halves the path. *)
Walk(uf) ==
  IF uf.parent[uf.at] = uf.at THEN uf
  ELSE LET up == uf.parent[uf.parent[uf.at]] IN
       [parent |-> [uf.parent EXCEPT ![uf.at] = up], at |-> up]

Find(parent, x) ==
  LET walked[i \in 0..Len(parent)] ==
        IF i = 0 THEN [parent |-> parent, at |-> x] ELSE Walk(walked[i - 1]) IN
  walked[Len(parent)]

Union_Shallow(parent, a, b) == [parent EXCEPT ![a] = b]
Union(parent, a, b) ==
  LET target == Find(parent, b)
      source == Find(target.parent, a) IN
  [source.parent EXCEPT ![source.at] = target.at]

(* The two loops over the pairs of packages, by their places in the list. *)
Linking(packages, i, forest) ==
  LET joined[j \in i..Len(packages)] ==
        IF j = i THEN forest
        ELSE IF Linked(packages[i], packages[j]) THEN Union(joined[j - 1], i, j)
        ELSE joined[j - 1] IN
  joined[Len(packages)]

Forest(packages) ==
  LET forest[i \in 0..Len(packages)] ==
        IF i = 0 THEN [k \in DOMAIN packages |-> k]
        ELSE Linking(packages, i, forest[i - 1]) IN
  forest[Len(packages)]

Groups(packages) ==
  {{j \in DOMAIN packages : Find(forest, j).at = root} :
     forest \in {Forest(packages)}, root \in DOMAIN packages} \ {{}}

-----------------------------------------------------------------------------
(* _build_cluster. *)
SharedFeatures(members, kind) ==
  {f \in UNION {p.dna[kind] : p \in members} :
     Cardinality({p \in members : f \in p.dna[kind]}) >= 2}

Cluster(members) ==
  LET techniques == UNION {p.mitre : p \in members}
      hosts == UNION {p.hosts : p \in members} IN
  [members |-> {p.incident : p \in members},
   infrastructure |-> SharedFeatures(members, "infrastructure"),
   malware |-> SharedFeatures(members, "malware"),
   techniques |-> techniques,
   victims |-> UNION {p.users : p \in members},
   verdict |-> IF WithVerdict(members, {"malicious"}) # {} THEN "malicious" ELSE "suspicious",
   attribution |-> Attribute(techniques,
                             Cardinality(SharedFeatures(members, "infrastructure")),
                             Cardinality(SharedFeatures(members, "malware")),
                             Cardinality(hosts)).type]

(* cluster: a campaign has two incidents at least. *)
InCampaigns(packages) ==
  LET kept[i \in 0..Len(packages)] ==
        IF i = 0 THEN <<>>
        ELSE IF Actionable(packages[i].verdict) THEN Append(kept[i - 1], packages[i])
        ELSE kept[i - 1] IN
  kept[Len(packages)]

Clusters(packages) ==
  UNION {{Cluster({actionable[i] : i \in group}) :
            group \in {g \in Groups(actionable) : Cardinality(g) >= 2}} :
         actionable \in {InCampaigns(packages)}}

-----------------------------------------------------------------------------
(* summarize, of the packages created within the window. *)
RiskLevel(average) ==
  IF average >= 700 THEN "critical" ELSE IF average >= 500 THEN "high"
  ELSE IF average >= 300 THEN "medium" ELSE "low"

ImpactRank == <<"low", "medium", "high", "critical">>
WorstImpact(packages) ==
  ImpactRank[Max({1} \cup {i \in DOMAIN ImpactRank :
                             \E p \in ToSet(packages) : p.impact = ImpactRank[i]})]

ComplianceFlags(packages) ==
  {flag \in {"financial", "personal_data", "crown_jewels"} :
     CASE flag = "financial" ->
            \E p \in ToSet(packages) : "finance" \in AssetClasses(p.hosts)
       [] flag = "personal_data" ->
            MapThenSumSet(LAMBDA p : Cardinality(p.users), ToSet(packages)) >= 5
       [] flag = "crown_jewels" ->
            \E p \in ToSet(packages) : p.impact = "critical"}

Summary(packages) ==
  LET inWindow == ToSet(packages)
      count(verdict) == Cardinality(WithVerdict(inWindow, {verdict}))
      volume == Len(packages)
      average == IF volume = 0 THEN 0
                 ELSE RoundDiv(MapThenSumSet(LAMBDA p : p.risk, inWindow), volume) IN
  [volume |-> volume, malicious |-> count("malicious"),
   suspicious |-> count("suspicious"), benign |-> count("benign"),
   average |-> average, risk |-> RiskLevel(average),
   exposure |-> WorstImpact(packages),
   campaigns |-> Cardinality(Clusters(packages)),
   actors |-> [type \in {p.attribution : p \in inWindow} \ {"unattributed"} |->
                 Cardinality({p \in inWindow : p.attribution = type})],
   compliance |-> ComplianceFlags(packages)]
=============================================================================
