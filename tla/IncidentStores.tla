--------------------------- MODULE IncidentStores ----------------------------
(***************************************************************************)
(* What the investigations of one tenant leave to each other: fingerprints *)
(* (engines/fingerprint/store.py), packages (repository.py), the knowledge *)
(* graph and the detection rules; and the requests that read them back,    *)
(* for campaigns, the executive summary and dossiers. Finalizations are    *)
(* attempts, of which an incident may have several (a retried activity),   *)
(* and each works on stores that the others are changing: in one process   *)
(* between its awaits, with Postgres between its transactions. Every row   *)
(* of a table is of this tenant: the database and the dictionaries keep    *)
(* the tenants apart.                                                      *)
(***************************************************************************)
EXTENDS Campaigns, Dossier, RuleStore, KnowledgeGraph, TLC

CONSTANTS Profile,         \* what the package of an incident says
          Attempts,        \* finalizations
          IncidentOf,      \* the incident of each
          MaxFingerprints, \* max_per_tenant of the in-memory store
          CandidateLimit,  \* limit of all_for_tenant
          MatchesKept,     \* limit of match
          Requests,        \* dossier requests
          IndicatorOf,     \* the [type, value] each is for
          Bundled,         \* ThreatFox records shipped with the code, by value
          Online,          \* records its API may give
          Wiring           \* the connectors that the aggregator has

ASSUME StoresAssumption ==
  /\ \A i \in DOMAIN Profile :
       /\ Profile[i].incident = i
       /\ \A k \in Kinds : IsFiniteSet(Profile[i].dna[k])
       /\ \A part \in {Profile[i].iocs, Profile[i].hosts, Profile[i].users} : IsFiniteSet(part)
  /\ IncidentOf \in [Attempts -> DOMAIN Profile]
  /\ MaxFingerprints \in Nat \ {0} /\ CandidateLimit \in Nat \ {0} /\ MatchesKept \in Nat \ {0}
  /\ \A record \in Range(Bundled) \cup Online :
       record.listed /\ record.level \in 0..100 /\ IsFiniteSet(record.related)
  /\ \E mock, public \in BOOLEAN, keyed \in SUBSET DOMAIN Supported :
       Wiring = Wired(mock, public, keyed)

VARIABLES rows,      \* incidents with a fingerprint, oldest first
          saved,     \* packages, oldest first: [incident, matches]
          attempts,  \* what each finalization is at
          dossiers,  \* what each dossier request is at
          foxCache,  \* ThreatFoxConnector._cache
          graph      \* the triples of the knowledge graph

caseVars == <<rows, saved, attempts>>
dossierVars == <<dossiers, foxCache>>
vars == <<durable, graph, ruleVars, caseVars, dossierVars>>

Init ==
  /\ RulesInit
  /\ rows = <<>> /\ saved = <<>>
  /\ attempts = [a \in Attempts |-> [step |-> "begin", matches |-> {}]]
  /\ dossiers = [r \in Requests |-> [step |-> "new"]]
  /\ foxCache = Bundled
  /\ graph = {}

At(a, step) == attempts[a].step = step
To(a, step) == attempts' = [attempts EXCEPT ![a].step = step]
RowsOf(incident) == {i \in DOMAIN rows : rows[i] = incident}

-----------------------------------------------------------------------------
(* Finalization. all_for_tenant gives the newest fingerprints, the oldest of
   them first in memory and last from Postgres. *)
Newest(list, limit) == SubSeq(list, Max({1, Len(list) - limit + 1}), Len(list))
Priors == [i \in DOMAIN Newest(rows, CandidateLimit) |->
             Profile[Newest(rows, CandidateLimit)[i]]]
AllForTenant == IF durable THEN Reverse(Priors) ELSE Priors

MatchesOf(incident) ==
  {p.incident : p \in BestMatches(incident, Profile[incident].dna, AllForTenant, MatchesKept)}

(* _write_graph. An alert's node is named for the alert, which every attempt
   at its investigation shares. *)
AlertNode(incident) == [type |-> "alert", value |-> incident]
CaseTriples(incident) ==
  LET package == Profile[incident]
      alert == AlertNode(incident) IN
  {Triple(alert, "contains", i) : i \in package.iocs}
  \cup {Triple([type |-> "host", value |-> h.name], "affected_by", alert) : h \in package.hosts}
  \cup {Triple([type |-> "user", value |-> u], "received", alert) : u \in package.users}

(* In memory nothing comes between the writing of the graph, the comparison
   and the storing; a fingerprint that is stored again keeps its place in the
   dictionary. *)
FingerprintInMemory(a) ==
  /\ ~ durable /\ At(a, "begin")
  /\ attempts' = [attempts EXCEPT ![a] = [step |-> "stored",
                                          matches |-> MatchesOf(IncidentOf[a])]]
  /\ rows' = IF RowsOf(IncidentOf[a]) # {} THEN rows
             ELSE Newest(Append(rows, IncidentOf[a]), MaxFingerprints)
  /\ graph' = graph \cup CaseTriples(IncidentOf[a])
  /\ UNCHANGED saved

Match(a) ==
  /\ durable /\ At(a, "begin")
  /\ attempts' = [attempts EXCEPT ![a] = [step |-> "matched",
                                          matches |-> MatchesOf(IncidentOf[a])]]
  /\ graph' = graph \cup CaseTriples(IncidentOf[a])
  /\ UNCHANGED <<rows, saved>>

(* The query of PostgresFingerprintStore.store: one_or_none raises when it
   finds two rows, and finalize fails. *)
SelectRow(a) ==
  /\ At(a, "matched")
  /\ To(a, CASE RowsOf(IncidentOf[a]) = {} -> "insert"
             [] Cardinality(RowsOf(IncidentOf[a])) = 1 -> "update"
             [] OTHER -> "failed")
  /\ UNCHANGED <<rows, saved, graph>>

CommitRow(a) ==
  /\ At(a, "insert") \/ At(a, "update")
  /\ rows' = IF At(a, "insert") THEN Append(rows, IncidentOf[a]) ELSE rows
  /\ To(a, "stored")
  /\ UNCHANGED <<saved, graph>>

(* The report, the ticket and the rest of finalize lie between the two. A
   package is replaced in memory; Postgres refuses a second one. *)
SavePackage(a) ==
  LET package == [incident |-> IncidentOf[a], matches |-> attempts[a].matches]
      present == {i \in DOMAIN saved : saved[i].incident = IncidentOf[a]} IN
  /\ At(a, "stored")
  /\ To(a, IF durable /\ present # {} THEN "failed" ELSE "over")
  /\ saved' = IF present = {} THEN Append(saved, package)
              ELSE IF durable THEN saved
              ELSE [i \in DOMAIN saved |-> IF i \in present THEN package ELSE saved[i]]
  /\ UNCHANGED <<rows, graph>>

CasesNext ==
  \E a \in Attempts :
    FingerprintInMemory(a) \/ Match(a) \/ SelectRow(a) \/ CommitRow(a) \/ SavePackage(a)

-----------------------------------------------------------------------------
(* What the routes list: the newest first. *)
Listed(packages) == [i \in DOMAIN packages |-> Profile[Reverse(packages)[i].incident]]
CampaignsOf(packages) == Clusters(Listed(packages))
SummaryOf(packages, window) == Summary(Listed(Newest(packages, window)))

-----------------------------------------------------------------------------
(* A dossier request awaits the aggregator and then ThreatFox, twice. *)
Type(r) == IndicatorOf[r].type
Value(r) == IndicatorOf[r].value

Ask(r) ==
  /\ dossiers[r].step = "new"
  /\ \E answers \in Gathered(Wiring, Type(r)) :
       dossiers' = [dossiers EXCEPT ![r] = [step |-> "asked", sources |-> answers]]
  /\ UNCHANGED <<foxCache, graph>>

(* The record of the cache or, with an API key, of the service, which may fail
   or know none; what it gives is cached for every later request. *)
Found(value) ==
  IF value \in DOMAIN foxCache THEN {foxCache[value]} ELSE Online \cup {NoRecord}
Remembered(value, record) ==
  IF record.listed THEN Joined(foxCache, [v \in {value} |-> record]) ELSE foxCache

EnrichFromFox(r) ==
  /\ dossiers[r].step = "asked"
  /\ \E record \in Found(Value(r)) :
       /\ dossiers' = [dossiers EXCEPT ![r] = [step |-> "enriched", record |-> record,
                                               sources |-> dossiers[r].sources]]
       /\ foxCache' = Remembered(Value(r), record)
  /\ UNCHANGED graph

LookUpInFox(r) ==
  /\ dossiers[r].step = "enriched"
  /\ \E record \in Found(Value(r)) :
       /\ dossiers' = [dossiers EXCEPT ![r] =
                         [step |-> "looked_up", record |-> dossiers[r].record,
                          sources |-> dossiers[r].sources,
                          foxVerdict |-> FoxVerdict(Type(r), record)]]
       /\ foxCache' = Remembered(Value(r), record)
  /\ UNCHANGED graph

(* _relationships: the record's, and of the neighbours in the graph the
   addresses and domains; then _write_graph. *)
Pivots(ioc) ==
  {n \in Within(graph, ioc, 1) \ {ioc} : n.type \in Addresses \cup {"domain"}}
RelatedOf(record) == IF record.listed THEN record.related ELSE {}

DossierTriples(ioc, record) ==
  {Triple(ioc, "related_to", n) : n \in RelatedOf(record)}
  \cup {Triple(ioc, "attributed_to", [type |-> "malware", value |-> record.family]) :
          known \in {TRUE} \cap {record.listed /\ record.family # ""}}

Conclude(r) ==
  LET d == dossiers[r] IN
  /\ d.step = "looked_up"
  /\ \E extra \in ExtraOpinions(Type(r)) :
       dossiers' = [dossiers EXCEPT ![r] =
         [step |-> "done", sources |-> d.sources,
          says |-> Concluded(Type(r), d.sources, d.record, d.foxVerdict, extra),
          campaigns |-> CampaignMatches(Value(r), AllForTenant),
          relations |-> RelatedOf(d.record) \cup Pivots(IndicatorOf[r])]]
  /\ graph' = graph \cup DossierTriples(IndicatorOf[r], d.record)
  /\ UNCHANGED foxCache

DossiersNext ==
  \E r \in Requests : Ask(r) \/ EnrichFromFox(r) \/ LookUpInFox(r) \/ Conclude(r)

-----------------------------------------------------------------------------
Next ==
  /\ UNCHANGED durable
  /\ \/ RulesNext /\ UNCHANGED <<graph, caseVars, dossierVars>>
     \/ CasesNext /\ UNCHANGED <<ruleVars, dossierVars>>
     \/ DossiersNext /\ UNCHANGED <<ruleVars, caseVars>>

Spec == Init /\ [][Next]_vars

-----------------------------------------------------------------------------
Done(r) == dossiers[r].step = "done"

(* The campaigns that the union-find of CampaignEngine.cluster reports are the
   connected components of two or more incidents: no link leaves one, every
   linked incident is in one, and none falls apart. An executive summary over
   a shorter window may see a campaign in pieces, but never joins incidents
   that the whole list keeps apart, and its verdict counts account for the
   campaigns that it reports (ExecutiveEngine.summarize). *)
AreComponents(campaigns, packages) ==
  LET members == {c.members : c \in campaigns}
      cases == {p \in ToSet(packages) : Actionable(p.verdict)} IN
  /\ \A p, q \in cases : p # q /\ Linked(p, q) =>
       \E m \in members : {p.incident, q.incident} \subseteq m
  /\ \A m \in members :
       \A part \in (SUBSET m) \ {{}, m} :
         \E i \in part, j \in m \ part : Linked(Profile[i], Profile[j])
  /\ \A m, n \in members : m = n \/ m \cap n = {}
OnlySplits(packages, window) ==
  /\ \A c \in CampaignsOf(Newest(packages, window)) :
       \E whole \in CampaignsOf(packages) : c.members \subseteq whole.members
  /\ \E s \in {SummaryOf(packages, window)} :
       2 * s.campaigns <= s.malicious + s.suspicious
ClustersAreComponents ==
  [][saved' # saved => /\ AreComponents(CampaignsOf(saved'), Listed(saved'))
                       /\ \A window \in 1..Len(saved') : OnlySplits(saved', window)]_vars

(* Within one process, of two incidents of a campaign that are linked
   directly, the one fingerprinted later found the other
   (FingerprintEngine.match): what the incident's own page shows agrees with
   the campaign view. There are three limits to it. A comparison reads the
   newest fingerprints only; the store evicts the oldest ones, and an incident
   that a retry puts back was unknown meanwhile; and an incident shows its five
   best matches, of which as many others may be that are no less similar. *)
Begun == {a \in Attempts : ~ At(a, "begin")}
NothingEvicted == \A a \in Begun : RowsOf(IncidentOf[a]) # {}
Once(i) == \A a, b \in Begun : IncidentOf[a] = i /\ IncidentOf[b] = i => a = b
Comparable(i) ==
  /\ i \in ToSet(Newest(rows, CandidateLimit))
  /\ NothingEvicted \/ Once(i)
NoLessSimilar(i, j) ==
  {k \in {IncidentOf[a] : a \in Begun} \ {i, j} :
     Similarity(Profile[j].dna, Profile[k].dna) >= Similarity(Profile[j].dna, Profile[i].dna)}
CrowdedOut(i, j) == Cardinality(NoLessSimilar(i, j)) >= MatchesKept
NeighboursAreMatched ==
  ~ durable =>
    \A p, q \in ToSet(saved) :
      /\ p.incident # q.incident
      /\ Linked(Profile[p.incident], Profile[q.incident])
      /\ Comparable(p.incident) /\ Comparable(q.incident)
      => \/ p.incident \in q.matches \/ q.incident \in p.matches
         \/ CrowdedOut(p.incident, q.incident) \/ CrowdedOut(q.incident, p.incident)

(* Asking more feeds never talks an indicator down: a dossier is no milder
   than the judgement the investigations act on (fuse_verdicts). *)
DossiersNeverExonerate ==
  \A r \in Requests : Done(r) =>
    Level[dossiers[r].says.verdict] >= Level[Fused(dossiers[r].sources).verdict]

(* Relations are found from both ends: once a dossier has related its
   indicator, an address or a domain, to another one, the dossier of that one
   names the first (neighbors follows the triples in both directions, though
   only the first request has written any). *)
PivotsBothWays ==
  [][\A q, r \in Requests :
       /\ Done(q) /\ IndicatorOf[r] \in dossiers[q].relations \ {IndicatorOf[q]}
       /\ Type(q) \in Addresses \cup {"domain"}
       /\ ~ Done(r) /\ Done(r)'
       => IndicatorOf[q] \in dossiers'[r].relations]_vars

(* What analysts see around an entity that has just been written to the graph
   is one picture: its paths are shortest ones, and are those of its campaign
   view (GraphClient.path, campaign and neighbors). *)
PathsAreShortest ==
  [][graph' # graph => \A node \in {e.src : e \in graph' \ graph} : QueriesAgree(graph', node)]_vars
=============================================================================
