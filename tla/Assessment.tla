----------------------------- MODULE Assessment ------------------------------
(***************************************************************************)
(* From evidence to package: what the tools of one investigation fold into *)
(* its state (agents/tools.py), in any order in which their results come,  *)
(* and what finalize (agents/loop.py) concludes from it. BatchLoop and     *)
(* TaskScheduler say which tools run when; here every tool may end its     *)
(* work at any moment at which the planner, or reflection, could have      *)
(* asked for it, and finalize may find the evidence at any stage, as it    *)
(* does when a budget ends. The values are those the verdict depends on.   *)
(***************************************************************************)
EXTENDS Response, DetectionExport, Scoring, Detections, TLC

CONSTANTS Alerts,        \* the sets of phrases an alert may consist of
          AlertIocs,     \* [type, value] of the indicators in alert and email
          DroppedIocs,   \* those the attachment's detonation drops
          Malscores,     \* what a detonation may score
          Behaviours,    \* the sets of phrases in a detonation's report
          Hosts, Sightings,     \* the hosts, and the sets of them a hunt may find
          Recipients, TenantRules,
          CameAsEmail,   \* is the alert's artifact an email, or its extra a message_id?
          Connectors     \* what build_aggregator wired

ASSUME EvidenceAssumption ==
  /\ IsFiniteSet(AlertIocs) /\ IsFiniteSet(DroppedIocs)
  /\ Malscores \subseteq 0..1000
  /\ IsFiniteSet(Hosts) /\ Sightings \subseteq SUBSET Hosts
  /\ IsFiniteSet(Recipients)
  /\ \E mock, public \in BOOLEAN, keyed \in SUBSET DOMAIN Supported :
       Connectors = Wired(mock, public, keyed)
  /\ \A r \in TenantRules : r.severity \in DOMAIN SeverityMalice
  /\ IsFiniteSet(TechniquesOf(TenantRules))
  /\ \A t, u \in TechniquesOf(BuiltinRules \cup TenantRules) \cup Range(Signals) :
       t.id = u.id => t.base = u.base
  /\ CameAsEmail \in BOOLEAN

VARIABLES signals,     \* state.signals
          enriched,    \* state.enriched
          detections,  \* state.detections, {} before they ran
          users,       \* state.affected_users
          email,       \* has the email been fetched?
          malscore,    \* state.sandbox_malscore
          detonated,   \* has the attachment been detonated?
          hunted, hits,
          package      \* what finalize concluded, or <<>>

evidence == <<signals, enriched, detections, users, email, malscore, detonated,
              hunted, hits>>
assessmentVars == <<evidence, package>>

AssessmentInit ==
  /\ signals \in Alerts
  /\ enriched = {} /\ detections = {} /\ users = {}
  /\ email = FALSE /\ malscore = 0 /\ detonated = FALSE
  /\ hunted = {} /\ hits = {}
  /\ package = <<>>

(* What enriching an indicator of a type may gather. *)
Answers == [t \in {i.type : i \in AlertIocs \cup DroppedIocs} |-> Gathered(Connectors, t)]

Known == AlertIocs \cup (IF detonated THEN DroppedIocs ELSE {})
Ioc(e) == [type |-> e.type, value |-> e.value]
Unenriched == {i \in Known : \A e \in enriched : Ioc(e) # i}

-----------------------------------------------------------------------------
(* The tools. *)
RunDetections ==
  /\ package = <<>> /\ detections = {}
  /\ detections' = Evaluate(signals, TenantRules)
  /\ signals' = signals \cup UNION {r.title : r \in detections'}
  /\ UNCHANGED <<enriched, users, email, malscore, detonated, hunted, hits, package>>

FetchEmailContext ==
  /\ package = <<>> /\ ~ email
  /\ email' = TRUE
  /\ users' = users \cup Recipients
  /\ UNCHANGED <<signals, enriched, detections, malscore, detonated, hunted, hits, package>>

EnrichedIoc(i, sources) ==
  [type |-> i.type, value |-> i.value, sources |-> sources,
   verdict |-> Fused(sources).verdict, confidence |-> Fused(sources).confidence]

EnrichIocs ==
  /\ package = <<>> /\ Unenriched # {}
  /\ \E found \in {f \in [Unenriched -> UNION Range(Answers)] :
                     \A i \in Unenriched : f[i] \in Answers[i.type]} :
       enriched' = enriched \cup {EnrichedIoc(i, found[i]) : i \in Unenriched}
  /\ UNCHANGED <<signals, detections, users, email, malscore, detonated, hunted, hits, package>>

Malscore_Latest(score) == score
Malscore(score) == Max({malscore, score})

DetonateAttachment ==
  /\ package = <<>> /\ email
  /\ \E score \in Malscores, behaviour \in Behaviours :
       /\ malscore' = Malscore(score)
       /\ signals' = signals \cup behaviour
  /\ detonated' = TRUE
  /\ UNCHANGED <<enriched, detections, users, email, hunted, hits, package>>

(* What may be hunted for. The planner, once there is nothing to enrich or to
   detonate, wants the malicious indicators, or all of them once, if none is
   malicious; reflection wants the suspicious ones, and each malicious one that
   rests on a single source and was not sighted. *)
SourcesSaying(e, verdict) == {j \in DOMAIN e.sources : e.sources[j].verdict = verdict}
Unverified ==
  {e \in WithVerdict(enriched, {"malicious"}) :
     /\ Cardinality(SourcesSaying(e, "malicious")) <= 1
     /\ \A h \in hits : h[1].value # e.value}
Unhunted(iocs) == {e \in iocs : Ioc(e) \notin hunted}

PlannerHunts ==
  LET malicious == Unhunted(WithVerdict(enriched, {"malicious"})) IN
  IF Unenriched # {} \/ (email /\ ~ detonated) THEN {}
  ELSE IF malicious # {} THEN {malicious}
  ELSE IF hunted = {} THEN {enriched} ELSE {}
ReflectionHunts ==
  {Unhunted(WithVerdict(enriched, {"suspicious"}))} \cup {{e} : e \in Unhunted(Unverified)}
Hunts == PlannerHunts \cup ReflectionHunts

Sighted(targets, seen) == UNION {{Ioc(e)} \X seen[e] : e \in targets}

HuntEdr ==
  /\ package = <<>>
  /\ \E targets \in Hunts \ {{}} : \E seen \in [targets -> Sightings] :
       /\ hunted' = hunted \cup {Ioc(e) : e \in targets}
       /\ hits' = hits \cup Sighted(targets, seen)
  /\ UNCHANGED <<signals, enriched, detections, users, email, malscore, detonated, package>>

-----------------------------------------------------------------------------
(* finalize, in the order of the code. *)
HasMaliciousUrl == \E e \in enriched : e.type = "url" /\ e.verdict = "malicious"
AffectedHosts == {h[2] : h \in hits}
MitreOf == Mitre(signals, HasMaliciousUrl, detections)

RiskOf == Risk(enriched, malscore, Cardinality(hits), MitreOf,
               AssetCriticality(AffectedHosts), Cardinality(users))
VotesOf == CollectVoters(enriched, Cardinality(hits), malscore, detections, MitreOf)

(* review: what the evidence leaves open. *)
Insight(category, iocs) == {[category |-> category, of |-> Ioc(e)] : e \in iocs}
Review ==
  Insight("coverage", Unenriched)
  \cup (IF email /\ ~ detonated THEN {[category |-> "coverage",
                                             of |-> [type |-> "attachment", value |-> ""]]} ELSE {})
  \cup Insight("gap", Unhunted(WithVerdict(enriched, {"suspicious"})))
  \cup Insight("unverified", Unverified)
  \cup Insight("contradiction", {e \in enriched : /\ SourcesSaying(e, "malicious") # {}
                                                 /\ SourcesSaying(e, "benign") # {}})

ConcludedFrom(consensus) ==
  LET verdict == consensus.verdict
      mitre == MitreOf
      dna == Dna(enriched, mitre, users)
      risk == RiskOf IN
  [verdict |-> verdict, confidence |-> consensus.confidence, risk |-> risk,
   severity |-> SeverityFor(risk),
   hypotheses |-> consensus.hypotheses, mitre |-> mitre, dna |-> dna,
   attribution |-> Attribute(mitre, Cardinality(dna.infrastructure),
                             Cardinality(dna.malware), Cardinality(AffectedHosts)).type,
   prediction |-> Predicted(TacticsOf(mitre), verdict),
   plan |-> Plan(verdict, enriched, AffectedHosts, users, email \/ CameAsEmail, "none"),
   reflections |-> Review,
   origin |-> InitialVector(mitre),
   impact |-> Impact(AffectedHosts, verdict, risk),
   claims |-> SummaryClaims(verdict),
   playbook |-> RecommendPlaybook(mitre, verdict)]

Finalize ==
  /\ package = <<>>
  /\ \E votes \in {VotesOf} : package' = ConcludedFrom(Decision(votes))
  /\ UNCHANGED evidence

AssessmentNext ==
  RunDetections \/ FetchEmailContext \/ EnrichIocs \/ DetonateAttachment
  \/ HuntEdr \/ Finalize

AssessmentSpec == AssessmentInit /\ [][AssessmentNext]_assessmentVars

-----------------------------------------------------------------------------
Finalized == package # <<>>

(* Types, and that the two judgements of a case, which are made from the same
   evidence by engines that know nothing of each other, do not contradict one
   another: a case that the vote calls benign or unknown, and for which
   nothing is planned or approved, is of no critical severity
   (RiskScorer.score, ConsensusEngine.decide). It may be of high severity:
   whatever is merely suspicious counts in full for the risk, and half for the
   vote. *)
JudgementsAgree ==
  /\ malscore \in 0..1000 /\ hunted \subseteq {Ioc(e) : e \in enriched}
  /\ hits \subseteq hunted \X Hosts
  /\ Finalized => /\ package.risk \in 0..1000 /\ package.confidence \in 0..1000
                  /\ ~ Actionable(package.verdict) => package.severity # "critical"

(* Evidence only accumulates: whatever a tool adds, the risk score does not
   fall (each factor of RiskScorer.score grows with what state.* keeps). *)
RiskNeverFalls == [][RiskOf' >= RiskOf]_assessmentVars

(* Although further voters dilute the vote, on-host sightings, the strongest
   evidence, never talk a case down (ConsensusEngine.decide). *)
SightingsNeverExonerate ==
  [][hits' # hits =>
       \A before \in {VotesOf}, after \in {VotesOf'} :
         Level[VerdictOn(after)] >= Level[VerdictOn(before)]]_assessmentVars

(* Where the actor is taken to be an insider, the plan blocks no indicator: the
   attribution engine sees the incident's fingerprint, the response engine its
   indicators, and both must read them alike. *)
InsidersHaveNothingToBlock ==
  Finalized /\ package.attribution = "insider" =>
    \A action \in package.plan : action.kind # "block"

(* "all grounded in the investigation's confirmed indicators"
   (detection_export/engine.py:6): where there are any, no exported rule looks
   for something else. *)
ExportsAreGrounded ==
  LET confirmed == Confirmed(enriched, Addresses \cup Names \cup Hashes) IN
  Finalized /\ confirmed # {} =>
    \A rule \in Generated(enriched) : rule.matches \subseteq confirmed
=============================================================================
